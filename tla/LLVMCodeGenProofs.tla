-------------------------- MODULE LLVMCodeGenProofs --------------------------
(* Theorems about LLVMCodeGen for programs of any size, and about the symbol *)
(* table it defines its names in, ContextManager, by itself: for every set   *)
(* of names and functions and every bound, whatever is nested in whatever.   *)
EXTENDS LLVMCodeGen, IntervalProofs, SequenceTheorems, FiniteSetTheorems, TLAPS
-----------------------------------------------------------------------------
(* The symbol table: the invariants of MCContextManager, and that the search *)
(* through the maps implements lexical scoping.                              *)

(* What the symbol table relies on; inductive.                               *)
CMInv == CMTypeOK /\ ScopesMatchFunctions /\ BindingsOwned
-----------------------------------------------------------------------------
(* Every definition, global or local and of whatever kind, binds one name in *)
(* the innermost map to storage that did not exist before, owned by the      *)
(* innermost function.                                                       *)
LEMMA DefineEffect ==
  ASSUME CMInv, NEW n \in Name, Define(n)
  PROVE  \E b \in Binding, s \in Storage :
           /\ b.value = Len(storage) + 1
           /\ s.owner = func[Len(func)]
           /\ s.kind = KindOf(b.type)
           /\ Len(storage) < MaxStorage
           /\ symTable' = [symTable EXCEPT ![Len(symTable)] =
                             [@ EXCEPT ![n] = b]]
           /\ func' = func
           /\ storage' = Append(storage, s)
           /\ \/ func[Len(func)] = NullFunction /\ entry' = entry
              \/ \E stored \in BOOLEAN :
                   /\ func[Len(func)] \in Function
                   /\ entry' = [entry EXCEPT ![func[Len(func)]] =
                        <<[op |-> "alloca", of |-> Len(storage) + 1]>>
                        \o (IF stored
                            THEN <<[op |-> "init", of |-> Len(storage) + 1]>>
                            ELSE <<>>) \o @]
<1> USE ContextAssumption DEF CMInv
<1> DEFINE Bound(type) == [value |-> Len(storage) + 1, type |-> type]
<1>1. Len(storage) \in Nat /\ Len(func) \in Nat /\ Len(symTable) \in Nat
  BY DEF CMTypeOK
<1>2. ASSUME NEW type \in ElemType, Bind(n, type)
      PROVE  /\ Bound(type) \in Binding
             /\ Len(storage) < MaxStorage
             /\ symTable' = [symTable EXCEPT ![Len(symTable)] =
                               [@ EXCEPT ![n] = Bound(type)]]
             /\ func' = func
  BY <1>1, <1>2 DEF Bind, NewStorage, Binding, StorageId
<1>3. ASSUME NEW kind \in {"word", "pointer", "array"}, NEW readonly \in BOOLEAN,
             NEW init \in {"zero", "given"}, AllocateGlobal(kind, readonly, init)
      PROVE  /\ func[Len(func)] = NullFunction /\ entry' = entry
             /\ \E s \in Storage : /\ s.owner = func[Len(func)]
                                   /\ s.kind = kind
                                   /\ storage' = Append(storage, s)
  <2> DEFINE s == [owner |-> NullFunction, kind |-> kind,
                   readonly |-> readonly, init |-> init]
  <2>1. s \in Storage
    BY DEF Storage, Owner
  <2>2. func[Len(func)] = NullFunction
    BY <1>1, <1>3 DEF AllocateGlobal, AtModuleLevel, ScopesMatchFunctions
  <2> QED
    BY <1>3, <2>1, <2>2 DEF AllocateGlobal
<1>4. ASSUME NEW kind \in {"word", "pointer", "array"}, NEW stored \in BOOLEAN,
             AllocateLocal(kind, stored)
      PROVE  /\ func[Len(func)] \in Function
             /\ entry' = [entry EXCEPT ![func[Len(func)]] =
                            <<[op |-> "alloca", of |-> Len(storage) + 1]>>
                            \o (IF stored
                                THEN <<[op |-> "init", of |-> Len(storage) + 1]>>
                                ELSE <<>>) \o @]
             /\ \E s \in Storage : /\ s.owner = func[Len(func)]
                                   /\ s.kind = kind
                                   /\ storage' = Append(storage, s)
  <2> DEFINE s == [owner |-> func[Len(func)], kind |-> kind,
                   readonly |-> FALSE, init |-> "none"]
  <2>1. func[Len(func)] \in Function
    BY <1>1, <1>4 DEF AllocateLocal, AtModuleLevel, ScopesMatchFunctions,
                      CMTypeOK, Owner
  <2>2. s \in Storage
    BY <2>1 DEF Storage, Owner
  <2> QED
    BY <1>4, <2>1, <2>2 DEF AllocateLocal, CurrentFunction, NewStorage
<1>5. \E type \in ElemType :
        /\ Bind(n, type)
        /\ \/ \E readonly \in BOOLEAN, init \in {"zero", "given"} :
                AllocateGlobal(KindOf(type), readonly, init)
           \/ \E stored \in BOOLEAN : AllocateLocal(KindOf(type), stored)
  <2>1. /\ KindOf("Constant") = "word" /\ KindOf("Int") = "word"
        /\ KindOf("Pointer") = "pointer" /\ KindOf("Array") = "array"
    BY DEF KindOf
  <2>2. CASE defConstant(n)
    BY <2>1, <2>2 DEF defConstant, ElemType
  <2>3. CASE defVariable(n)
    BY <2>1, <2>3 DEF defVariable, ElemType
  <2>4. CASE defVariableInit(n)
    BY <2>1, <2>4 DEF defVariableInit, ElemType
  <2>5. CASE defPointer(n)
    BY <2>1, <2>5 DEF defPointer, ElemType
  <2>6. CASE defArray(n)
    BY <2>1, <2>6 DEF defArray, ElemType
  <2>7. CASE defArrayInit(n)
    BY <2>1, <2>7 DEF defArrayInit, ElemType
  <2> QED
    BY <2>2, <2>3, <2>4, <2>5, <2>6, <2>7 DEF Define
<1>6. PICK type \in ElemType :
        /\ Bind(n, type)
        /\ \/ \E readonly \in BOOLEAN, init \in {"zero", "given"} :
                AllocateGlobal(KindOf(type), readonly, init)
           \/ \E stored \in BOOLEAN : AllocateLocal(KindOf(type), stored)
  BY <1>5
<1>7. /\ KindOf(type) \in {"word", "pointer", "array"}
      /\ Bound(type).value = Len(storage) + 1
      /\ Bound(type).type = type
  BY DEF KindOf
<1>8. CASE \E readonly \in BOOLEAN, init \in {"zero", "given"} :
             AllocateGlobal(KindOf(type), readonly, init)
  <2>1. PICK s \in Storage : /\ s.owner = func[Len(func)]
                             /\ s.kind = KindOf(type)
                             /\ storage' = Append(storage, s)
                             /\ func[Len(func)] = NullFunction /\ entry' = entry
    BY <1>3, <1>7, <1>8
  <2> QED
    BY <1>2, <1>6, <1>7, <2>1
<1>9. CASE \E stored \in BOOLEAN : AllocateLocal(KindOf(type), stored)
  <2>1. PICK stored \in BOOLEAN : AllocateLocal(KindOf(type), stored)
    BY <1>9
  <2>2. PICK s \in Storage : /\ s.owner = func[Len(func)]
                             /\ s.kind = KindOf(type)
                             /\ storage' = Append(storage, s)
    BY <1>4, <1>7, <2>1
  <2> QED
    BY <1>2, <1>4, <1>6, <1>7, <2>1, <2>2
<1> QED
  BY <1>6, <1>8, <1>9
-----------------------------------------------------------------------------
(* The invariant holds initially and every step preserves it.                *)
LEMMA InvInit == CMInit => CMInv
<1> SUFFICES ASSUME CMInit PROVE CMInv
  OBVIOUS
<1>1. CMTypeOK
  BY ContextAssumption DEF CMInit, CMTypeOK, NoBindings, Owner
<1>2. ScopesMatchFunctions
  BY DEF CMInit, ScopesMatchFunctions
<1>3. BindingsOwned
  BY DEF CMInit, BindingsOwned, NoBindings
<1> QED
  BY <1>1, <1>2, <1>3 DEF CMInv

LEMMA InvNext == CMInv /\ [CMNext]_cmVars => CMInv'
<1> SUFFICES ASSUME CMInv, [CMNext]_cmVars PROVE CMInv'
  OBVIOUS
<1> USE ContextAssumption
<1>0. /\ Len(symTable) \in Nat \ {0} /\ Len(func) = Len(symTable)
      /\ Len(storage) \in Nat
  BY DEF CMInv, CMTypeOK, ScopesMatchFunctions
<1>1. ASSUME NEW f \in Function, enterBlock(f)
      PROVE  CMInv'
  <2>1. /\ symTable' = Append(symTable, NoBindings) /\ func' = Append(func, f)
        /\ storage' = storage /\ entry' = entry
    BY <1>1 DEF enterBlock
  <2>2. NoBindings \in [Name -> Binding \cup {Unbound}] /\ f \in Owner
    BY DEF NoBindings, Owner
  <2>3. CMTypeOK'
    BY <2>1, <2>2 DEF CMInv, CMTypeOK
  <2>4. ScopesMatchFunctions'
    BY <1>0, <2>1, <2>2 DEF CMInv, CMTypeOK, ScopesMatchFunctions
  <2>5. BindingsOwned'
    BY <1>0, <2>1, <2>2 DEF CMInv, CMTypeOK, BindingsOwned, NoBindings
  <2> QED
    BY <2>3, <2>4, <2>5 DEF CMInv
<1>2. CASE exitBlock
  <2>1. /\ Len(symTable) - 1 \in 1 .. Len(symTable)
        /\ symTable' = SubSeq(symTable, 1, Len(symTable) - 1)
        /\ func' = SubSeq(func, 1, Len(func) - 1)
        /\ storage' = storage /\ entry' = entry
    BY <1>0, <1>2 DEF exitBlock
  <2>2. /\ Len(symTable') = Len(symTable) - 1 /\ Len(func') = Len(func) - 1
        /\ \A i \in 1 .. Len(symTable) - 1 :
             symTable'[i] = symTable[i] /\ func'[i] = func[i]
    BY <1>0, <2>1 DEF CMInv, CMTypeOK
  <2>3. CMTypeOK'
    BY <1>0, <2>1 DEF CMInv, CMTypeOK
  <2>4. ScopesMatchFunctions'
    BY <1>0, <2>1, <2>2 DEF CMInv, ScopesMatchFunctions
  <2>5. BindingsOwned'
    BY <1>0, <2>1, <2>2 DEF CMInv, BindingsOwned
  <2> QED
    BY <2>3, <2>4, <2>5 DEF CMInv
<1>3. ASSUME NEW n \in Name, Define(n)
      PROVE  CMInv'
  <2>1. PICK b \in Binding, s \in Storage :
           /\ b.value = Len(storage) + 1
           /\ s.owner = func[Len(func)]
           /\ s.kind = KindOf(b.type)
           /\ Len(storage) < MaxStorage
           /\ symTable' = [symTable EXCEPT ![Len(symTable)] =
                             [@ EXCEPT ![n] = b]]
           /\ func' = func
           /\ storage' = Append(storage, s)
           /\ \/ func[Len(func)] = NullFunction /\ entry' = entry
              \/ \E stored \in BOOLEAN :
                   /\ func[Len(func)] \in Function
                   /\ entry' = [entry EXCEPT ![func[Len(func)]] =
                        <<[op |-> "alloca", of |-> Len(storage) + 1]>>
                        \o (IF stored
                            THEN <<[op |-> "init", of |-> Len(storage) + 1]>>
                            ELSE <<>>) \o @]
    BY <1>3, DefineEffect
  <2>2. symTable' \in Seq([Name -> Binding \cup {Unbound}])
    <3> DEFINE top == [symTable[Len(symTable)] EXCEPT ![n] = b]
    <3>1. symTable[Len(symTable)] \in [Name -> Binding \cup {Unbound}]
      BY <1>0 DEF CMInv, CMTypeOK
    <3>2. top \in [Name -> Binding \cup {Unbound}]
      BY <3>1
    <3>3. symTable' = [symTable EXCEPT ![Len(symTable)] = top]
      BY <2>1
    <3> QED
      BY <1>0, <3>2, <3>3, ExceptSeq DEF CMInv, CMTypeOK
  <2>3. /\ Len(symTable') = Len(symTable)
        /\ storage' \in Seq(Storage)
        /\ Len(storage') = Len(storage) + 1
        /\ storage'[Len(storage) + 1] = s
        /\ \A i \in 1 .. Len(storage) : storage'[i] = storage[i]
    BY <1>0, <2>1, <2>2 DEF CMInv, CMTypeOK
  <2>4. entry' \in [Function -> Seq(EntryOp)]
    <3>1. CASE entry' = entry
      BY <3>1 DEF CMInv, CMTypeOK
    <3>2. ASSUME NEW stored \in BOOLEAN, func[Len(func)] \in Function,
                 entry' = [entry EXCEPT ![func[Len(func)]] =
                        <<[op |-> "alloca", of |-> Len(storage) + 1]>>
                        \o (IF stored
                            THEN <<[op |-> "init", of |-> Len(storage) + 1]>>
                            ELSE <<>>) \o @]
          PROVE  entry' \in [Function -> Seq(EntryOp)]
      <4> DEFINE front == <<[op |-> "alloca", of |-> Len(storage) + 1]>>
                        \o (IF stored
                            THEN <<[op |-> "init", of |-> Len(storage) + 1]>>
                            ELSE <<>>)
      <4>1. /\ [op |-> "alloca", of |-> Len(storage) + 1] \in EntryOp
            /\ [op |-> "init", of |-> Len(storage) + 1] \in EntryOp
        BY <1>0, <2>1 DEF EntryOp, StorageId
      <4>2. front \in Seq(EntryOp)
        BY <4>1
      <4>3. entry[func[Len(func)]] \in Seq(EntryOp)
        BY <3>2 DEF CMInv, CMTypeOK
      <4>4. front \o entry[func[Len(func)]] \in Seq(EntryOp)
        BY <4>2, <4>3
      <4> QED
        BY <3>2, <4>4 DEF CMInv, CMTypeOK
    <3> QED
      BY <2>1, <3>1, <3>2
  <2>5. CMTypeOK'
    BY <2>1, <2>2, <2>3, <2>4 DEF CMInv, CMTypeOK
  <2>6. ScopesMatchFunctions'
    BY <1>0, <2>1, <2>3 DEF CMInv, ScopesMatchFunctions
  <2>7. BindingsOwned'
    <3> SUFFICES ASSUME NEW i \in 1 .. Len(symTable), NEW m \in Name,
                        symTable'[i][m] # Unbound
                 PROVE  LET v == symTable'[i][m] IN
                        /\ v.value \in 1 .. Len(storage')
                        /\ storage'[v.value].owner = func'[i]
                        /\ storage'[v.value].kind = KindOf(v.type)
      BY <2>3 DEF BindingsOwned, KindOf
    <3>1. CASE i = Len(symTable) /\ m = n
      <4>1. symTable'[i][m] = b
        BY <1>0, <2>1, <3>1 DEF CMInv, CMTypeOK
      <4> QED
        BY <1>0, <2>1, <2>3, <3>1, <4>1
    <3>2. CASE ~(i = Len(symTable) /\ m = n)
      <4>1. symTable'[i][m] = symTable[i][m]
        BY <1>0, <2>1, <3>2 DEF CMInv, CMTypeOK
      <4>2. LET v == symTable[i][m] IN
            /\ v.value \in 1 .. Len(storage)
            /\ storage[v.value].owner = func[i]
            /\ storage[v.value].kind = KindOf(v.type)
        BY <4>1 DEF CMInv, BindingsOwned, KindOf
      <4> QED
        BY <1>0, <2>1, <2>3, <4>1, <4>2
    <3> QED
      BY <3>1, <3>2
  <2> QED
    BY <2>5, <2>6, <2>7 DEF CMInv
<1>4. CASE UNCHANGED cmVars
  BY <1>4 DEF CMInv, CMTypeOK, ScopesMatchFunctions, BindingsOwned, cmVars
<1> QED
  BY <1>1, <1>2, <1>3, <1>4 DEF CMNext
-----------------------------------------------------------------------------
(* The symbol table and the function stack keep their shape, stay aligned,   *)
(* and every binding stands for storage of the function its scope is of.     *)
THEOREM ContextInvariant == CMSpec => []CMInv
<1>1. CMInit => CMInv
  BY InvInit
<1>2. CMInv /\ [CMNext]_cmVars => CMInv'
  BY InvNext
<1> QED
  BY <1>1, <1>2, PTL DEF CMSpec

THEOREM TypeCorrect == CMSpec => []CMTypeOK
<1>1. CMInv => CMTypeOK
  BY DEF CMInv
<1> QED
  BY <1>1, ContextInvariant, PTL

THEOREM ScopesAligned == CMSpec => []ScopesMatchFunctions
<1>1. CMInv => ScopesMatchFunctions
  BY DEF CMInv
<1> QED
  BY <1>1, ContextInvariant, PTL

THEOREM BindingsAreOwned == CMSpec => []BindingsOwned
<1>1. CMInv => BindingsOwned
  BY DEF CMInv
<1> QED
  BY <1>1, ContextInvariant, PTL
-----------------------------------------------------------------------------
(* The search.  A non-empty set of scopes has an innermost one.              *)
LEMMA InnermostExists ==
  ASSUME NEW k \in Nat, NEW S \in SUBSET (1 .. k), S # {}
  PROVE  Innermost(S) \in S /\ \A j \in S : j <= Innermost(S)
BY LargestExists DEF Innermost

Table == [Name -> Binding \cup {Unbound}]

(* Whether the search meets the i-th map's binding or goes on to the maps    *)
(* before it.                                                                *)
LEMMA SearchStep ==
  ASSUME NEW T \in Seq(Table), NEW i \in 1 .. Len(T), NEW n \in Name
  PROVE  EnvironmentsOf(T)[i][n] =
           IF T[i][n] # Unbound THEN T[i][n]
           ELSE IF i = 1 THEN Unbound ELSE EnvironmentsOf(T)[i - 1][n]
<1> DEFINE H(k) == {j \in 1 .. k : T[j][n] # Unbound}
<1>1. ASSUME NEW k \in 1 .. Len(T)
      PROVE  /\ EnvironmentsOf(T)[k][n] = IF H(k) = {} THEN Unbound
                                          ELSE T[Innermost(H(k))][n]
             /\ H(k) # {} => /\ Innermost(H(k)) \in H(k)
                             /\ \A j \in H(k) : j <= Innermost(H(k))
  <2> DEFINE t == SubSeq(T, 1, k)
  <2>1. t \in Seq(Table) /\ Len(t) = k /\ \A j \in 1 .. k : t[j] = T[j]
    OBVIOUS
  <2>2. EnvironmentsOf(T)[k][n] = LookupIn(t, n)
    BY DEF EnvironmentsOf
  <2> HIDE DEF t
  <2>3. Holders(t, n) = H(k)
    BY <2>1 DEF Holders
  <2>4. H(k) \in SUBSET (1 .. k) /\ k \in Nat
    OBVIOUS
  <2>5. H(k) # {} => /\ Innermost(H(k)) \in H(k)
                     /\ \A j \in H(k) : j <= Innermost(H(k))
    <3> HIDE DEF H
    <3> QED
      BY <2>4, InnermostExists
  <2>6. H(k) # {} => Innermost(H(k)) \in 1 .. k
    BY <2>5
  <2>7. LookupIn(t, n) = IF H(k) = {} THEN Unbound ELSE T[Innermost(H(k))][n]
    <3> HIDE DEF H
    <3> QED
      BY <2>1, <2>3, <2>6 DEF LookupIn
  <2> QED
    BY <2>2, <2>5, <2>7
<1>2. CASE T[i][n] # Unbound
  <2>1. i \in H(i) /\ \A j \in H(i) : j <= i
    BY <1>2
  <2>2. Innermost(H(i)) = i
    BY <1>1, <2>1
  <2> HIDE DEF H
  <2> QED
    BY <1>1, <1>2, <2>1, <2>2
<1>3. CASE T[i][n] = Unbound /\ i = 1
  <2>1. H(i) = {}
    BY <1>3
  <2> HIDE DEF H
  <2> QED
    BY <1>1, <1>3, <2>1
<1>4. CASE T[i][n] = Unbound /\ i # 1
  <2>1. H(i) = H(i - 1) /\ i - 1 \in 1 .. Len(T)
    BY <1>4
  <2> HIDE DEF H
  <2> QED
    BY <1>1, <1>4, <2>1
<1> QED
  BY <1>2, <1>3, <1>4

(* The i-th environment looks only at the first i maps.                      *)
LEMMA SearchPrefix ==
  ASSUME NEW T \in Seq(Table), NEW U \in Seq(Table),
         NEW i \in 1 .. Len(T), i \in 1 .. Len(U),
         \A j \in 1 .. i : T[j] = U[j]
  PROVE  EnvironmentsOf(T)[i] = EnvironmentsOf(U)[i]
<1>1. SubSeq(T, 1, i) = SubSeq(U, 1, i)
  <2>1. /\ SubSeq(T, 1, i) \in Seq(Table) /\ SubSeq(U, 1, i) \in Seq(Table)
        /\ Len(SubSeq(T, 1, i)) = i /\ Len(SubSeq(U, 1, i)) = i
        /\ \A j \in 1 .. i : /\ SubSeq(T, 1, i)[j] = T[j]
                             /\ SubSeq(U, 1, i)[j] = U[j]
    OBVIOUS
  <2> QED
    BY <2>1, SeqEqual
<1> QED
  BY <1>1 DEF EnvironmentsOf

LEMMA EnvironmentsShape ==
  ASSUME NEW T \in Seq(Table)
  PROVE  /\ EnvironmentsOf(T) \in Seq(Table)
         /\ Len(EnvironmentsOf(T)) = Len(T)
<1>1. ASSUME NEW i \in 1 .. Len(T)
      PROVE  EnvironmentsOf(T)[i] \in Table
  <2> DEFINE t == SubSeq(T, 1, i)
  <2>1. t \in Seq(Table) /\ Len(t) = i
    OBVIOUS
  <2> HIDE DEF t
  <2>2. ASSUME NEW n \in Name PROVE LookupIn(t, n) \in Binding \cup {Unbound}
    <3>1. Holders(t, n) \in SUBSET (1 .. i) /\ i \in Nat
      BY <2>1 DEF Holders
    <3>2. CASE Holders(t, n) # {}
      <4>1. Innermost(Holders(t, n)) \in 1 .. i
        BY <3>1, <3>2, InnermostExists
      <4> QED
        BY <2>1, <3>2, <4>1 DEF LookupIn, Table
    <3> QED
      BY <3>2 DEF LookupIn
  <2>3. EnvironmentsOf(T)[i] = [n \in Name |-> LookupIn(t, n)]
    BY DEF EnvironmentsOf, t
  <2> QED
    BY <2>2, <2>3 DEF Table
<1>2. EnvironmentsOf(T) \in [1 .. Len(T) -> Table]
  <2>1. /\ DOMAIN EnvironmentsOf(T) = 1 .. Len(T)
        /\ EnvironmentsOf(T) = [i \in 1 .. Len(T) |-> EnvironmentsOf(T)[i]]
    BY DEF EnvironmentsOf
  <2> QED
    BY <1>1, <2>1
<1>3. Len(T) \in Nat
  OBVIOUS
<1>4. EnvironmentsOf(T) \in Seq(Table)
  BY <1>2, <1>3, SeqDef
<1>5. DOMAIN EnvironmentsOf(T) = 1 .. Len(EnvironmentsOf(T))
  BY <1>4, LenProperties
<1> QED
  BY <1>2, <1>3, <1>4, <1>5
-----------------------------------------------------------------------------
(* Every step of the symbol table is a step of the scoped environments.      *)
LEMMA EnterRefines ==
  ASSUME CMInv, NEW f \in Function, enterBlock(f)
  PROVE  Scoping!Enter
<1> DEFINE T == symTable
           U == Append(symTable, NoBindings)
<1>1. /\ T \in Seq(Table) /\ U \in Seq(Table) /\ symTable' = U
      /\ Len(T) \in Nat \ {0} /\ Len(U) = Len(T) + 1
      /\ \A i \in 1 .. Len(T) : U[i] = T[i]
      /\ U[Len(T) + 1] = NoBindings
  <2>1. NoBindings \in Table
    BY DEF NoBindings, Table
  <2> QED
    BY <2>1 DEF enterBlock, CMInv, CMTypeOK, ScopesMatchFunctions, Table
<1> HIDE DEF T, U
<1>2. \A i \in 1 .. Len(T) : EnvironmentsOf(U)[i] = EnvironmentsOf(T)[i]
  <2> TAKE i \in 1 .. Len(T)
  <2>1. i \in 1 .. Len(U) /\ \A j \in 1 .. i : U[j] = T[j]
    BY <1>1
  <2> QED
    BY <1>1, <2>1, SearchPrefix
<1>3. EnvironmentsOf(U)[Len(U)] = EnvironmentsOf(T)[Len(T)]
  <2>1. ASSUME NEW n \in Name
        PROVE  EnvironmentsOf(U)[Len(U)][n] = EnvironmentsOf(T)[Len(T)][n]
    <3>1. Len(U) \in 1 .. Len(U) /\ U[Len(U)][n] = Unbound
      BY <1>1 DEF NoBindings
    <3>2. EnvironmentsOf(U)[Len(U)][n] = EnvironmentsOf(U)[Len(U) - 1][n]
      BY <1>1, <3>1, SearchStep
    <3> QED
      BY <1>1, <1>2, <3>2
  <2>2. /\ EnvironmentsOf(U)[Len(U)] \in Table
        /\ EnvironmentsOf(T)[Len(T)] \in Table
    BY <1>1, EnvironmentsShape
  <2> QED
    BY <2>1, <2>2 DEF Table
<1>4. EnvironmentsOf(U) = Append(EnvironmentsOf(T), EnvironmentsOf(T)[Len(T)])
  <2>1. /\ EnvironmentsOf(T) \in Seq(Table) /\ EnvironmentsOf(U) \in Seq(Table)
        /\ Len(EnvironmentsOf(T)) = Len(T) /\ Len(EnvironmentsOf(U)) = Len(U)
    BY <1>1, EnvironmentsShape
  <2> QED
    BY <1>1, <1>2, <1>3, <2>1
<1> QED
  BY <1>1, <1>4, EnvironmentsShape DEF Scoping!Enter, T

(* Closing a scope brings the enclosing environment back.                    *)
LEMMA ExitRefines ==
  ASSUME CMInv, exitBlock
  PROVE  Scoping!Exit
<1> DEFINE T == symTable
           U == SubSeq(symTable, 1, Len(symTable) - 1)
<1>1. /\ T \in Seq(Table) /\ U \in Seq(Table) /\ symTable' = U
      /\ Len(T) \in Nat /\ Len(T) > 1 /\ Len(U) = Len(T) - 1
      /\ \A i \in 1 .. Len(U) : U[i] = T[i]
  BY DEF exitBlock, CMInv, CMTypeOK, Table
<1> HIDE DEF T, U
<1>2. \A i \in 1 .. Len(U) : EnvironmentsOf(U)[i] = EnvironmentsOf(T)[i]
  <2> TAKE i \in 1 .. Len(U)
  <2>1. i \in 1 .. Len(T) /\ \A j \in 1 .. i : U[j] = T[j]
    BY <1>1
  <2> QED
    BY <1>1, <2>1, SearchPrefix
<1>3. /\ EnvironmentsOf(T) \in Seq(Table) /\ EnvironmentsOf(U) \in Seq(Table)
      /\ Len(EnvironmentsOf(T)) = Len(T) /\ Len(EnvironmentsOf(U)) = Len(U)
  BY <1>1, EnvironmentsShape
<1>4. EnvironmentsOf(U) = SubSeq(EnvironmentsOf(T), 1, Len(T) - 1)
  BY <1>1, <1>2, <1>3
<1> QED
  BY <1>1, <1>3, <1>4 DEF Scoping!Exit, T

(* A definition changes one name in the innermost environment.               *)
LEMMA DefineRefines ==
  ASSUME CMInv, NEW n \in Name, Define(n)
  PROVE  \E b \in Binding : Scoping!Bind(n, b) /\ b.value = Len(storage')
<1>1. PICK b \in Binding :
         /\ symTable' = [symTable EXCEPT ![Len(symTable)] = [@ EXCEPT ![n] = b]]
         /\ b.value = Len(storage')
  <2>1. Len(storage) \in Nat /\ storage \in Seq(Storage)
    BY DEF CMInv, CMTypeOK
  <2>2. PICK b \in Binding, s \in Storage :
           /\ b.value = Len(storage) + 1
           /\ symTable' = [symTable EXCEPT ![Len(symTable)] = [@ EXCEPT ![n] = b]]
           /\ storage' = Append(storage, s)
    BY DefineEffect
  <2>3. Len(storage') = Len(storage) + 1
    BY <2>1, <2>2
  <2> QED
    BY <2>2, <2>3
<1> DEFINE T == symTable
           L == Len(symTable)
           U == [symTable EXCEPT ![L] = [@ EXCEPT ![n] = b]]
<1>2. T \in Seq(Table) /\ L \in 1 .. Len(T) /\ T[L] \in Table
  BY DEF CMInv, CMTypeOK, ScopesMatchFunctions, Table
<1>3. [T[L] EXCEPT ![n] = b] \in Table
  BY <1>2 DEF Table
<1>4. /\ U \in Seq(Table) /\ symTable' = U /\ Len(U) = L
      /\ \A i \in 1 .. L : U[i] = IF i = L THEN [T[L] EXCEPT ![n] = b] ELSE T[i]
  BY <1>1, <1>2, <1>3, ExceptSeq
<1>5. Len(T) = L /\ L \in Nat \ {0}
  BY <1>2
<1> HIDE DEF T, U, L
<1>6. \A i \in 1 .. L : i # L => EnvironmentsOf(U)[i] = EnvironmentsOf(T)[i]
  <2> SUFFICES ASSUME NEW i \in 1 .. L, i # L
               PROVE  EnvironmentsOf(U)[i] = EnvironmentsOf(T)[i]
    OBVIOUS
  <2>1. i \in 1 .. Len(T) /\ i \in 1 .. Len(U) /\ \A j \in 1 .. i : U[j] = T[j]
    BY <1>4, <1>5
  <2> QED
    BY <1>2, <1>4, <2>1, SearchPrefix
<1>7. /\ EnvironmentsOf(T) \in Seq(Table) /\ EnvironmentsOf(U) \in Seq(Table)
      /\ Len(EnvironmentsOf(T)) = L /\ Len(EnvironmentsOf(U)) = L
      /\ EnvironmentsOf(T)[L] \in Table /\ EnvironmentsOf(U)[L] \in Table
  BY <1>2, <1>4, <1>5, EnvironmentsShape
<1>8. EnvironmentsOf(U)[L] = [EnvironmentsOf(T)[L] EXCEPT ![n] = b]
  <2>1. ASSUME NEW m \in Name
        PROVE  EnvironmentsOf(U)[L][m] = IF m = n THEN b
                                         ELSE EnvironmentsOf(T)[L][m]
    <3>1. /\ EnvironmentsOf(U)[L][m] = IF U[L][m] # Unbound THEN U[L][m]
               ELSE IF L = 1 THEN Unbound ELSE EnvironmentsOf(U)[L - 1][m]
          /\ EnvironmentsOf(T)[L][m] = IF T[L][m] # Unbound THEN T[L][m]
               ELSE IF L = 1 THEN Unbound ELSE EnvironmentsOf(T)[L - 1][m]
      BY <1>2, <1>4, <1>5, SearchStep
    <3>2. U[L][m] = IF m = n THEN b ELSE T[L][m]
      BY <1>2, <1>4, <1>5 DEF Table
    <3>3. b # Unbound
      BY UnboundAssumption
    <3>4. L # 1 => EnvironmentsOf(U)[L - 1] = EnvironmentsOf(T)[L - 1]
      BY <1>5, <1>6
    <3> QED
      BY <3>1, <3>2, <3>3, <3>4
  <2> QED
    BY <1>7, <2>1 DEF Table
<1>9. EnvironmentsOf(U) = [EnvironmentsOf(T) EXCEPT
                             ![L] = [@ EXCEPT ![n] = b]]
  BY <1>5, <1>6, <1>7, <1>8
<1> QED
  BY <1>1, <1>4, <1>7, <1>9 DEF Scoping!Bind, T

(* The symbol table of the compiler implements lexical scoping, whatever the *)
(* names, the functions and the bounds.                                      *)
THEOREM SymbolTableImplementsScoping == CMSpec => ImplementsScoping
<1>1. CMInit => Scoping!Init
  <2> SUFFICES ASSUME CMInit PROVE Scoping!Init
    OBVIOUS
  <2>1. symTable \in Seq(Table) /\ Len(symTable) = 1
    BY DEF CMInit, NoBindings, Table
  <2>2. \A n \in Name : EnvironmentsOf(symTable)[1][n] = Unbound
    <3> TAKE n \in Name
    <3>1. symTable[1][n] = Unbound
      BY DEF CMInit, NoBindings
    <3>2. 1 \in 1 .. Len(symTable)
      BY <2>1
    <3> QED
      BY <2>1, <3>1, <3>2, SearchStep
  <2>3. /\ EnvironmentsOf(symTable) \in Seq(Table)
        /\ Len(EnvironmentsOf(symTable)) = 1
        /\ EnvironmentsOf(symTable)[1] \in Table
    BY <2>1, EnvironmentsShape
  <2>4. EnvironmentsOf(symTable)[1] = [n \in Name |-> Unbound]
    BY <2>2, <2>3 DEF Table
  <2> QED
    BY <2>3, <2>4 DEF Scoping!Init
<1>2. CMInv /\ [CMNext]_cmVars => [Scoping!Next]_(EnvironmentsOf(symTable))
  <2> SUFFICES ASSUME CMInv, [CMNext]_cmVars
               PROVE  [Scoping!Next]_(EnvironmentsOf(symTable))
    OBVIOUS
  <2>1. ASSUME NEW f \in Function, enterBlock(f) PROVE Scoping!Next
    BY <2>1, EnterRefines DEF Scoping!Next
  <2>2. CASE exitBlock
    BY <2>2, ExitRefines DEF Scoping!Next
  <2>3. ASSUME NEW n \in Name, Define(n) PROVE Scoping!Next
    BY <2>3, DefineRefines DEF Scoping!Next
  <2>4. CASE UNCHANGED cmVars
    BY <2>4 DEF cmVars
  <2> QED
    BY <2>1, <2>2, <2>3, <2>4 DEF CMNext
<1> QED
  BY <1>1, <1>2, ContextInvariant, PTL DEF CMSpec, ImplementsScoping, Scoping!Spec
-----------------------------------------------------------------------------
LEMMA EnvironmentInForce ==
  ASSUME NEW T \in Seq(Table), Len(T) >= 1
  PROVE  EnvironmentsOf(T)[Len(T)] = [n \in Name |-> LookupIn(T, n)]
<1>1. SubSeq(T, 1, Len(T)) = T /\ Len(T) \in 1 .. Len(T)
  OBVIOUS
<1> QED
  BY <1>1 DEF EnvironmentsOf

LEMMA DefineTakesEffect ==
  ASSUME CMInv, NEW n \in Name, Define(n)
  PROVE  /\ get(n)' = Len(storage')
         /\ \A m \in Name \ {n} : lookup(m)' = lookup(m)
<1>1. CMInv'
  BY InvNext DEF CMNext
<1>2. /\ symTable \in Seq(Table) /\ Len(symTable) >= 1
      /\ symTable' \in Seq(Table) /\ Len(symTable') >= 1
  BY <1>1 DEF CMInv, CMTypeOK, ScopesMatchFunctions, Table
<1> DEFINE e == EnvironmentsOf(symTable)
<1>3. PICK b \in Binding : Scoping!Bind(n, b) /\ b.value = Len(storage')
  BY DefineRefines
<1>4. /\ e \in Seq(Table) /\ Len(e) = Len(symTable)
      /\ Len(e') = Len(symTable')
  BY <1>2, EnvironmentsShape
<1>5. e' = [e EXCEPT ![Len(e)] = [@ EXCEPT ![n] = b]]
  BY <1>3 DEF Scoping!Bind
<1>6. Len(e') = Len(e) /\ Len(e) \in 1 .. Len(e) /\ e[Len(e)] \in Table
  BY <1>2, <1>4, <1>5
<1>7. /\ e[Len(e)] = [m \in Name |-> LookupIn(symTable, m)]
      /\ e'[Len(e)] = [m \in Name |-> LookupIn(symTable', m)]
  BY <1>2, <1>4, <1>6, EnvironmentInForce
<1>8. e'[Len(e)] = [e[Len(e)] EXCEPT ![n] = b]
  BY <1>4, <1>5, <1>6
<1>9. LookupIn(symTable', n) = b /\ b # Unbound
  BY <1>7, <1>8, UnboundAssumption
<1>10. \A m \in Name \ {n} : LookupIn(symTable', m) = LookupIn(symTable, m)
  BY <1>7, <1>8
<1> QED
  BY <1>3, <1>9, <1>10 DEF get, lookup

(* Shadowing works in every program: a declaration is what its name means    *)
(* from then on, and hides no other name.                                    *)
THEOREM DefinitionsEffective == CMSpec => DefinitionsTakeEffect
<1>1. CMInv /\ [CMNext]_cmVars =>
        [storage' # storage =>
           \E n \in Name : /\ get(n)' = Len(storage')
                           /\ \A m \in Name \ {n} : lookup(m)' = lookup(m)]_cmVars
  <2> SUFFICES ASSUME CMInv, CMNext, storage' # storage
               PROVE  \E n \in Name :
                        /\ get(n)' = Len(storage')
                        /\ \A m \in Name \ {n} : lookup(m)' = lookup(m)
    OBVIOUS
  <2>1. PICK n \in Name : Define(n)
    BY DEF CMNext, enterBlock, exitBlock
  <2> QED
    BY <2>1, DefineTakesEffect
<1> QED
  BY <1>1, ContextInvariant, PTL DEF CMSpec, DefinitionsTakeEffect
-----------------------------------------------------------------------------
(* No binding is given storage that an older one has, as new storage is not  *)
(* yet anyone's; leaving a scope only forgets.                               *)
LEMMA AliasingNext == CMInv /\ NoAliasing /\ [CMNext]_cmVars => NoAliasing'
<1> SUFFICES ASSUME CMInv, NoAliasing, [CMNext]_cmVars PROVE NoAliasing'
  OBVIOUS
<1>0. /\ symTable \in Seq(Table) /\ Len(symTable) \in Nat \ {0} /\ Len(storage) \in Nat
  BY DEF CMInv, CMTypeOK, ScopesMatchFunctions, Table
<1>1. ASSUME NEW f \in Function, enterBlock(f)
      PROVE  NoAliasing'
  <2>1. /\ symTable' = Append(symTable, NoBindings) /\ NoBindings \in Table
        /\ \A n \in Name : NoBindings[n] = Unbound
    BY <1>1 DEF enterBlock, NoBindings, Table
  <2>2. /\ Len(symTable') = Len(symTable) + 1
        /\ \A i \in 1 .. Len(symTable'), n \in Name :
             symTable'[i][n] # Unbound => /\ i \in 1 .. Len(symTable)
                                          /\ symTable'[i][n] = symTable[i][n]
    BY <1>0, <2>1
  <2> QED
    BY <2>2 DEF NoAliasing
<1>2. CASE exitBlock
  <2>1. \A i \in 1 .. Len(symTable') : /\ i \in 1 .. Len(symTable)
                                       /\ symTable'[i] = symTable[i]
    BY <1>0, <1>2 DEF exitBlock
  <2> QED
    BY <2>1 DEF NoAliasing
<1>3. ASSUME NEW n \in Name, Define(n)
      PROVE  NoAliasing'
  <2>1. PICK b \in Binding :
           /\ b.value = Len(storage) + 1
           /\ symTable' = [symTable EXCEPT ![Len(symTable)] = [@ EXCEPT ![n] = b]]
    BY <1>3, DefineEffect
  <2>2. Len(symTable') = Len(symTable)
    BY <1>0, <2>1, ExceptSeq DEF Table
  <2>3. ASSUME NEW i \in 1 .. Len(symTable), NEW m \in Name
        PROVE  symTable'[i][m] = IF i = Len(symTable) /\ m = n THEN b ELSE symTable[i][m]
    BY <1>0, <2>1 DEF Table
  <2>4. ASSUME NEW i \in 1 .. Len(symTable), NEW m \in Name, symTable[i][m] # Unbound
        PROVE  symTable[i][m].value # b.value
    <3>1. symTable[i][m].value \in 1 .. Len(storage)
      BY <2>4 DEF CMInv, BindingsOwned
    <3> QED
      BY <1>0, <2>1, <3>1
  <2> QED
    BY <2>2, <2>3, <2>4 DEF NoAliasing
<1>4. CASE UNCHANGED cmVars
  BY <1>4 DEF NoAliasing, cmVars
<1> QED
  BY <1>1, <1>2, <1>3, <1>4 DEF CMNext

(* Whatever is declared and shadowed, no two declarations in force share     *)
(* storage.                                                                  *)
THEOREM StorageNotShared == CMSpec => []NoAliasing
<1>1. CMInit => NoAliasing
  BY DEF CMInit, NoAliasing, NoBindings
<1>2. CMInit => CMInv
  BY InvInit
<1>3. CMInv /\ NoAliasing /\ [CMNext]_cmVars => CMInv' /\ NoAliasing'
  BY InvNext, AliasingNext
<1> QED
  BY <1>1, <1>2, <1>3, PTL DEF CMSpec
-----------------------------------------------------------------------------
(* The entry blocks.  Where an operation on s stands in e, that there is one *)
(* alloca of s, and that stores come behind it.                              *)
Places(e, kind, s) == {i \in 1 .. Len(e) : e[i] = [op |-> kind, of |-> s]}
Once(e, s) == \E i \in 1 .. Len(e) : Places(e, "alloca", s) = {i}
Ordered(e, s) == \A i \in Places(e, "init", s) :
                   \E j \in Places(e, "alloca", s) : j < i

(* What is put in front moves the rest and changes no order in it.           *)
LEMMA FrontKeepsOrder ==
  ASSUME NEW e \in Seq(EntryOp), NEW front \in Seq(EntryOp), NEW s,
         \A i \in 1 .. Len(front) : front[i].of # s
  PROVE  /\ Once(front \o e, s) <=> Once(e, s)
         /\ Ordered(e, s) => Ordered(front \o e, s)
<1> DEFINE g == front \o e
           k == Len(front)
<1>1. /\ Len(g) = k + Len(e) /\ k \in Nat /\ Len(e) \in Nat
      /\ \A i \in 1 .. k : g[i] = front[i]
      /\ \A i \in 1 .. Len(e) : g[k + i] = e[i]
  OBVIOUS
<1> HIDE DEF g, k
<1>2. ASSUME NEW i \in Int, NEW kind
      PROVE  i \in Places(g, kind, s) <=> i - k \in Places(e, kind, s)
  <2>1. CASE i \in 1 .. k
    <3>1. g[i].of # s
      BY <1>1, <2>1 DEF k
    <3>2. g[i] # [op |-> kind, of |-> s]
      BY <3>1
    <3> QED
      BY <1>1, <2>1, <3>2 DEF Places
  <2>2. CASE i > k /\ i <= k + Len(e)
    <3>1. i - k \in 1 .. Len(e) /\ i = k + (i - k) /\ i \in 1 .. Len(g)
      BY <1>1, <2>2
    <3>2. g[i] = e[i - k]
      BY <1>1, <3>1
    <3> QED
      BY <3>1, <3>2 DEF Places
  <2>3. CASE i < 1 \/ i > k + Len(e)
    BY <1>1, <2>3 DEF Places
  <2> QED
    BY <1>1, <2>1, <2>2, <2>3
<1>3. ASSUME NEW j \in Int, NEW kind
      PROVE  j \in Places(e, kind, s) <=> k + j \in Places(g, kind, s)
  <2>1. PICK i \in Int : i = k + j
    BY <1>1
  <2>2. i - k = j
    BY <1>1, <2>1
  <2> QED
    BY <1>2, <2>1, <2>2
<1>4. \A kind : /\ Places(g, kind, s) \subseteq Int /\ Places(e, kind, s) \subseteq 1 .. Len(e)
                /\ Places(g, kind, s) \subseteq 1 .. Len(g)
  BY DEF Places
<1>5. Once(e, s) => Once(g, s)
  <2> SUFFICES ASSUME NEW i \in 1 .. Len(e), Places(e, "alloca", s) = {i}
               PROVE  Once(g, s)
    BY DEF Once
  <2>1. k + i \in Int /\ k + i - k = i /\ k + i \in 1 .. Len(g)
    BY <1>1
  <2>2. Places(g, "alloca", s) = {k + i}
    <3>1. k + i \in Places(g, "alloca", s)
      <4>1. i \in Int /\ i \in Places(e, "alloca", s)
        OBVIOUS
      <4> QED
        BY <1>3, <4>1
    <3>2. ASSUME NEW j \in Places(g, "alloca", s) PROVE j = k + i
      <4>1. j \in Int
        BY <1>4
      <4>2. j - k \in {i}
        BY <1>2, <4>1
      <4> QED
        BY <1>1, <4>1, <4>2
    <3> QED
      BY <3>1, <3>2
  <2> QED
    BY <2>1, <2>2 DEF Once
<1>6. Once(g, s) => Once(e, s)
  <2> SUFFICES ASSUME NEW i \in 1 .. Len(g), Places(g, "alloca", s) = {i}
               PROVE  Once(e, s)
    BY DEF Once
  <2>1. i - k \in Places(e, "alloca", s)
    BY <1>2
  <2>2. ASSUME NEW j \in Places(e, "alloca", s) PROVE j = i - k
    <3>1. j \in Int /\ k + j \in Int /\ k + j - k = j
      BY <1>1, <1>4
    <3>2. k + j \in {i}
      BY <1>3, <3>1
    <3> QED
      BY <1>1, <3>1, <3>2
  <2>3. Places(e, "alloca", s) = {i - k} /\ i - k \in 1 .. Len(e)
    BY <1>4, <2>1, <2>2
  <2> QED
    BY <2>3 DEF Once
<1>7. ASSUME Ordered(e, s) PROVE Ordered(g, s)
  <2> SUFFICES ASSUME NEW i \in Places(g, "init", s)
               PROVE  \E j \in Places(g, "alloca", s) : j < i
    BY DEF Ordered
  <2>1. i \in Int /\ i - k \in Places(e, "init", s)
    BY <1>2, <1>4
  <2>2. PICK j \in Places(e, "alloca", s) : j < i - k
    BY <1>7, <2>1 DEF Ordered
  <2>3. j \in Int /\ k + j \in Int /\ k + j - k = j /\ k + j < i
    BY <1>1, <1>4, <2>1, <2>2
  <2> QED
    BY <1>3, <2>2, <2>3
<1> QED
  BY <1>5, <1>6, <1>7 DEF g

(* What a local definition puts in front: the alloca, and the store behind.  *)
Front(s, stored) == <<[op |-> "alloca", of |-> s]>>
                    \o (IF stored THEN <<[op |-> "init", of |-> s]>> ELSE <<>>)

LEMMA FrontInOrder ==
  ASSUME NEW e \in Seq(EntryOp), NEW s \in StorageId, NEW stored \in BOOLEAN,
         \A i \in 1 .. Len(e) : e[i].of # s
  PROVE  /\ Front(s, stored) \in Seq(EntryOp)
         /\ \A i \in 1 .. Len(Front(s, stored)) : Front(s, stored)[i].of = s
         /\ Once(Front(s, stored) \o e, s) /\ Ordered(Front(s, stored) \o e, s)
<1> DEFINE alloca == [op |-> "alloca", of |-> s]
           init == [op |-> "init", of |-> s]
           g == Front(s, stored) \o e
<1>1. alloca \in EntryOp /\ init \in EntryOp /\ alloca # init
  BY DEF EntryOp
<1>2. alloca.of = s /\ init.of = s
  OBVIOUS
<1> HIDE DEF alloca, init
<1>3. Front(s, stored) = IF stored THEN <<alloca, init>> ELSE <<alloca>>
  <2>1. CASE stored
    <3>1. Front(s, stored) = <<alloca>> \o <<init>>
      BY <2>1 DEF Front, alloca, init
    <3>2. <<alloca>> \o <<init>> = <<alloca, init>>
      <4>1. <<alloca>> \in Seq(EntryOp) /\ <<init>> \in Seq(EntryOp)
        BY <1>1
      <4>2. /\ <<alloca>> \o <<init>> \in Seq(EntryOp)
            /\ Len(<<alloca>> \o <<init>>) = 2
            /\ (<<alloca>> \o <<init>>)[1] = alloca
            /\ (<<alloca>> \o <<init>>)[2] = init
        BY <4>1
      <4> DEFINE c == <<alloca>> \o <<init>>
                 d == <<alloca, init>>
      <4>3. d \in Seq(EntryOp) /\ Len(d) = 2 /\ d[1] = alloca /\ d[2] = init
        BY <1>1
      <4>4. \A i \in 1 .. 2 : i = 1 \/ i = 2
        OBVIOUS
      <4>5. c \in Seq(EntryOp) /\ Len(c) = 2 /\ \A i \in 1 .. 2 : c[i] = d[i]
        BY <4>2, <4>3, <4>4
      <4> HIDE DEF c, d
      <4>6. c = d
        BY <4>3, <4>5, SeqEqual
      <4> QED
        BY <4>6 DEF c, d
    <3> QED
      BY <2>1, <3>1, <3>2
  <2>2. CASE ~stored
    <3>1. Front(s, stored) = <<alloca>> \o <<>>
      BY <2>2 DEF Front, alloca
    <3> QED
      BY <2>2, <3>1
  <2> QED
    BY <2>1, <2>2
<1>4. /\ Front(s, stored) \in Seq(EntryOp)
      /\ \A i \in 1 .. Len(Front(s, stored)) : Front(s, stored)[i].of = s
  BY <1>1, <1>2, <1>3
<1>5. /\ g[1] = alloca /\ Len(g) \in Nat /\ Len(g) >= 1
      /\ \A i \in 2 .. Len(g) : g[i] # alloca
  <2>1. /\ Len(g) = Len(Front(s, stored)) + Len(e)
        /\ \A i \in 1 .. Len(g) :
             g[i] = IF i <= Len(Front(s, stored)) THEN Front(s, stored)[i]
                    ELSE e[i - Len(Front(s, stored))]
    BY <1>4
  <2>2. CASE stored
    <3>1. Len(Front(s, stored)) = 2 /\ Front(s, stored)[1] = alloca /\ Front(s, stored)[2] = init
      BY <1>1, <1>3, <2>2
    <3> HIDE DEF g
    <3>2. g[1] = alloca /\ Len(g) \in Nat /\ Len(g) >= 1
      BY <2>1, <3>1
    <3>3. ASSUME NEW i \in 2 .. Len(g) PROVE g[i] # alloca
      <4>1. CASE i = 2
        BY <1>1, <2>1, <3>1, <4>1
      <4>2. CASE i # 2
        <5>1. i - 2 \in 1 .. Len(e) /\ g[i] = e[i - 2]
          BY <2>1, <3>1, <4>2
        <5> QED
          BY <1>2, <5>1
      <4> QED
        BY <4>1, <4>2
    <3> QED
      BY <3>2, <3>3
  <2>3. CASE ~stored
    <3>1. Len(Front(s, stored)) = 1 /\ Front(s, stored)[1] = alloca
      BY <1>1, <1>3, <2>3
    <3> HIDE DEF g
    <3>2. g[1] = alloca /\ Len(g) \in Nat /\ Len(g) >= 1
      BY <2>1, <3>1
    <3>3. ASSUME NEW i \in 2 .. Len(g) PROVE g[i] # alloca
      <4>1. i - 1 \in 1 .. Len(e) /\ g[i] = e[i - 1]
        BY <2>1, <3>1
      <4> QED
        BY <1>2, <4>1
    <3> QED
      BY <3>2, <3>3
  <2> QED
    BY <2>2, <2>3
<1> HIDE DEF g
<1>6. Places(g, "alloca", s) = {1}
  BY <1>5 DEF Places, alloca
<1>7. Once(g, s) /\ Ordered(g, s)
  <2>1. 1 \notin Places(g, "init", s) /\ Places(g, "init", s) \subseteq 1 .. Len(g)
    BY <1>1, <1>5 DEF Places, init
  <2>2. \A i \in Places(g, "init", s) : 1 < i
    BY <1>5, <2>1
  <2> QED
    BY <1>5, <1>6, <2>2 DEF Once, Ordered
<1> QED
  BY <1>4, <1>7 DEF g

(* Why AllocaFirst holds: what stands in an entry block is of storage that   *)
(* exists, so nothing of a new declaration stands there before.              *)
EntryInv == /\ \A f \in Function : \A i \in 1 .. Len(entry[f]) :
                 entry[f][i].of \in 1 .. Len(storage)
            /\ \A s \in 1 .. Len(storage), f \in Function :
                 /\ storage[s].owner = f <=> Once(entry[f], s)
                 /\ Ordered(entry[f], s)

LEMMA EntryInit == CMInit => EntryInv
BY DEF CMInit, EntryInv

LEMMA EntryNext == CMInv /\ EntryInv /\ [CMNext]_cmVars => EntryInv'
<1> SUFFICES ASSUME CMInv, EntryInv, [CMNext]_cmVars PROVE EntryInv'
  OBVIOUS
<1>0. /\ storage \in Seq(Storage) /\ Len(storage) \in Nat
      /\ \A f \in Function : entry[f] \in Seq(EntryOp)
      /\ entry \in [Function -> Seq(EntryOp)]
  BY DEF CMInv, CMTypeOK
<1>1. ASSUME UNCHANGED <<storage, entry>>
      PROVE  EntryInv'
  BY <1>1 DEF EntryInv
<1>2. ASSUME NEW n \in Name, Define(n)
      PROVE  EntryInv'
  <2> DEFINE new == Len(storage) + 1
             top == func[Len(func)]
  <2>1. PICK s \in Storage :
           /\ s.owner = top /\ Len(storage) < MaxStorage
           /\ storage' = Append(storage, s)
           /\ \/ top = NullFunction /\ entry' = entry
              \/ \E stored \in BOOLEAN :
                   /\ top \in Function
                   /\ entry' = [entry EXCEPT ![top] = Front(new, stored) \o @]
    BY <1>2, DefineEffect DEF Front
  <2>2. /\ Len(storage') = new /\ storage'[new].owner = top
        /\ \A i \in 1 .. Len(storage) : storage'[i] = storage[i]
        /\ new \in StorageId /\ new \in Nat /\ new \notin 1 .. Len(storage)
    BY <1>0, <2>1, ContextAssumption DEF StorageId
  <2> HIDE DEF new, top
  <2>3. ASSUME NEW f \in Function
        PROVE  \A i \in 1 .. Len(entry[f]) : entry[f][i].of \in 1 .. Len(storage)
    BY DEF EntryInv
  <2>4. ASSUME NEW f \in Function
        PROVE  ~Once(entry[f], new) /\ Ordered(entry[f], new)
    <3>1. ASSUME NEW kind PROVE Places(entry[f], kind, new) = {}
      <4>1. ASSUME NEW i \in 1 .. Len(entry[f])
            PROVE  entry[f][i] # [op |-> kind, of |-> new]
        BY <2>2, <2>3
      <4> QED
        BY <4>1 DEF Places
    <3> QED
      BY <3>1 DEF Once, Ordered
  <2>5. ASSUME NEW f \in Function, f # top \/ top = NullFunction
        PROVE  /\ entry'[f] = entry[f]
               /\ storage'[new].owner # f
    BY <1>0, <2>1, <2>2, <2>5, ContextAssumption
  <2>6. ASSUME NEW f \in Function, f = top
        PROVE  \E stored \in BOOLEAN : entry'[f] = Front(new, stored) \o entry[f]
    BY <1>0, <2>1, <2>6, ContextAssumption
  <2>7. ASSUME NEW f \in Function
        PROVE  /\ \A i \in 1 .. Len(entry'[f]) : entry'[f][i].of \in 1 .. new
               /\ \A t \in 1 .. new : /\ storage'[t].owner = f <=> Once(entry'[f], t)
                                      /\ Ordered(entry'[f], t)
    <3>1. ASSUME NEW t \in 1 .. Len(storage)
          PROVE  /\ storage'[t].owner = f <=> Once(entry[f], t)
                 /\ Ordered(entry[f], t)
      BY <2>2 DEF EntryInv
    <3>2. \A t \in 1 .. new : t # new => t \in 1 .. Len(storage)
      BY <1>0 DEF new
    <3>3. 1 .. Len(storage) \subseteq 1 .. new /\ new \in 1 .. new
      BY <1>0 DEF new
    <3>4. CASE f # top
      BY <2>2, <2>3, <2>4, <2>5, <3>1, <3>2, <3>3, <3>4
    <3>5. CASE f = top
      <4>1. PICK stored \in BOOLEAN : entry'[f] = Front(new, stored) \o entry[f]
        BY <2>6, <3>5
      <4> DEFINE front == Front(new, stored)
                 e == entry[f]
      <4>2. /\ front \in Seq(EntryOp) /\ e \in Seq(EntryOp)
            /\ \A i \in 1 .. Len(front) : front[i].of = new
            /\ Once(front \o e, new) /\ Ordered(front \o e, new)
        <5>1. \A i \in 1 .. Len(e) : e[i].of # new
          BY <2>2, <2>3
        <5> QED
          BY <1>0, <2>2, <5>1, FrontInOrder
      <4>3. \A i \in 1 .. Len(e) : e[i].of \in 1 .. Len(storage)
        BY <2>3
      <4> HIDE DEF front, e
      <4>4. entry'[f] = front \o e
        BY <4>1 DEF front, e
      <4>5. ASSUME NEW i \in 1 .. Len(front \o e) PROVE (front \o e)[i].of \in 1 .. new
        <5>1. CASE i \in 1 .. Len(front)
          BY <3>3, <4>2, <5>1
        <5>2. CASE i \notin 1 .. Len(front)
          <6>1. i - Len(front) \in 1 .. Len(e) /\ (front \o e)[i] = e[i - Len(front)]
            BY <4>2, <5>2
          <6> QED
            BY <3>3, <4>3, <6>1
        <5> QED
          BY <5>1, <5>2
      <4>6. ASSUME NEW t \in 1 .. Len(storage)
            PROVE  /\ storage'[t].owner = f <=> Once(front \o e, t)
                   /\ Ordered(front \o e, t)
        <5>1. \A i \in 1 .. Len(front) : front[i].of # t
          BY <2>2, <4>2
        <5>2. (Once(front \o e, t) <=> Once(e, t)) /\ (Ordered(e, t) => Ordered(front \o e, t))
          BY <4>2, <5>1, FrontKeepsOrder
        <5> QED
          BY <3>1, <5>2 DEF e
      <4>7. storage'[new].owner = f
        BY <2>2, <3>5
      <4> QED
        BY <3>2, <4>2, <4>4, <4>5, <4>6, <4>7
    <3> QED
      BY <3>4, <3>5
  <2> QED
    BY <2>2, <2>7 DEF EntryInv
<1> QED
  BY <1>1, <1>2 DEF CMNext, enterBlock, exitBlock, cmVars

(* In every program each local has its alloca in its own function and no     *)
(* value is stored before it, though definitions are built back to front.    *)
THEOREM AllocasComeFirst == CMSpec => []AllocaFirst
<1>1. CMInit => CMInv /\ EntryInv
  BY InvInit, EntryInit
<1>2. CMInv /\ EntryInv /\ [CMNext]_cmVars => CMInv' /\ EntryInv'
  BY InvNext, EntryNext
<1>3. EntryInv => AllocaFirst
  <2> SUFFICES ASSUME EntryInv, NEW s \in 1 .. Len(storage), NEW f \in Function
               PROVE  /\ (storage[s].owner = f) = (\E i \in 1 .. Len(entry[f]) :
                                                     Places(entry[f], "alloca", s) = {i})
                      /\ \A i \in Places(entry[f], "init", s) :
                           \E j \in Places(entry[f], "alloca", s) : j < i
    BY DEF AllocaFirst, Places
  <2>1. (storage[s].owner = f <=> Once(entry[f], s)) /\ Ordered(entry[f], s)
    BY DEF EntryInv
  <2> QED
    BY <2>1 DEF Once, Ordered
<1> QED
  BY <1>1, <1>2, <1>3, PTL DEF CMSpec
-----------------------------------------------------------------------------
(* The visitor.                                                            *)

(* A statement without parts touches no table.                               *)
LEMMA SimpleKeeps ==
  ASSUME SimpleStatement
  PROVE  Die("rejected") \/ UNCHANGED <<cmVars, constants, symbols, fnName, status>>
<1> DEFINE Kept == Die("rejected") \/ UNCHANGED <<cmVars, constants, symbols, fnName, status>>
<1>1. \A ins : Statement(ins) => Kept
  BY DEF Statement
<1>2. visitEmpty => Kept
  BY DEF visitEmpty
<1> HIDE DEF Kept
<1>3. \A e \in Exprs : visitRetStmt(e) => Kept
  <2>1. Die("rejected") => Kept
    BY DEF Kept
  <2> QED
    BY <1>1, <2>1 DEF visitRetStmt
<1>4. \A e \in Exprs, n \in Name : visitFuncCall(n, e) => Kept
  <2>1. Die("rejected") => Kept
    BY DEF Kept
  <2> QED
    BY <1>1, <2>1 DEF visitFuncCall
<1>5. \A target, e, index : visitAsgnStmt(target, e, index) => Kept
  <2>1. Die("rejected") => Kept
    BY DEF Kept
  <2> QED
    BY <1>1, <2>1 DEF visitAsgnStmt
<1>6. Kept
  BY <1>2, <1>3, <1>4, <1>5 DEF SimpleStatement
<1> QED
  BY <1>6 DEF Kept

(* The generator uses the symbol table as its interface allows: every visit  *)
(* enters or leaves one scope, makes one definition, or leaves it alone.     *)
LEMMA TableSteps == CGNext => [CMNext]_cmVars
<1> SUFFICES ASSUME CGNext PROVE [CMNext]_cmVars
  OBVIOUS
<1>1. ASSUME NEW how, Die(how) PROVE UNCHANGED cmVars
  BY <1>1 DEF Die
<1>2. CASE Declaration
  <2>1. ASSUME NEW n \in Name, Define(n) PROVE CMNext
    BY <2>1 DEF CMNext
  <2> QED
    BY <1>1, <1>2, <2>1
       DEF Declaration, visitScalar, visitConstDef, visitScalarInit, visitArray,
           visitArrayInit, Define
<1>3. CASE FunctionNode
  BY <1>3 DEF FunctionNode, visitExtFunc, beginFuncDef, visitParam, beginBody,
              endFuncDef, CMNext, Define
<1>4. CASE SimpleStatement
  BY <1>1, <1>4, SimpleKeeps
<1>5. CASE Structure
  BY <1>1, <1>5 DEF Structure, beginBlock, endBlock, endWhile, endIf, endThen,
                    beginWhile, beginIf, Continue
<1>6. CASE finish \/ Terminated
  BY <1>6 DEF finish, Terminated, vars
<1> QED
  BY <1>2, <1>3, <1>4, <1>5, <1>6 DEF CGNext

(* So whatever holds of every symbol table holds of the generator's: no two  *)
(* declarations of a program share storage, every local has its alloca in    *)
(* its own function, names are scoped.                                       *)
THEOREM GeneratorUsesTable == CGSpec => CMSpec
<1>1. CGInit => CMInit
  BY DEF CGInit
<1>2. [CGNext]_vars => [CMNext]_cmVars
  BY TableSteps DEF vars
<1> QED
  BY <1>1, <1>2, PTL DEF CGSpec, CMSpec
-----------------------------------------------------------------------------
(* The blocks an open visit has created and will go on in.                   *)
Own(fr) == IF fr.kind \in {"while", "then"} THEN {fr.first, fr.next}
           ELSE IF fr.kind = "else" THEN {fr.next} ELSE {}

(* The unit's visit is at the bottom, a function's on it, statements above;  *)
(* a scope besides the module's is open while a function is visited.         *)
StackShape ==
  /\ Len(stack) >= 1
  /\ \A k \in 1 .. Len(stack) : /\ stack[k].kind = "unit" <=> k = 1
                                /\ stack[k].kind \in {"params", "func"} <=> k = 2
  /\ Len(symTable) = IF Len(stack) > 1 THEN 2 ELSE 1

(* They are in the function that is visited, each belongs to one visit, and  *)
(* only an if's are not attached.                                            *)
FramesInv ==
  \A k \in 1 .. Len(stack) :
    /\ \A b \in Own(stack[k]) :
         /\ b \in BlockId /\ blocks[b].fn = CurrentFunction
         /\ blocks[b].attached <=> stack[k].kind = "while"
    /\ stack[k].kind \in {"while", "then"} => stack[k].first # stack[k].next
    /\ \A l \in 1 .. Len(stack) : l # k => Own(stack[k]) \cap Own(stack[l]) = {}

(* The module's names: who has one was created under it, or renamed to it.   *)
Alias(f, n) == fnName[f] \in Name /\ n \in {fnName[f]} \cup Suffixed[fnName[f]]
NamesInv == \A n \in Name, f \in Function : symbols[n] = f => Alias(f, n)

(* The invariant the steps are analysed under.                               *)
CGInv == /\ CMInv /\ CGTypeOK /\ StackShape
         /\ InsertionPoint /\ FramesInv /\ NamesInv

(* What the function that is visited may name.                               *)
Near(s, created) == /\ s \in 1 .. Len(created)
                    /\ created[s].owner \in {NullFunction, CurrentFunction}
InReach(s) == Near(s, storage)
Callable(use) == /\ use.of \in Function /\ use.name \in Name
                 /\ symbols[use.name] = use.of /\ Alias(use.of, use.name)
FitUses(uses) == /\ uses \in Seq(Operand)
                 /\ \A k \in 1 .. Len(uses) : IF uses[k].op = "call" THEN Callable(uses[k])
                                              ELSE InReach(uses[k].of)
Fit(ins) == /\ ins \in Instr /\ FitUses(ins.uses)
            /\ ins.to # 0 => Near(ins.to, storage')
            /\ ins.op \notin Jumps => ins.targets = {}

LEMMA LookupInReach ==
  ASSUME CMInv, Len(symTable) = 2, NEW n \in Name, lookup(n) # Unbound
  PROVE  /\ get(n) \in StorageId /\ InReach(get(n))
         /\ getType(n) \in ElemType
<1>1. PICK i \in 1 .. Len(symTable) : lookup(n) = symTable[i][n]
  <2>1. Holders(symTable, n) # {} /\ lookup(n) = symTable[Innermost(Holders(symTable, n))][n]
    BY DEF lookup, LookupIn
  <2>2. Holders(symTable, n) \in SUBSET (1 .. Len(symTable)) /\ Len(symTable) \in Nat
    BY DEF Holders, CMInv, CMTypeOK
  <2>3. Innermost(Holders(symTable, n)) \in Holders(symTable, n)
    BY <2>1, <2>2, InnermostExists
  <2> QED
    BY <2>1, <2>2, <2>3
<1>2. lookup(n) \in Binding
  <2>1. symTable \in Seq(Table)
    BY DEF CMInv, CMTypeOK, Table
  <2>2. symTable[i] \in Table
    BY <1>1, <2>1
  <2> QED
    BY <1>1, <2>2 DEF Table
<1>3. /\ lookup(n).value \in 1 .. Len(storage)
      /\ storage[lookup(n).value].owner = func[i]
  BY <1>1 DEF CMInv, BindingsOwned
<1>4. func[i] \in {NullFunction, CurrentFunction}
  BY <1>1 DEF CMInv, ScopesMatchFunctions, CurrentFunction
<1>5. get(n) = lookup(n).value /\ getType(n) = lookup(n).type
  BY DEF get, getType
<1> QED
  BY <1>2, <1>3, <1>4, <1>5 DEF Binding, InReach, Near

(* Everything an expression mentions is within reach, if its visit succeeds. *)
LEMMA UsesFit ==
  ASSUME CGInv, InFunction, NEW e \in Seq(Leaf), Sound(e)
  PROVE  FitUses(Uses(e))
<1>1. Len(symTable) = 2
  BY DEF CGInv, StackShape, InFunction
<1>2. ASSUME NEW i \in 1 .. Len(e)
      PROVE  /\ Use(e[i]) \in Operand
             /\ IF Use(e[i]).op = "call" THEN Callable(Use(e[i])) ELSE InReach(Use(e[i]).of)
  <2> DEFINE l == e[i]
  <2>1. l \in Leaf /\ l.name \in Name /\ Use(l) # Bad
    <3>1. i \in DOMAIN e
      OBVIOUS
    <3>2. Use(l) # Bad
      BY <3>1 DEF Sound
    <3>3. l \in Leaf
      OBVIOUS
    <3> QED
      BY <3>2, <3>3 DEF Leaf
  <2> HIDE DEF l
  <2>2. CASE l.kind = "call"
    <3>1. /\ symbols[l.name] \in Function
          /\ Use(l) = [op |-> "call", of |-> symbols[l.name], name |-> l.name]
      BY <2>1, <2>2 DEF Use
    <3>2. Callable(Use(l))
      <4>1. Alias(symbols[l.name], l.name)
        BY <2>1, <3>1 DEF CGInv, NamesInv
      <4> QED
        BY <2>1, <3>1, <4>1 DEF Callable
    <3> QED
      BY <2>1, <3>1, <3>2 DEF Operand, l
  <2>3. CASE l.kind # "call"
    <3>1. lookup(l.name) # Unbound
      BY <2>1, <2>3 DEF Use
    <3>2. PICK op \in {"load", "address", "element"} :
            Use(l) = [op |-> op, of |-> get(l.name)]
      BY <2>1, <2>3, <3>1 DEF Use
    <3>3. get(l.name) \in StorageId /\ InReach(get(l.name))
      BY <1>1, <2>1, <3>1, LookupInReach DEF CGInv
    <3> QED
      BY <3>2, <3>3 DEF Operand, l
  <2> QED
    BY <2>2, <2>3
<1>3. Uses(e) = [i \in 1 .. Len(e) |-> Use(e[i])]
  BY DEF Uses
<1>4. Uses(e) \in Seq(Operand) /\ Len(Uses(e)) = Len(e)
  BY <1>2, <1>3
<1> QED
  BY <1>2, <1>3, <1>4 DEF FitUses
-----------------------------------------------------------------------------
(* What a step does to the blocks, the insertion point and the open visits,  *)
(* whichever node it visits.                                                 *)
BlockType == [fn : Function, label : Label, attached : BOOLEAN, code : Seq(Instr)]
FrameType == [kind : {"unit", "params", "func", "block", "while", "then", "else"},
              todo : BOOLEAN, first : 0 .. MaxBlocks, next : 0 .. MaxBlocks,
              cond : Seq(Leaf)]

SameScopes == UNCHANGED func /\ Len(symTable') = Len(symTable)
Write(ins) == InFunction /\ Fit(ins) /\ ins.op \notin Jumps
Jump(ins, targets) == InFunction /\ Fit(ins) /\ ins.op \in Jumps /\ ins.targets = targets

Elsewhere == SameScopes /\ UNCHANGED <<blocks, insert, stack>>
Writes == /\ SameScopes /\ UNCHANGED insert /\ stack' \in {stack, Consumed}
          /\ \E ins \in Instr : Write(ins) /\ blocks' = AppendCode(blocks, ins)
Moves == /\ SameScopes /\ UNCHANGED <<blocks, insert>>
         /\ \/ InFunction /\ stack' = Consumed
            \/ InFunction /\ stack' = Append(Consumed, Frame("block", TRUE, 0, 0, <<>>))
            \/ Top.kind = "block" /\ stack' = Pop
            \/ Top.kind = "params" /\ stack' = Append(Pop, Frame("func", TRUE, 0, 0, <<>>))
Enters == \E f \in Function :
            /\ Top.kind = "unit" /\ Len(blocks) < MaxBlocks
            /\ fnName[f] = Unbound /\ fnName'[f] # Unbound
            /\ blocks' = Append(blocks, NewBlock(f, "entry", TRUE))
            /\ insert' = Len(blocks) + 1
            /\ stack' = Append(stack, Frame("params", FALSE, 0, 0, <<>>))
            /\ func' = Append(func, f) /\ Len(symTable') = Len(symTable) + 1
Leaves == /\ Top.kind = "func" /\ stack' = Pop /\ UNCHANGED <<blocks, insert>>
          /\ func' = SubSeq(func, 1, Len(func) - 1) /\ Len(symTable') = Len(symTable) - 1
OpensLoop ==
  \E ins \in Instr, cond \in Seq(Leaf) :
    /\ SameScopes /\ Len(blocks) + 2 <= MaxBlocks
    /\ Jump(ins, {Len(blocks) + 1, Len(blocks) + 2})
    /\ blocks' = AppendCode(blocks, ins) \o <<NewBlock(Here, "loop", TRUE),
                                              NewBlock(Here, "afterloop", TRUE)>>
    /\ insert' = Len(blocks) + 1
    /\ stack' = Append(Consumed, Frame("while", TRUE, Len(blocks) + 1, Len(blocks) + 2, cond))
ClosesLoop ==
  \E ins \in Instr :
    /\ SameScopes /\ Top.kind = "while" /\ Jump(ins, {Top.first, Top.next})
    /\ blocks' = AppendCode(blocks, ins) /\ insert' = Top.next /\ stack' = Pop
OpensIf ==
  \E ins \in Instr :
    /\ SameScopes /\ Len(blocks) + 3 <= MaxBlocks
    /\ Jump(ins, {Len(blocks) + 1, Len(blocks) + 2})
    /\ blocks' = AppendCode(blocks, ins) \o <<NewBlock(Here, "then", TRUE),
                                              NewBlock(Here, "else", FALSE),
                                              NewBlock(Here, "merge", FALSE)>>
    /\ insert' = Len(blocks) + 1
    /\ stack' = Append(Consumed, Frame("then", TRUE, Len(blocks) + 2, Len(blocks) + 3, <<>>))
Continues(block) ==
  /\ SameScopes /\ insert' = block
  /\ \E ins \in Instr : /\ Jump(ins, {Top.next})
                        /\ blocks' = [AppendCode(blocks, ins) EXCEPT ![block].attached = TRUE]
EndsThen == /\ Top.kind = "then" /\ Continues(Top.first)
            /\ \E hasElse \in BOOLEAN :
                 stack' = Append(Pop, Frame("else", hasElse, 0, Top.next, <<>>))
EndsElse == Top.kind = "else" /\ Continues(Top.next) /\ stack' = Pop

Effect == \/ Elsewhere \/ Writes \/ Moves \/ Enters \/ Leaves
          \/ OpensLoop \/ ClosesLoop \/ OpensIf \/ EndsThen \/ EndsElse

LEMMA Basics ==
  ASSUME CGInv
  PROVE  /\ blocks \in Seq(BlockType) /\ stack \in Seq(FrameType)
         /\ Len(blocks) \in Nat /\ Len(stack) \in Nat /\ Len(stack) >= 1
         /\ Top \in FrameType /\ Len(symTable) \in Nat /\ Len(func) = Len(symTable)
         /\ Top.kind = "unit" <=> ~InFunction
         /\ InFunction => /\ insert \in 1 .. Len(blocks) /\ Len(func) = 2
                          /\ CurrentFunction \in Function
                          /\ blocks[insert].fn = CurrentFunction
                          /\ blocks[insert].attached
<1>1. blocks \in Seq(BlockType) /\ stack \in Seq(FrameType) /\ insert \in 0 .. Len(blocks)
  BY DEF CGInv, CGTypeOK, BlockType, FrameType
<1>2. /\ Len(stack) >= 1 /\ Len(symTable) = IF Len(stack) > 1 THEN 2 ELSE 1
      /\ stack[Len(stack)].kind = "unit" <=> Len(stack) = 1
  <2>1. Len(stack) >= 1
    BY DEF CGInv, StackShape
  <2>2. Len(stack) \in 1 .. Len(stack)
    BY <1>1, <2>1
  <2> QED
    BY <2>1, <2>2 DEF CGInv, StackShape
<1>3. Len(blocks) \in Nat /\ Len(stack) \in Nat /\ Top \in FrameType
  BY <1>1, <1>2 DEF Top
<1>4. Top.kind = "unit" <=> ~InFunction
  <2>1. ~InFunction <=> Len(stack) = 1
    BY <1>2, <1>3, SMTT(20) DEF InFunction
  <2> QED
    BY <1>2, <2>1 DEF Top
<1>5. Len(func) = Len(symTable)
  BY DEF CGInv, CMInv, ScopesMatchFunctions
<1>6. ASSUME InFunction
      PROVE  CurrentFunction \in Function /\ Len(func) = 2
  <2>1. Len(func) = 2 /\ func \in Seq(Owner)
    BY <1>2, <1>5, <1>6 DEF InFunction, CGInv, CMInv, CMTypeOK
  <2>2. func[2] \in Owner /\ func[2] # NullFunction
    <3>1. 2 \in 1 .. Len(func)
      BY <2>1
    <3>2. \A i \in 1 .. Len(func) : i # 1 => func[i] # NullFunction
      BY DEF CGInv, CMInv, ScopesMatchFunctions
    <3>3. func[2] \in Owner
      BY <2>1, <3>1
    <3> QED
      BY <3>1, <3>2, <3>3
  <2> QED
    BY <2>1, <2>2 DEF CurrentFunction, Owner
<1>7. InFunction => /\ insert \in 1 .. Len(blocks) /\ blocks[insert].attached
                    /\ blocks[insert].fn = CurrentFunction
  BY <1>1, <1>3 DEF CGInv, InsertionPoint
<1> QED
  BY <1>1, <1>2, <1>3, <1>4, <1>5, <1>6, <1>7

LEMMA MakeIns ==
  ASSUME NEW op \in {"store", "call"} \cup Terminators, NEW uses, FitUses(uses),
         NEW to \in Nat, to # 0 => Near(to, storage'),
         NEW targets \in SUBSET (1 .. MaxBlocks), op \notin Jumps => targets = {}
  PROVE  LET ins == Ins(op, uses, to, targets) IN
         ins \in Instr /\ Fit(ins) /\ ins.op = op /\ ins.targets = targets
<1> DEFINE ins == Ins(op, uses, to, targets)
<1>1. /\ ins.op = op /\ ins.uses = uses /\ ins.to = to /\ ins.targets = targets
      /\ ins = [op |-> op, uses |-> uses, to |-> to, targets |-> targets]
  BY DEF Ins
<1>2. ins \in Instr
  BY <1>1 DEF Instr, FitUses
<1> HIDE DEF ins
<1>3. Fit(ins)
  BY <1>1, <1>2 DEF Fit
<1> QED
  BY <1>1, <1>2, <1>3 DEF ins

LEMMA MakeJump ==
  ASSUME InFunction, NEW op \in Jumps, NEW uses, FitUses(uses),
         NEW targets \in SUBSET (1 .. MaxBlocks)
  PROVE  LET ins == Ins(op, uses, 0, targets) IN
         ins \in Instr /\ Jump(ins, targets)
<1> DEFINE ins == Ins(op, uses, 0, targets)
<1>1. op \in {"store", "call"} \cup Terminators
  BY DEF Jumps, Terminators
<1>2. /\ ins.op = op /\ ins.uses = uses /\ ins.to = 0 /\ ins.targets = targets
      /\ ins = [op |-> op, uses |-> uses, to |-> 0, targets |-> targets]
  BY DEF Ins
<1>3. ins \in Instr
  BY <1>1, <1>2 DEF Instr, FitUses
<1> HIDE DEF ins
<1>4. Jump(ins, targets)
  BY <1>2, <1>3 DEF Jump, Fit
<1> QED
  BY <1>3, <1>4 DEF ins

LEMMA NoUses == FitUses(<<>>)
BY DEF FitUses

(* Declarations, the unit's end and every way to die touch no block.         *)
LEMMA DeclarationEffect ==
  ASSUME CGInv, \/ Declaration \/ finish \/ Terminated
                \/ \E how \in {"uncaught", "rejected"} : Die(how)
                \/ \E f \in Function, n \in Name : visitExtFunc(f, n)
  PROVE  Elsewhere
<1>1. ASSUME UNCHANGED cmVars PROVE SameScopes
  BY <1>1 DEF cmVars, SameScopes
<1>2. ASSUME NEW n \in Name, Define(n)
      PROVE  SameScopes
  <2>1. symTable \in Seq(Table)
    BY DEF CGInv, CMInv, CMTypeOK, Table
  <2>2. PICK b \in Binding :
          /\ symTable' = [symTable EXCEPT ![Len(symTable)] = [@ EXCEPT ![n] = b]]
          /\ func' = func
    BY <1>2, DefineEffect DEF CGInv
  <2>3. Len(symTable') = Len(symTable)
    BY <2>1, <2>2
  <2> QED
    BY <2>2, <2>3 DEF SameScopes
<1>3. CASE Declaration
  <2>1. UNCHANGED <<blocks, insert, stack>>
    BY <1>3 DEF Declaration, visitScalar, visitConstDef, visitScalarInit, visitArray,
                visitArrayInit, Declared, Die
  <2>2. UNCHANGED cmVars \/ \E n \in Name : Define(n)
    BY <1>3 DEF Declaration, visitScalar, visitConstDef, visitScalarInit, visitArray,
                visitArrayInit, Die, Define
  <2> QED
    BY <1>1, <1>2, <2>1, <2>2 DEF Elsewhere
<1> QED
  BY <1>1, <1>3 DEF Elsewhere, finish, Terminated, vars, cgVars, Die, visitExtFunc

LEMMA FunctionEffect ==
  ASSUME CGInv, FunctionNode
  PROVE  Effect
<1>0. /\ symTable \in Seq(Table) /\ func \in Seq(Owner) /\ Len(symTable) \in Nat
  BY DEF CGInv, CMInv, CMTypeOK, Table
<1>1. ASSUME NEW f \in Function, NEW n \in Name, visitExtFunc(f, n)
      PROVE  Effect
  BY <1>1, DeclarationEffect DEF Effect
<1>2. ASSUME NEW f \in Function, NEW n \in Name, beginFuncDef(f, n)
      PROVE  Effect
  <2>1. func' = Append(func, f) /\ Len(symTable') = Len(symTable) + 1
    BY <1>0, <1>2 DEF beginFuncDef, enterBlock, NoBindings, Table
  <2>2. fnName'[f] # Unbound
    BY <1>2, CodeGenAssumption DEF beginFuncDef, Create, CGInv, CGTypeOK
  <2>3. Enters
    BY <1>2, <2>1, <2>2 DEF beginFuncDef, Create, AtUnit, Enters
  <2> QED
    BY <2>3 DEF Effect
<1>3. ASSUME NEW n \in Name, NEW isArray \in BOOLEAN, visitParam(n, isArray)
      PROVE  Effect
  <2> DEFINE ins == Ins("store", <<>>, NewStorage, {})
  <2>1. Define(n)
    BY <1>3 DEF visitParam, Define
  <2>2. PICK b \in Binding, s \in Storage :
          /\ symTable' = [symTable EXCEPT ![Len(symTable)] = [@ EXCEPT ![n] = b]]
          /\ func' = func /\ s.owner = func[Len(func)] /\ storage' = Append(storage, s)
    BY <2>1, DefineEffect DEF CGInv
  <2>3. SameScopes
    BY <1>0, <2>2 DEF SameScopes
  <2>4. storage \in Seq(Storage)
    BY DEF CGInv, CMInv, CMTypeOK
  <2>5. NewStorage \in Nat /\ NewStorage # 0 /\ Near(NewStorage, storage')
    <3>1. /\ Len(storage') = Len(storage) + 1 /\ storage'[Len(storage) + 1] = s
          /\ Len(storage) \in Nat
      BY <2>2, <2>4
    <3> QED
      BY <2>2, <3>1 DEF Near, CurrentFunction, NewStorage
  <2>6. ins \in Instr /\ Fit(ins) /\ ins.op = "store"
    BY <2>5, NoUses, MakeIns DEF Jumps
  <2>7. InFunction
    BY <1>3, Basics DEF visitParam
  <2>8. blocks' = AppendCode(blocks, ins) /\ UNCHANGED <<insert, stack>>
    BY <1>3 DEF visitParam
  <2> HIDE DEF ins
  <2>9. Writes
    BY <2>3, <2>6, <2>7, <2>8 DEF Writes, Write, Jumps
  <2> QED
    BY <2>9 DEF Effect
<1>4. CASE beginBody
  <2>1. Moves
    BY <1>4 DEF beginBody, Moves, SameScopes, cmVars
  <2> QED
    BY <2>1 DEF Effect
<1>5. CASE endFuncDef
  <2>1. Len(symTable') = Len(symTable) - 1 /\ func' = SubSeq(func, 1, Len(func) - 1)
    BY <1>0, <1>5 DEF endFuncDef, exitBlock
  <2>2. Leaves
    BY <1>5, <2>1 DEF endFuncDef, Leaves
  <2> QED
    BY <2>2 DEF Effect
<1> QED
  BY <1>1, <1>2, <1>3, <1>4, <1>5 DEF FunctionNode

(* An instruction made of what an expression loads or calls.                 *)
LEMMA StatementEffect ==
  ASSUME CGInv, AtStatement, NEW op \in {"store", "call", "ret"},
         NEW e \in Seq(Leaf), Sound(e), NEW to \in Nat, to # 0 => InReach(to),
         Statement(Ins(op, Uses(e), to, {}))
  PROVE  Effect
<1> DEFINE ins == Ins(op, Uses(e), to, {})
<1>1. InFunction
  BY Basics DEF AtStatement
<1>2. SameScopes /\ storage' = storage
  BY DEF Statement, SameScopes, cmVars
<1>3. FitUses(Uses(e))
  BY <1>1, UsesFit
<1>4. ins \in Instr /\ Fit(ins) /\ ins.op = op
  <2>1. op \in {"store", "call"} \cup Terminators
    BY DEF Terminators
  <2>2. to # 0 => Near(to, storage')
    BY <1>2 DEF InReach
  <2> QED
    BY <1>3, <2>1, <2>2, MakeIns
<1>5. blocks' = AppendCode(blocks, ins) /\ stack' = Consumed /\ UNCHANGED insert
  BY DEF Statement
<1> HIDE DEF ins
<1>6. Writes
  BY <1>1, <1>2, <1>4, <1>5 DEF Writes, Write, Jumps
<1> QED
  BY <1>6 DEF Effect

LEMMA SimpleEffect ==
  ASSUME CGInv, SimpleStatement
  PROVE  Effect
<1>0. Len(symTable) = 2 \/ ~AtStatement
  BY Basics DEF CGInv, StackShape, InFunction, AtStatement
<1>1. ASSUME Die("rejected") PROVE Effect
  BY <1>1, DeclarationEffect DEF Effect
<1>2. \A e \in Exprs : e \in Seq(Leaf)
  BY CodeGenAssumption
<1>3. CASE visitEmpty
  <2>1. Moves
    BY <1>3, Basics DEF visitEmpty, AtStatement, Moves, SameScopes, cmVars
  <2> QED
    BY <2>1 DEF Effect
<1>4. ASSUME NEW e \in Exprs, visitRetStmt(e) PROVE Effect
  BY <1>1, <1>2, <1>4, StatementEffect DEF visitRetStmt
<1>5. ASSUME NEW e \in Exprs, NEW n \in Name, visitFuncCall(n, e) PROVE Effect
  <2> DEFINE call == Append(e, [kind |-> "call", name |-> n])
  <2>1. call \in Seq(Leaf)
    <3>1. [kind |-> "call", name |-> n] \in Leaf
      BY DEF Leaf
    <3> QED
      BY <1>2, <3>1
  <2>2. /\ AtStatement
        /\ \/ Sound(call) /\ Statement(Ins("call", Uses(call), 0, {}))
           \/ Die("rejected")
    BY <1>5 DEF visitFuncCall
  <2> HIDE DEF call
  <2> QED
    BY <1>1, <2>1, <2>2, StatementEffect
<1>6. ASSUME NEW target \in [kind : {"name", "elem"}, name : Name], NEW e \in Exprs,
             NEW index \in Seq(Leaf), visitAsgnStmt(target, e, index)
      PROVE  Effect
  <2> DEFINE leaves == e \o IF target.kind = "elem" THEN index ELSE <<>>
  <2>1. leaves \in Seq(Leaf)
    BY <1>2
  <2>2. \/ /\ AtStatement /\ Sound(leaves) /\ Use(target) # Bad
           /\ Statement(Ins("store", Uses(leaves), get(target.name), {}))
        \/ Die("rejected")
    BY <1>6 DEF visitAsgnStmt
  <2> HIDE DEF leaves
  <2>3. ASSUME AtStatement, Use(target) # Bad
        PROVE  get(target.name) \in Nat /\ InReach(get(target.name))
    <3>1. lookup(target.name) # Unbound
      BY <2>3 DEF Use
    <3> QED
      BY <1>0, <2>3, <3>1, LookupInReach DEF CGInv, StorageId
  <2> QED
    BY <1>1, <2>1, <2>2, <2>3, StatementEffect
<1>7. ASSUME NEW e \in Exprs, NEW n \in Name, visitAsgnStmt([kind |-> "name", name |-> n], e, <<>>)
      PROVE  Effect
  <2>1. /\ [kind |-> "name", name |-> n] \in [kind : {"name", "elem"}, name : Name]
        /\ <<>> \in Seq(Leaf)
    OBVIOUS
  <2> QED
    BY <1>6, <1>7, <2>1
<1>8. ASSUME NEW e \in Exprs, NEW n \in Name, NEW index \in Exprs,
             visitAsgnStmt([kind |-> "elem", name |-> n], e, index)
      PROVE  Effect
  BY <1>2, <1>6, <1>8
<1> QED
  BY <1>3, <1>4, <1>5, <1>7, <1>8 DEF SimpleStatement

LEMMA StructureEffect ==
  ASSUME CGInv, Structure
  PROVE  Effect
<1>0. /\ Len(blocks) \in Nat /\ Top \in FrameType
      /\ AtStatement => InFunction
      /\ Top.kind # "unit" => InFunction
  BY Basics DEF AtStatement
<1>1. ASSUME Die("rejected") PROVE Effect
  BY <1>1, DeclarationEffect DEF Effect
<1>2. ASSUME UNCHANGED cmVars PROVE SameScopes /\ storage' = storage
  BY <1>2 DEF cmVars, SameScopes
<1>3. CASE beginBlock \/ endBlock
  <2>1. Moves
    BY <1>0, <1>2, <1>3 DEF beginBlock, endBlock, Moves
  <2> QED
    BY <2>1 DEF Effect
<1>4. ASSUME NEW e \in Seq(Leaf), Sound(e), InFunction,
             NEW targets \in SUBSET (1 .. MaxBlocks)
      PROVE  LET ins == Ins("condbr", Uses(e), 0, targets) IN
             ins \in Instr /\ Jump(ins, targets)
  <2>1. "condbr" \in Jumps
    BY DEF Jumps
  <2>2. FitUses(Uses(e))
    BY <1>4, UsesFit
  <2> QED
    BY <1>4, <2>1, <2>2, MakeJump
<1>5. ASSUME NEW targets \in SUBSET (1 .. MaxBlocks), InFunction
      PROVE  LET ins == Ins("br", <<>>, 0, targets) IN
             ins \in Instr /\ Jump(ins, targets)
  <2>1. "br" \in Jumps
    BY DEF Jumps
  <2> QED
    BY <1>5, <2>1, NoUses, MakeJump
<1>6. ASSUME NEW e \in Exprs, beginWhile(e) PROVE Effect
  <2>1. CASE Die("rejected")
    BY <1>1, <2>1
  <2>2. CASE ~Die("rejected")
    <3>1. /\ InFunction /\ Sound(e) /\ Room(2) /\ e \in Seq(Leaf)
          /\ SameScopes
      BY <1>0, <1>2, <1>6, <2>2, CodeGenAssumption DEF beginWhile
    <3> DEFINE targets == {Len(blocks) + 1, Len(blocks) + 2}
               ins == Ins("condbr", Uses(e), 0, targets)
    <3>2. targets \in SUBSET (1 .. MaxBlocks) /\ Len(blocks) + 2 <= MaxBlocks
      BY <1>0, <3>1, CodeGenAssumption DEF Room
    <3>3. ins \in Instr /\ Jump(ins, targets)
      BY <1>4, <3>1, <3>2
    <3>4. /\ blocks' = AppendCode(blocks, ins) \o <<NewBlock(Here, "loop", TRUE),
                                                    NewBlock(Here, "afterloop", TRUE)>>
          /\ insert' = Len(blocks) + 1
          /\ stack' = Append(Consumed, Frame("while", TRUE, Len(blocks) + 1,
                                             Len(blocks) + 2, e))
      BY <1>6, <2>2 DEF beginWhile
    <3> HIDE DEF ins
    <3>5. OpensLoop
      BY <3>1, <3>2, <3>3, <3>4 DEF OpensLoop
    <3> QED
      BY <3>5 DEF Effect
  <2> QED
    BY <2>1, <2>2
<1>7. CASE endWhile
  <2>1. CASE Die("rejected")
    BY <1>1, <2>1
  <2>2. CASE ~Die("rejected")
    <3> DEFINE targets == {Top.first, Top.next}
               ins == Ins("condbr", Uses(Top.cond), 0, targets)
    <3>1. /\ InFunction /\ Sound(Top.cond) /\ Top.kind = "while"
          /\ SameScopes /\ Top.cond \in Seq(Leaf)
          /\ blocks' = AppendCode(blocks, ins) /\ insert' = Top.next /\ stack' = Pop
      BY <1>0, <1>2, <1>7, <2>2 DEF endWhile, FrameType
    <3>2. targets \in SUBSET (1 .. MaxBlocks)
      <4>1. Len(stack) \in 1 .. Len(stack) /\ Own(Top) = targets
        BY <3>1, Basics DEF Own
      <4>2. targets \subseteq BlockId
        BY <4>1 DEF CGInv, FramesInv, Top
      <4>3. targets \subseteq 0 .. MaxBlocks
        BY <1>0 DEF FrameType
      <4> QED
        BY <1>0, <4>2, <4>3 DEF BlockId
    <3>3. ins \in Instr /\ Jump(ins, targets)
      BY <1>4, <3>1, <3>2
    <3> HIDE DEF ins
    <3>4. ClosesLoop
      BY <3>1, <3>3 DEF ClosesLoop
    <3> QED
      BY <3>4 DEF Effect
  <2> QED
    BY <2>1, <2>2
<1>8. ASSUME NEW e \in Exprs, beginIf(e) PROVE Effect
  <2>1. CASE Die("rejected")
    BY <1>1, <2>1
  <2>2. CASE ~Die("rejected")
    <3>1. /\ InFunction /\ Sound(e) /\ Room(3) /\ e \in Seq(Leaf)
          /\ SameScopes
      BY <1>0, <1>2, <1>8, <2>2, CodeGenAssumption DEF beginIf
    <3> DEFINE targets == {Len(blocks) + 1, Len(blocks) + 2}
               ins == Ins("condbr", Uses(e), 0, targets)
    <3>2. targets \in SUBSET (1 .. MaxBlocks) /\ Len(blocks) + 3 <= MaxBlocks
      BY <1>0, <3>1, CodeGenAssumption DEF Room
    <3>3. ins \in Instr /\ Jump(ins, targets)
      BY <1>4, <3>1, <3>2
    <3>4. /\ blocks' = AppendCode(blocks, ins) \o <<NewBlock(Here, "then", TRUE),
                                                    NewBlock(Here, "else", FALSE),
                                                    NewBlock(Here, "merge", FALSE)>>
          /\ insert' = Len(blocks) + 1
          /\ stack' = Append(Consumed, Frame("then", TRUE, Len(blocks) + 2,
                                             Len(blocks) + 3, <<>>))
      BY <1>8, <2>2 DEF beginIf
    <3> HIDE DEF ins
    <3>5. OpensIf
      BY <3>1, <3>2, <3>3, <3>4 DEF OpensIf
    <3> QED
      BY <3>5 DEF Effect
  <2> QED
    BY <2>1, <2>2
<1>9. ASSUME NEW block, Continue(block), Top.kind \in {"then", "else"}
      PROVE  Continues(block)
  <2> DEFINE ins == Ins("br", <<>>, 0, {Top.next})
  <2>1. Len(stack) \in 1 .. Len(stack) /\ Top.next \in Own(Top)
    BY <1>9, Basics DEF Own
  <2>2. {Top.next} \in SUBSET (1 .. MaxBlocks)
    <3>1. Top.next \in BlockId
      BY <2>1 DEF CGInv, FramesInv, Top
    <3>2. Top.next \in 0 .. MaxBlocks
      BY <1>0 DEF FrameType
    <3> QED
      BY <1>0, <3>1, <3>2 DEF BlockId
  <2>3. ins \in Instr /\ Jump(ins, {Top.next})
    BY <1>0, <1>5, <1>9, <2>2
  <2>4. /\ blocks' = [AppendCode(blocks, ins) EXCEPT ![block].attached = TRUE]
        /\ insert' = block /\ SameScopes
    BY <1>2, <1>9 DEF Continue
  <2> HIDE DEF ins
  <2> QED
    BY <2>3, <2>4 DEF Continues
<1>10. CASE endIf
  <2>1. EndsElse
    BY <1>9, <1>10 DEF endIf, EndsElse
  <2> QED
    BY <2>1 DEF Effect
<1>11. ASSUME NEW hasElse \in BOOLEAN, endThen(hasElse) PROVE Effect
  <2>1. EndsThen
    BY <1>9, <1>11 DEF endThen, EndsThen
  <2> QED
    BY <2>1 DEF Effect
<1> QED
  BY <1>3, <1>6, <1>7, <1>8, <1>10, <1>11 DEF Structure

LEMMA StepEffect == CGInv /\ [CGNext]_vars => Effect
<1> SUFFICES ASSUME CGInv, [CGNext]_vars PROVE Effect
  OBVIOUS
<1>1. CASE Declaration \/ finish \/ Terminated
  BY <1>1, DeclarationEffect DEF Effect
<1>2. CASE UNCHANGED vars
  BY <1>2 DEF vars, cmVars, cgVars, Effect, Elsewhere, SameScopes
<1> QED
  BY <1>1, <1>2, FunctionEffect, SimpleEffect, StructureEffect DEF CGNext
-----------------------------------------------------------------------------
(* The effects block by block and visit by visit.                            *)
Appends(ins, new) ==
  /\ blocks' \in Seq(BlockType) /\ Len(blocks') = Len(blocks) + Len(new)
  /\ \A b \in BlockId :
       /\ blocks'[b].fn = blocks[b].fn /\ blocks'[b].label = blocks[b].label
       /\ blocks'[b].code = IF b = insert THEN Append(blocks[b].code, ins) ELSE blocks[b].code
  /\ \A i \in 1 .. Len(new) : blocks'[Len(blocks) + i] = new[i]
Attaches(set) == \A b \in BlockId : blocks'[b].attached <=> (b \in set \/ blocks[b].attached)

SameFrames(n) == \A k \in 1 .. n : /\ stack'[k].kind = stack[k].kind
                                   /\ stack'[k].first = stack[k].first
                                   /\ stack'[k].next = stack[k].next
Keeps == stack' \in Seq(FrameType) /\ Len(stack') = Len(stack) /\ SameFrames(Len(stack))
Pushes(fr) == /\ stack' \in Seq(FrameType) /\ Len(stack') = Len(stack) + 1
              /\ SameFrames(Len(stack)) /\ stack'[Len(stack) + 1] = fr
Pops == /\ stack' \in Seq(FrameType) /\ Len(stack') = Len(stack) - 1
        /\ SameFrames(Len(stack) - 1) /\ Len(stack) >= 2
Swaps(fr) == /\ stack' \in Seq(FrameType) /\ Len(stack') = Len(stack) /\ Len(stack) >= 2
             /\ SameFrames(Len(stack) - 1) /\ stack'[Len(stack)] = fr

LEMMA CodeAppended ==
  ASSUME CGInv, InFunction, NEW ins \in Instr
  PROVE  LET bs == AppendCode(blocks, ins) IN
         /\ bs \in Seq(BlockType) /\ Len(bs) = Len(blocks)
         /\ \A b \in BlockId :
              /\ bs[b].fn = blocks[b].fn /\ bs[b].label = blocks[b].label
              /\ bs[b].attached = blocks[b].attached
              /\ bs[b].code = IF b = insert THEN Append(blocks[b].code, ins) ELSE blocks[b].code
<1> DEFINE new == [blocks[insert] EXCEPT !.code = Append(@, ins)]
<1>1. blocks \in Seq(BlockType) /\ Len(blocks) \in Nat /\ insert \in 1 .. Len(blocks)
  BY Basics
<1>2. /\ blocks[insert] \in BlockType
      /\ blocks[insert].code \in Seq(Instr)
  <2>1. blocks[insert] \in BlockType
    BY <1>1
  <2> QED
    BY <2>1 DEF BlockType
<1>3. /\ new \in BlockType /\ new.fn = blocks[insert].fn /\ new.label = blocks[insert].label
      /\ new.attached = blocks[insert].attached
      /\ new.code = Append(blocks[insert].code, ins)
  BY <1>2 DEF BlockType
<1>4. AppendCode(blocks, ins) = [blocks EXCEPT ![insert] = new]
  BY DEF AppendCode
<1> HIDE DEF new
<1> DEFINE bs == [blocks EXCEPT ![insert] = new]
<1>5. /\ bs \in Seq(BlockType) /\ Len(bs) = Len(blocks)
      /\ \A b \in 1 .. Len(blocks) : bs[b] = IF b = insert THEN new ELSE blocks[b]
  BY <1>1, <1>3, ExceptSeq
<1> HIDE DEF bs
<1>6. \A b \in BlockId :
        /\ bs[b].fn = blocks[b].fn /\ bs[b].label = blocks[b].label
        /\ bs[b].attached = blocks[b].attached
        /\ bs[b].code = IF b = insert THEN Append(blocks[b].code, ins) ELSE blocks[b].code
  BY <1>3, <1>5 DEF BlockId
<1> QED
  BY <1>4, <1>5, <1>6 DEF bs

LEMMA GrownBlocks ==
  ASSUME CGInv, InFunction, NEW ins \in Instr, NEW new \in Seq(BlockType),
         \/ blocks' = AppendCode(blocks, ins) \o new
         \/ new = <<>> /\ blocks' = AppendCode(blocks, ins)
  PROVE  Appends(ins, new) /\ Attaches({})
<1> DEFINE bs == AppendCode(blocks, ins)
<1>1. /\ bs \in Seq(BlockType) /\ Len(bs) = Len(blocks)
      /\ \A b \in BlockId :
           /\ bs[b].fn = blocks[b].fn /\ bs[b].label = blocks[b].label
           /\ bs[b].attached = blocks[b].attached
           /\ bs[b].code = IF b = insert THEN Append(blocks[b].code, ins) ELSE blocks[b].code
  BY CodeAppended
<1>2. Len(blocks) \in Nat
  BY Basics
<1> HIDE DEF bs
<1>3. /\ blocks' \in Seq(BlockType) /\ Len(blocks') = Len(bs) + Len(new)
      /\ \A b \in 1 .. Len(bs) : blocks'[b] = bs[b]
      /\ \A i \in 1 .. Len(new) : blocks'[Len(bs) + i] = new[i]
  <2>1. CASE blocks' = bs \o new
    <3>1. bs \in Seq(BlockType) /\ new \in Seq(BlockType)
      BY <1>1
    <3> QED
      BY <2>1, <3>1
  <2>2. CASE new = <<>> /\ blocks' = bs
    BY <1>1, <2>2
  <2> QED
    BY <2>1, <2>2 DEF bs
<1>4. \A b \in BlockId : blocks'[b] = bs[b]
  BY <1>1, <1>3 DEF BlockId
<1>5. Appends(ins, new)
  BY <1>1, <1>3, <1>4 DEF Appends
<1>6. Attaches({})
  BY <1>1, <1>4 DEF Attaches
<1> QED
  BY <1>5, <1>6

LEMMA JoinedBlocks ==
  ASSUME CGInv, InFunction, NEW ins \in Instr, NEW block \in BlockId,
         blocks' = [AppendCode(blocks, ins) EXCEPT ![block].attached = TRUE]
  PROVE  Appends(ins, <<>>) /\ Attaches({block})
<1> DEFINE bs == AppendCode(blocks, ins)
           new == [bs[block] EXCEPT !.attached = TRUE]
<1>1. /\ bs \in Seq(BlockType) /\ Len(bs) = Len(blocks)
      /\ \A b \in BlockId :
           /\ bs[b].fn = blocks[b].fn /\ bs[b].label = blocks[b].label
           /\ bs[b].attached = blocks[b].attached
           /\ bs[b].code = IF b = insert THEN Append(blocks[b].code, ins) ELSE blocks[b].code
  BY CodeAppended
<1>2. Len(blocks) \in Nat
  BY Basics
<1>3. blocks' = [bs EXCEPT ![block] = new]
  OBVIOUS
<1> HIDE DEF bs
<1>4. /\ new \in BlockType /\ new.fn = bs[block].fn /\ new.label = bs[block].label
      /\ new.code = bs[block].code /\ new.attached = TRUE
  <2>1. bs[block] \in BlockType
    BY <1>1 DEF BlockId
  <2> QED
    BY <2>1 DEF BlockType
<1> HIDE DEF new
<1>5. /\ blocks' \in Seq(BlockType) /\ Len(blocks') = Len(blocks)
      /\ \A b \in BlockId : blocks'[b] = IF b = block THEN new ELSE bs[b]
  <2>1. block \in 1 .. Len(bs) /\ BlockId = 1 .. Len(bs) /\ bs \in Seq(BlockType)
    BY <1>1 DEF BlockId
  <2>2. new \in BlockType
    BY <1>4
  <2> DEFINE joined == [bs EXCEPT ![block] = new]
  <2>3. /\ joined \in Seq(BlockType) /\ Len(joined) = Len(bs)
        /\ \A b \in 1 .. Len(bs) : joined[b] = IF b = block THEN new ELSE bs[b]
    BY <2>1, <2>2, ExceptSeq
  <2>4. blocks' = joined
    BY <1>3
  <2> HIDE DEF joined
  <2> QED
    BY <1>1, <2>1, <2>3, <2>4
<1>6. Appends(ins, <<>>)
  <2>1. \A b \in BlockId : /\ blocks'[b].fn = bs[b].fn /\ blocks'[b].label = bs[b].label
                           /\ blocks'[b].code = bs[b].code
    BY <1>4, <1>5
  <2>2. Len(blocks') = Len(blocks) + Len(<<>>) /\ 1 .. Len(<<>>) = {}
    BY <1>2, <1>5
  <2> QED
    BY <1>1, <1>5, <2>1, <2>2 DEF Appends
<1>7. \A b \in BlockId : blocks'[b].attached <=> (b \in {block} \/ blocks[b].attached)
  <2> TAKE b \in BlockId
  <2>1. CASE b = block
    BY <1>4, <1>5, <2>1
  <2>2. CASE b # block
    BY <1>1, <1>5, <2>2
  <2> QED
    BY <2>1, <2>2
<1> QED
  BY <1>6, <1>7 DEF Attaches

LEMMA ConsumedStack ==
  ASSUME CGInv
  PROVE  /\ Consumed \in Seq(FrameType) /\ Len(Consumed) = Len(stack)
         /\ \A k \in 1 .. Len(stack) : /\ Consumed[k].kind = stack[k].kind
                                       /\ Consumed[k].first = stack[k].first
                                       /\ Consumed[k].next = stack[k].next
<1> DEFINE fr == [Top EXCEPT !.todo = @ /\ Top.kind \in Scopes]
<1>1. /\ stack \in Seq(FrameType) /\ Len(stack) \in Nat /\ Len(stack) >= 1 /\ Top \in FrameType
  BY Basics
<1>2. fr \in FrameType /\ fr.kind = Top.kind /\ fr.first = Top.first /\ fr.next = Top.next
  BY <1>1 DEF FrameType
<1>3. Consumed = [stack EXCEPT ![Len(stack)] = fr]
  BY DEF Consumed, Top
<1> HIDE DEF fr
<1>4. /\ Consumed \in Seq(FrameType) /\ Len(Consumed) = Len(stack)
      /\ \A k \in 1 .. Len(stack) : Consumed[k] = IF k = Len(stack) THEN fr ELSE stack[k]
  <2>1. Len(stack) \in 1 .. Len(stack)
    BY <1>1
  <2> QED
    BY <1>1, <1>2, <1>3, <2>1, ExceptSeq
<1> QED
  BY <1>2, <1>4 DEF Top

LEMMA StackMoves ==
  ASSUME CGInv
  PROVE  /\ stack' \in {stack, Consumed} => Keeps
         /\ \A fr \in FrameType, s \in {stack, Consumed} : stack' = Append(s, fr) => Pushes(fr)
         /\ InFunction /\ stack' = Pop => Pops
         /\ \A fr \in FrameType : InFunction /\ stack' = Append(Pop, fr) => Swaps(fr)
<1>1. /\ stack \in Seq(FrameType) /\ Len(stack) \in Nat /\ Len(stack) >= 1
      /\ InFunction => Len(stack) >= 2
  BY Basics DEF InFunction
<1>2. ASSUME NEW s \in {stack, Consumed}
      PROVE  /\ s \in Seq(FrameType) /\ Len(s) = Len(stack)
             /\ \A k \in 1 .. Len(stack) : /\ s[k].kind = stack[k].kind
                                           /\ s[k].first = stack[k].first
                                           /\ s[k].next = stack[k].next
  <2>1. CASE s = stack
    BY <1>1, <2>1
  <2>2. CASE s = Consumed
    BY <2>2, ConsumedStack
  <2> QED
    BY <1>2, <2>1, <2>2
<1>3. stack' \in {stack, Consumed} => Keeps
  BY <1>2 DEF Keeps, SameFrames
<1>4. ASSUME NEW fr \in FrameType, NEW s \in {stack, Consumed}, stack' = Append(s, fr)
      PROVE  Pushes(fr)
  <2>1. s \in Seq(FrameType) /\ Len(s) = Len(stack)
    BY <1>2
  <2> DEFINE t == Append(s, fr)
  <2>2. /\ t \in Seq(FrameType) /\ Len(t) = Len(stack) + 1
        /\ t[Len(stack) + 1] = fr
        /\ \A k \in 1 .. Len(stack) : t[k] = s[k]
    BY <1>1, <2>1
  <2>3. stack' = t
    BY <1>4
  <2> HIDE DEF t
  <2> QED
    BY <1>2, <2>2, <2>3 DEF Pushes, SameFrames
<1> DEFINE pop == SubSeq(stack, 1, Len(stack) - 1)
<1>5. ASSUME InFunction
      PROVE  /\ pop \in Seq(FrameType) /\ Len(pop) = Len(stack) - 1 /\ Len(stack) - 1 \in Nat
             /\ \A k \in 1 .. Len(stack) - 1 : pop[k] = stack[k]
  BY <1>1, <1>5, SubSeqProperties
<1>6. Pop = pop
  BY DEF Pop
<1> HIDE DEF pop
<1>7. InFunction /\ stack' = Pop => Pops
  <2> SUFFICES ASSUME InFunction, stack' = Pop PROVE Pops
    OBVIOUS
  <2>1. SameFrames(Len(stack) - 1)
    BY <1>5, <1>6 DEF SameFrames
  <2> QED
    BY <1>1, <1>5, <1>6, <2>1 DEF Pops
<1>8. ASSUME NEW fr \in FrameType, InFunction, stack' = Append(Pop, fr)
      PROVE  Swaps(fr)
  <2> DEFINE t == Append(pop, fr)
  <2>1. /\ t \in Seq(FrameType) /\ Len(t) = Len(stack) /\ t[Len(stack)] = fr
        /\ \A k \in 1 .. Len(stack) - 1 : t[k] = stack[k]
    BY <1>1, <1>5, <1>8
  <2>2. stack' = t
    BY <1>6, <1>8
  <2> HIDE DEF t
  <2> QED
    <3>1. SameFrames(Len(stack) - 1)
      BY <2>1, <2>2 DEF SameFrames
    <3> QED
      BY <1>1, <1>8, <2>1, <2>2, <3>1 DEF Swaps
<1> QED
  BY <1>3, <1>4, <1>7, <1>8

Grows(ins, new, set) == InFunction /\ Fit(ins) /\ Appends(ins, new) /\ Attaches(set)
LoopBlocks == <<NewBlock(Here, "loop", TRUE), NewBlock(Here, "afterloop", TRUE)>>
IfBlocks == <<NewBlock(Here, "then", TRUE), NewBlock(Here, "else", FALSE),
              NewBlock(Here, "merge", FALSE)>>

LEMMA ShortLists ==
  ASSUME NEW S, NEW a \in S, NEW b \in S, NEW c \in S
  PROVE  /\ <<a, b>> \in Seq(S) /\ Len(<<a, b>>) = 2
         /\ <<a, b, c>> \in Seq(S) /\ Len(<<a, b, c>>) = 3
OBVIOUS

LEMMA NewBlocksTyped ==
  ASSUME NEW fn \in Function, NEW label \in Label, NEW attached \in BOOLEAN
  PROVE  NewBlock(fn, label, attached) \in BlockType
BY DEF NewBlock, BlockType

LEMMA FramesTyped ==
  ASSUME NEW kind \in {"unit", "params", "func", "block", "while", "then", "else"},
         NEW todo \in BOOLEAN, NEW first \in 0 .. MaxBlocks, NEW next \in 0 .. MaxBlocks,
         NEW cond \in Seq(Leaf)
  PROVE  /\ Frame(kind, todo, first, next, cond) \in FrameType
         /\ Frame(kind, todo, first, next, cond).kind = kind
         /\ Frame(kind, todo, first, next, cond).first = first
         /\ Frame(kind, todo, first, next, cond).next = next
BY DEF Frame, FrameType

LEMMA WritesShape ==
  ASSUME CGInv, Writes
  PROVE  Keeps /\ \E ins \in Instr : ins.op \notin Jumps /\ Grows(ins, <<>>, {})
<1>1. Keeps
  BY StackMoves DEF Writes
<1>2. PICK ins \in Instr : Write(ins) /\ blocks' = AppendCode(blocks, ins)
  BY DEF Writes
<1>3. Appends(ins, <<>>) /\ Attaches({})
  <2>1. <<>> \in Seq(BlockType) /\ InFunction
    BY <1>2 DEF Write
  <2> QED
    BY <1>2, <2>1, GrownBlocks
<1> QED
  BY <1>1, <1>2, <1>3 DEF Write, Grows

LEMMA MovesShape ==
  ASSUME CGInv, Moves
  PROVE  /\ InFunction
         /\ \/ Keeps
            \/ Pushes(Frame("block", TRUE, 0, 0, <<>>))
            \/ Top.kind = "block" /\ Pops
            \/ Top.kind = "params" /\ Swaps(Frame("func", TRUE, 0, 0, <<>>))
<1>1. InFunction
  BY Basics DEF Moves
<1>2. /\ Frame("block", TRUE, 0, 0, <<>>) \in FrameType
      /\ Frame("func", TRUE, 0, 0, <<>>) \in FrameType
  <2>1. 0 \in 0 .. MaxBlocks /\ <<>> \in Seq(Leaf)
    BY CodeGenAssumption
  <2> QED
    BY <2>1, FramesTyped
<1> QED
  BY <1>1, <1>2, StackMoves DEF Moves

LEMMA OpensLoopShape ==
  ASSUME CGInv, OpensLoop
  PROVE  /\ \E ins \in Instr : /\ ins.op \in Jumps
                               /\ ins.targets = {Len(blocks) + 1, Len(blocks) + 2}
                               /\ Grows(ins, LoopBlocks, {})
         /\ \E fr \in FrameType : /\ fr.kind = "while" /\ fr.first = Len(blocks) + 1
                                  /\ fr.next = Len(blocks) + 2 /\ Pushes(fr)
         /\ Here = CurrentFunction
<1>1. PICK ins \in Instr, cond \in Seq(Leaf) :
        /\ SameScopes /\ Len(blocks) + 2 <= MaxBlocks
        /\ Jump(ins, {Len(blocks) + 1, Len(blocks) + 2})
        /\ blocks' = AppendCode(blocks, ins) \o LoopBlocks
        /\ stack' = Append(Consumed, Frame("while", TRUE, Len(blocks) + 1, Len(blocks) + 2, cond))
  BY DEF OpensLoop, LoopBlocks
<1>2. InFunction /\ CurrentFunction \in Function /\ Here = CurrentFunction /\ Len(blocks) \in Nat
  BY <1>1, Basics DEF Jump, Here
<1>3. LoopBlocks \in Seq(BlockType)
  <2>1. /\ NewBlock(Here, "loop", TRUE) \in BlockType
        /\ NewBlock(Here, "afterloop", TRUE) \in BlockType
    BY <1>2, NewBlocksTyped DEF Label
  <2> QED
    BY <2>1, ShortLists DEF LoopBlocks
<1>4. Appends(ins, LoopBlocks) /\ Attaches({})
  BY <1>1, <1>2, <1>3, GrownBlocks
<1> DEFINE fr == Frame("while", TRUE, Len(blocks) + 1, Len(blocks) + 2, cond)
<1>5. fr \in FrameType /\ fr.kind = "while" /\ fr.first = Len(blocks) + 1 /\ fr.next = Len(blocks) + 2
  <2>1. Len(blocks) + 1 \in 0 .. MaxBlocks /\ Len(blocks) + 2 \in 0 .. MaxBlocks
    BY <1>1, <1>2, CodeGenAssumption
  <2> DEFINE first == Len(blocks) + 1
             next == Len(blocks) + 2
  <2>2. first \in 0 .. MaxBlocks /\ next \in 0 .. MaxBlocks
    BY <2>1
  <2> HIDE DEF first, next
  <2>3. LET g == Frame("while", TRUE, first, next, cond) IN
        g \in FrameType /\ g.kind = "while" /\ g.first = first /\ g.next = next
    BY <2>1, <2>2 DEF Frame, FrameType
  <2> QED
    BY <2>3 DEF first, next
<1> HIDE DEF fr
<1>6. Pushes(fr)
  BY <1>1, <1>5, StackMoves DEF fr
<1> QED
  BY <1>1, <1>2, <1>4, <1>5, <1>6 DEF Jump, Grows

LEMMA OpensIfShape ==
  ASSUME CGInv, OpensIf
  PROVE  /\ \E ins \in Instr : /\ ins.op \in Jumps
                               /\ ins.targets = {Len(blocks) + 1, Len(blocks) + 2}
                               /\ Grows(ins, IfBlocks, {})
         /\ \E fr \in FrameType : /\ fr.kind = "then" /\ fr.first = Len(blocks) + 2
                                  /\ fr.next = Len(blocks) + 3 /\ Pushes(fr)
         /\ Here = CurrentFunction
<1>1. PICK ins \in Instr :
        /\ SameScopes /\ Len(blocks) + 3 <= MaxBlocks
        /\ Jump(ins, {Len(blocks) + 1, Len(blocks) + 2})
        /\ blocks' = AppendCode(blocks, ins) \o IfBlocks
        /\ stack' = Append(Consumed, Frame("then", TRUE, Len(blocks) + 2, Len(blocks) + 3, <<>>))
  BY DEF OpensIf, IfBlocks
<1>2. InFunction /\ CurrentFunction \in Function /\ Here = CurrentFunction /\ Len(blocks) \in Nat
  BY <1>1, Basics DEF Jump, Here
<1>3. IfBlocks \in Seq(BlockType)
  <2>1. /\ NewBlock(Here, "then", TRUE) \in BlockType
        /\ NewBlock(Here, "else", FALSE) \in BlockType
        /\ NewBlock(Here, "merge", FALSE) \in BlockType
    BY <1>2, NewBlocksTyped DEF Label
  <2> QED
    BY <2>1, ShortLists DEF IfBlocks
<1>4. Appends(ins, IfBlocks) /\ Attaches({})
  BY <1>1, <1>2, <1>3, GrownBlocks
<1> DEFINE fr == Frame("then", TRUE, Len(blocks) + 2, Len(blocks) + 3, <<>>)
<1>5. fr \in FrameType /\ fr.kind = "then" /\ fr.first = Len(blocks) + 2 /\ fr.next = Len(blocks) + 3
  <2>1. /\ Len(blocks) + 2 \in 0 .. MaxBlocks /\ Len(blocks) + 3 \in 0 .. MaxBlocks
        /\ <<>> \in Seq(Leaf)
    BY <1>1, <1>2, CodeGenAssumption
  <2> DEFINE first == Len(blocks) + 2
             next == Len(blocks) + 3
  <2>2. first \in 0 .. MaxBlocks /\ next \in 0 .. MaxBlocks
    BY <2>1
  <2> HIDE DEF first, next
  <2>3. LET g == Frame("then", TRUE, first, next, <<>>) IN
        g \in FrameType /\ g.kind = "then" /\ g.first = first /\ g.next = next
    BY <2>1, <2>2 DEF Frame, FrameType
  <2> QED
    BY <2>3 DEF first, next
<1> HIDE DEF fr
<1>6. Pushes(fr)
  BY <1>1, <1>5, StackMoves DEF fr
<1> QED
  BY <1>1, <1>2, <1>4, <1>5, <1>6 DEF Jump, Grows

LEMMA ClosesLoopShape ==
  ASSUME CGInv, ClosesLoop
  PROVE  Pops /\ \E ins \in Instr : /\ ins.op \in Jumps /\ ins.targets = {Top.first, Top.next}
                                    /\ Grows(ins, <<>>, {})
<1>1. PICK ins \in Instr : Jump(ins, {Top.first, Top.next}) /\ blocks' = AppendCode(blocks, ins)
  BY DEF ClosesLoop
<1>2. Pops
  BY <1>1, StackMoves DEF ClosesLoop, Jump
<1>3. Appends(ins, <<>>) /\ Attaches({})
  <2>1. <<>> \in Seq(BlockType) /\ InFunction
    BY <1>1 DEF Jump
  <2> QED
    BY <1>1, <2>1, GrownBlocks
<1> QED
  BY <1>1, <1>2, <1>3 DEF Jump, Grows

LEMMA ContinuesShape ==
  ASSUME CGInv, NEW block \in BlockId, Continues(block)
  PROVE  \E ins \in Instr : /\ ins.op \in Jumps /\ ins.targets = {Top.next}
                            /\ Grows(ins, <<>>, {block})
<1>1. PICK ins \in Instr : /\ Jump(ins, {Top.next})
                           /\ blocks' = [AppendCode(blocks, ins) EXCEPT ![block].attached = TRUE]
  BY DEF Continues
<1>2. Appends(ins, <<>>) /\ Attaches({block})
  BY <1>1, JoinedBlocks DEF Jump
<1> QED
  BY <1>1, <1>2 DEF Jump, Grows

(* The frame on top, its blocks and the visits below it.                     *)
LEMMA TopOwns ==
  ASSUME CGInv, InFunction
  PROVE  /\ Len(stack) \in 1 .. Len(stack) /\ Len(stack) >= 2 /\ Top = stack[Len(stack)]
         /\ \A b \in Own(Top) : /\ b \in BlockId /\ blocks[b].fn = CurrentFunction
                                /\ blocks[b].attached <=> Top.kind = "while"
                                /\ \A k \in 1 .. Len(stack) - 1 : b \notin Own(stack[k])
         /\ Top.kind \in {"while", "then"} => Top.first # Top.next
<1>1. Len(stack) \in 1 .. Len(stack) /\ Len(stack) >= 2 /\ Top = stack[Len(stack)]
  BY Basics DEF InFunction, Top
<1>2. \A k \in 1 .. Len(stack) - 1 : k \in 1 .. Len(stack) /\ k # Len(stack)
  BY <1>1
<1> QED
  BY <1>1, <1>2 DEF CGInv, FramesInv
-----------------------------------------------------------------------------
(* The blocks there were are still there, those in `set' now attached.       *)
BlocksKept(set) ==
  /\ blocks' \in Seq(BlockType) /\ Len(blocks') >= Len(blocks)
  /\ \A b \in BlockId : blocks'[b].fn = blocks[b].fn /\ blocks'[b].label = blocks[b].label
  /\ Attaches(set)

LEMMA KeptByGrowth ==
  ASSUME CGInv, \/ UNCHANGED blocks
                \/ \E ins \in Instr, new \in Seq(BlockType) : Appends(ins, new) /\ Attaches({})
  PROVE  BlocksKept({})
<1>1. blocks \in Seq(BlockType) /\ Len(blocks) \in Nat
  BY Basics
<1>2. CASE UNCHANGED blocks
  BY <1>1, <1>2 DEF BlocksKept, Attaches
<1>3. ASSUME NEW ins \in Instr, NEW new \in Seq(BlockType), Appends(ins, new), Attaches({})
      PROVE  BlocksKept({})
  <2>1. Len(new) \in Nat
    OBVIOUS
  <2> QED
    BY <1>1, <1>3, <2>1 DEF BlocksKept, Appends
<1> QED
  BY <1>2, <1>3

(* The visits below n stay open; at most one is opened on top of them.       *)
LEMMA StackShapeKept ==
  ASSUME CGInv, NEW n \in 1 .. Len(stack), SameFrames(n), stack' \in Seq(FrameType),
         \/ Len(stack') = n
         \/ /\ Len(stack') = n + 1 /\ stack'[n + 1].kind # "unit"
            /\ stack'[n + 1].kind \in {"params", "func"} <=> n = 1,
         Len(symTable') = IF Len(stack') > 1 THEN 2 ELSE 1
  PROVE  StackShape'
<1>1. Len(stack) \in Nat
  BY Basics
<1>2. ASSUME NEW k \in 1 .. n
      PROVE  /\ stack'[k].kind = "unit" <=> k = 1
             /\ stack'[k].kind \in {"params", "func"} <=> k = 2
  <2>1. stack'[k].kind = stack[k].kind
    BY <1>2 DEF SameFrames
  <2>2. k \in 1 .. Len(stack)
    BY <1>1, <1>2
  <2> QED
    BY <2>1, <2>2 DEF CGInv, StackShape
<1>3. \A k \in 1 .. Len(stack') : k \in 1 .. n \/ (k = n + 1 /\ Len(stack') = n + 1)
  BY <1>1
<1>4. ASSUME NEW k \in 1 .. Len(stack')
      PROVE  /\ stack'[k].kind = "unit" <=> k = 1
             /\ stack'[k].kind \in {"params", "func"} <=> k = 2
  <2>1. CASE k \in 1 .. n
    BY <1>2, <2>1
  <2>2. CASE k = n + 1 /\ Len(stack') = n + 1
    BY <1>1, <2>2
  <2> QED
    BY <1>3, <2>1, <2>2
<1> QED
  BY <1>1, <1>4 DEF StackShape

(* An old visit's blocks are as they were unless its own end attaches them.  *)
LEMMA FramesKept ==
  ASSUME CGInv, UNCHANGED func, NEW n \in 1 .. Len(stack), SameFrames(n),
         stack' \in Seq(FrameType), NEW set, BlocksKept(set),
         \A k \in 1 .. n : Own(stack[k]) \cap set = {},
         \/ Len(stack') = n
         \/ /\ Len(stack') = n + 1
            /\ \A b \in Own(stack'[n + 1]) :
                 /\ b \in 1 .. Len(blocks') /\ blocks'[b].fn = CurrentFunction
                 /\ blocks'[b].attached <=> stack'[n + 1].kind = "while"
                 /\ \A k \in 1 .. n : b \notin Own(stack[k])
            /\ stack'[n + 1].kind \in {"while", "then"} => stack'[n + 1].first # stack'[n + 1].next
  PROVE  FramesInv'
<1>1. Len(stack) \in Nat /\ Len(blocks) \in Nat /\ Len(blocks') \in Nat
  BY Basics DEF BlocksKept
<1>2. CurrentFunction' = CurrentFunction /\ BlockId' = 1 .. Len(blocks')
  BY DEF CurrentFunction, BlockId
<1>3. \A k \in 1 .. n : /\ Own(stack'[k]) = Own(stack[k]) /\ k \in 1 .. Len(stack)
                        /\ stack'[k].kind = stack[k].kind
                        /\ stack'[k].first = stack[k].first /\ stack'[k].next = stack[k].next
  <2> TAKE k \in 1 .. n
  <2>1. /\ stack'[k].kind = stack[k].kind
        /\ stack'[k].first = stack[k].first /\ stack'[k].next = stack[k].next
    BY DEF SameFrames
  <2>2. k \in 1 .. Len(stack)
    BY <1>1
  <2> QED
    BY <2>1, <2>2 DEF Own
<1>4. ASSUME NEW k \in 1 .. n
      PROVE  /\ \A b \in Own(stack'[k]) :
                  /\ b \in BlockId' /\ blocks'[b].fn = CurrentFunction'
                  /\ blocks'[b].attached <=> stack'[k].kind = "while"
             /\ stack'[k].kind \in {"while", "then"} => stack'[k].first # stack'[k].next
             /\ \A l \in 1 .. n : l # k => Own(stack'[k]) \cap Own(stack'[l]) = {}
  <2>1. ASSUME NEW b \in Own(stack[k])
        PROVE  /\ b \in BlockId' /\ blocks'[b].fn = CurrentFunction'
               /\ blocks'[b].attached <=> stack[k].kind = "while"
    <3>1. /\ b \in BlockId /\ blocks[b].fn = CurrentFunction /\ b \notin set
          /\ blocks[b].attached <=> stack[k].kind = "while"
      BY <1>3, <2>1 DEF CGInv, FramesInv
    <3>2. b \in BlockId'
      BY <1>1, <1>2, <3>1 DEF BlocksKept, BlockId
    <3> QED
      BY <1>2, <3>1, <3>2 DEF BlocksKept, Attaches
  <2>2. stack[k].kind \in {"while", "then"} => stack[k].first # stack[k].next
    BY <1>3 DEF CGInv, FramesInv
  <2>3. \A l \in 1 .. n : l # k => Own(stack[k]) \cap Own(stack[l]) = {}
    BY <1>3 DEF CGInv, FramesInv
  <2> QED
    BY <1>3, <2>1, <2>2, <2>3
<1>5. \A k \in 1 .. Len(stack') : k \in 1 .. n \/ (k = n + 1 /\ Len(stack') = n + 1)
  BY <1>1
<1>6. ASSUME NEW k \in 1 .. Len(stack')
      PROVE  /\ \A b \in Own(stack'[k]) :
                  /\ b \in BlockId' /\ blocks'[b].fn = CurrentFunction'
                  /\ blocks'[b].attached <=> stack'[k].kind = "while"
             /\ stack'[k].kind \in {"while", "then"} => stack'[k].first # stack'[k].next
             /\ \A l \in 1 .. Len(stack') : l # k => Own(stack'[k]) \cap Own(stack'[l]) = {}
  <2>1. CASE k \in 1 .. n
    <3>1. ASSUME NEW l \in 1 .. Len(stack'), l # k
          PROVE  Own(stack'[k]) \cap Own(stack'[l]) = {}
      <4>1. CASE l \in 1 .. n
        BY <1>4, <2>1, <3>1, <4>1
      <4>2. CASE l = n + 1 /\ Len(stack') = n + 1
        BY <1>1, <1>3, <2>1, <4>2
      <4> QED
        BY <1>5, <4>1, <4>2
    <3> QED
      BY <1>4, <2>1, <3>1
  <2>2. CASE k = n + 1 /\ Len(stack') = n + 1
    <3>1. \A l \in 1 .. Len(stack') : l # k => l \in 1 .. n
      BY <1>1, <2>2
    <3>2. Len(stack') # n
      BY <1>1, <2>2
    <3>3. /\ \A b \in Own(stack'[k]) :
                 /\ b \in BlockId' /\ blocks'[b].fn = CurrentFunction'
                 /\ blocks'[b].attached <=> stack'[k].kind = "while"
                 /\ \A l \in 1 .. n : b \notin Own(stack[l])
          /\ stack'[k].kind \in {"while", "then"} => stack'[k].first # stack'[k].next
      BY <1>2, <2>2, <3>2
    <3> QED
      BY <1>3, <3>1, <3>3
  <2> QED
    BY <1>5, <2>1, <2>2
<1> QED
  BY <1>6 DEF FramesInv

ControlInv == /\ blocks \in Seq(BlockType) /\ insert \in 0 .. Len(blocks)
              /\ stack \in Seq(FrameType)
              /\ StackShape /\ FramesInv /\ InsertionPoint

(* A visit opened on top of n others owns blocks that are nobody else's.     *)
Opened(n) ==
  /\ Len(stack') = n + 1 /\ stack'[n + 1].kind # "unit"
  /\ stack'[n + 1].kind \in {"params", "func"} <=> n = 1
  /\ \A b \in Own(stack'[n + 1]) :
       /\ b \in 1 .. Len(blocks') /\ blocks'[b].fn = CurrentFunction
       /\ blocks'[b].attached <=> stack'[n + 1].kind = "while"
       /\ \A k \in 1 .. n : b \notin Own(stack[k])
  /\ stack'[n + 1].kind \in {"while", "then"} => stack'[n + 1].first # stack'[n + 1].next

LEMMA StayInside ==
  ASSUME CGInv, InFunction, SameScopes, NEW n \in 1 .. Len(stack), SameFrames(n),
         stack' \in Seq(FrameType), NEW set, BlocksKept(set),
         \A k \in 1 .. n : Own(stack[k]) \cap set = {},
         \/ Len(stack') = n /\ n >= 2
         \/ Opened(n),
         \/ insert' = insert
         \/ /\ insert' \in 1 .. Len(blocks')
            /\ blocks'[insert'].attached /\ blocks'[insert'].fn = CurrentFunction
  PROVE  ControlInv'
<1>1. /\ Len(stack) \in Nat /\ Len(blocks) \in Nat /\ Len(blocks') \in Nat
      /\ blocks' \in Seq(BlockType)
      /\ insert \in 1 .. Len(blocks) /\ blocks[insert].attached
      /\ blocks[insert].fn = CurrentFunction /\ Len(stack) > 1
      /\ Len(func) = 2 /\ Len(func) = Len(symTable)
  BY Basics DEF BlocksKept, InFunction
<1>2. Len(stack') > 1 /\ Len(symTable') = 2
  <2>1. Len(symTable') = 2
    BY <1>1 DEF SameScopes
  <2>2. Len(stack') >= 2
    BY <1>1 DEF Opened
  <2>3. 2 > 1
    OBVIOUS
  <2>4. Len(stack') \in Nat
    OBVIOUS
  <2> QED
    BY <2>1, <2>2, <2>4
<1>3. StackShape'
  BY <1>2, StackShapeKept DEF Opened
<1>4. FramesInv'
  BY FramesKept DEF Opened, SameScopes
<1>5. /\ insert' \in 1 .. Len(blocks') /\ blocks'[insert'].attached
      /\ blocks'[insert'].fn = CurrentFunction
  <2>1. insert \in BlockId /\ insert \in 1 .. Len(blocks')
    BY <1>1 DEF BlockId, BlocksKept
  <2> QED
    BY <1>1, <2>1 DEF BlocksKept, Attaches
<1>6. InsertionPoint'
  <2>1. CurrentFunction' = CurrentFunction
    BY DEF CurrentFunction, SameScopes
  <2> QED
    BY <1>2, <1>5, <2>1 DEF InsertionPoint, InFunction
<1> QED
  BY <1>1, <1>3, <1>4, <1>5, <1>6 DEF ControlInv

LEMMA GrowthKeeps ==
  ASSUME CGInv, NEW ins \in Instr, NEW new \in Seq(BlockType), NEW set, Grows(ins, new, set)
  PROVE  BlocksKept(set)
<1>1. Len(new) \in Nat /\ Len(blocks) \in Nat
  BY Basics
<1> QED
  BY <1>1 DEF BlocksKept, Appends, Grows

LEMMA LoopOpened ==
  ASSUME CGInv, OpensLoop
  PROVE  /\ InFunction /\ SameScopes /\ insert' = Len(blocks) + 1 /\ BlocksKept({})
         /\ \E ins \in Instr : /\ ins.op \in Jumps
                               /\ ins.targets = {Len(blocks) + 1, Len(blocks) + 2}
                               /\ Grows(ins, LoopBlocks, {})
         /\ Len(blocks') = Len(blocks) + 2
         /\ blocks'[Len(blocks) + 1] = NewBlock(CurrentFunction, "loop", TRUE)
         /\ blocks'[Len(blocks) + 2] = NewBlock(CurrentFunction, "afterloop", TRUE)
         /\ \E fr \in FrameType : /\ fr.kind = "while" /\ fr.first = Len(blocks) + 1
                                  /\ fr.next = Len(blocks) + 2 /\ Pushes(fr)
<1>1. PICK ins \in Instr : /\ ins.op \in Jumps
                           /\ ins.targets = {Len(blocks) + 1, Len(blocks) + 2}
                           /\ Grows(ins, LoopBlocks, {})
  BY OpensLoopShape
<1>2. InFunction /\ SameScopes /\ insert' = Len(blocks) + 1 /\ Here = CurrentFunction
  BY <1>1, OpensLoopShape DEF Grows, OpensLoop
<1>3. LoopBlocks \in Seq(BlockType)
  <2>1. Here \in Function
    BY <1>2, Basics
  <2>2. NewBlock(Here, "loop", TRUE) \in BlockType /\ NewBlock(Here, "afterloop", TRUE) \in BlockType
    BY <2>1, NewBlocksTyped DEF Label
  <2> QED
    BY <2>2, ShortLists DEF LoopBlocks
<1>4. BlocksKept({})
  BY <1>1, <1>3, GrowthKeeps
<1>5. /\ Len(LoopBlocks) = 2
      /\ LoopBlocks[1] = NewBlock(CurrentFunction, "loop", TRUE)
      /\ LoopBlocks[2] = NewBlock(CurrentFunction, "afterloop", TRUE)
  BY <1>2 DEF LoopBlocks
<1>6. Len(blocks') = Len(blocks) + 2 /\ \A i \in 1 .. 2 : blocks'[Len(blocks) + i] = LoopBlocks[i]
  BY <1>1, <1>5 DEF Grows, Appends
<1>7. 1 \in 1 .. 2 /\ 2 \in 1 .. 2
  OBVIOUS
<1> QED
  BY <1>1, <1>2, <1>4, <1>5, <1>6, <1>7, OpensLoopShape

LEMMA IfOpened ==
  ASSUME CGInv, OpensIf
  PROVE  /\ InFunction /\ SameScopes /\ insert' = Len(blocks) + 1 /\ BlocksKept({})
         /\ \E ins \in Instr : /\ ins.op \in Jumps
                               /\ ins.targets = {Len(blocks) + 1, Len(blocks) + 2}
                               /\ Grows(ins, IfBlocks, {})
         /\ Len(blocks') = Len(blocks) + 3
         /\ blocks'[Len(blocks) + 1] = NewBlock(CurrentFunction, "then", TRUE)
         /\ blocks'[Len(blocks) + 2] = NewBlock(CurrentFunction, "else", FALSE)
         /\ blocks'[Len(blocks) + 3] = NewBlock(CurrentFunction, "merge", FALSE)
         /\ \E fr \in FrameType : /\ fr.kind = "then" /\ fr.first = Len(blocks) + 2
                                  /\ fr.next = Len(blocks) + 3 /\ Pushes(fr)
<1>1. PICK ins \in Instr : /\ ins.op \in Jumps
                           /\ ins.targets = {Len(blocks) + 1, Len(blocks) + 2}
                           /\ Grows(ins, IfBlocks, {})
  BY OpensIfShape
<1>2. InFunction /\ SameScopes /\ insert' = Len(blocks) + 1 /\ Here = CurrentFunction
  BY <1>1, OpensIfShape DEF Grows, OpensIf
<1>3. IfBlocks \in Seq(BlockType)
  <2>1. Here \in Function
    BY <1>2, Basics
  <2>2. /\ NewBlock(Here, "then", TRUE) \in BlockType /\ NewBlock(Here, "else", FALSE) \in BlockType
        /\ NewBlock(Here, "merge", FALSE) \in BlockType
    BY <2>1, NewBlocksTyped DEF Label
  <2> QED
    BY <2>2, ShortLists DEF IfBlocks
<1>4. BlocksKept({})
  BY <1>1, <1>3, GrowthKeeps
<1>5. /\ Len(IfBlocks) = 3
      /\ IfBlocks[1] = NewBlock(CurrentFunction, "then", TRUE)
      /\ IfBlocks[2] = NewBlock(CurrentFunction, "else", FALSE)
      /\ IfBlocks[3] = NewBlock(CurrentFunction, "merge", FALSE)
  BY <1>2 DEF IfBlocks
<1>6. Len(blocks') = Len(blocks) + 3 /\ \A i \in 1 .. 3 : blocks'[Len(blocks) + i] = IfBlocks[i]
  BY <1>1, <1>5 DEF Grows, Appends
<1>7. 1 \in 1 .. 3 /\ 2 \in 1 .. 3 /\ 3 \in 1 .. 3
  OBVIOUS
<1> QED
  BY <1>1, <1>2, <1>4, <1>5, <1>6, <1>7, OpensIfShape

LEMMA FunctionEntered ==
  ASSUME CGInv, NEW f \in Function, blocks' = Append(blocks, NewBlock(f, "entry", TRUE))
  PROVE  /\ BlocksKept({}) /\ Len(blocks') = Len(blocks) + 1
         /\ \A b \in BlockId : blocks'[b] = blocks[b]
         /\ blocks'[Len(blocks) + 1] = NewBlock(f, "entry", TRUE)
<1> DEFINE new == NewBlock(f, "entry", TRUE)
<1>1. blocks \in Seq(BlockType) /\ Len(blocks) \in Nat
  BY Basics
<1>2. new \in BlockType /\ blocks' = Append(blocks, new)
  BY NewBlocksTyped DEF Label
<1> HIDE DEF new
<1> DEFINE bs == Append(blocks, new)
<1>3. /\ bs \in Seq(BlockType) /\ Len(bs) = Len(blocks) + 1
      /\ \A b \in 1 .. Len(blocks) : bs[b] = blocks[b]
      /\ bs[Len(blocks) + 1] = new
  BY <1>1, <1>2
<1>4. blocks' = bs
  BY <1>2
<1> HIDE DEF bs
<1>5. \A b \in BlockId : blocks'[b] = blocks[b]
  BY <1>3, <1>4 DEF BlockId
<1>6. BlocksKept({})
  <2>1. Len(blocks') >= Len(blocks)
    BY <1>1, <1>3, <1>4
  <2> QED
    BY <1>3, <1>4, <1>5, <2>1 DEF BlocksKept, Attaches
<1> QED
  BY <1>3, <1>4, <1>5, <1>6 DEF new

(* At the two ends of a function no visit owns a block.                      *)
LEMMA ControlAtEnds ==
  ASSUME CGInv, Enters \/ Leaves
  PROVE  ControlInv'
<1>1. /\ blocks \in Seq(BlockType) /\ stack \in Seq(FrameType) /\ Len(blocks) \in Nat
      /\ Len(stack) \in Nat /\ Len(stack) >= 1 /\ insert \in 0 .. Len(blocks)
      /\ Top = stack[Len(stack)] /\ Len(stack) \in 1 .. Len(stack)
      /\ func \in Seq(Owner) /\ Len(func) = Len(symTable) /\ Len(func) \in Nat
      /\ Len(symTable) = IF Len(stack) > 1 THEN 2 ELSE 1
      /\ stack[1].kind = "unit"
  <2>1. /\ blocks \in Seq(BlockType) /\ stack \in Seq(FrameType) /\ Len(blocks) \in Nat
        /\ Len(stack) \in Nat /\ Len(stack) >= 1 /\ Len(func) = Len(symTable)
    BY Basics
  <2>2. insert \in 0 .. Len(blocks) /\ func \in Seq(Owner)
    BY DEF CGInv, CGTypeOK, CMInv, CMTypeOK
  <2>3. 1 \in 1 .. Len(stack) /\ Len(stack) \in 1 .. Len(stack)
    BY <2>1
  <2> QED
    BY <2>1, <2>2, <2>3 DEF CGInv, StackShape, Top
<1>2. CASE Enters
  <2>1. PICK f \in Function :
          /\ blocks' = Append(blocks, NewBlock(f, "entry", TRUE))
          /\ insert' = Len(blocks) + 1
          /\ stack' = Append(stack, Frame("params", FALSE, 0, 0, <<>>))
          /\ func' = Append(func, f) /\ Len(symTable') = Len(symTable) + 1
    BY <1>2 DEF Enters
  <2>2. Len(stack) = 1 /\ Len(symTable) = 1
    <3>1. stack[Len(stack)].kind = "unit"
      BY <1>2 DEF Enters, Top
    <3>2. Len(stack) \in 1 .. Len(stack) /\ StackShape
      BY <1>1 DEF CGInv
    <3> QED
      BY <3>1, <3>2 DEF StackShape
  <2> DEFINE new == NewBlock(f, "entry", TRUE)
             fr == Frame("params", FALSE, 0, 0, <<>>)
  <2>3. new \in BlockType /\ new.attached = TRUE /\ new.fn = f
    BY NewBlocksTyped DEF NewBlock, Label
  <2>4. fr \in FrameType /\ fr.kind = "params"
    <3>1. 0 \in 0 .. MaxBlocks /\ <<>> \in Seq(Leaf)
      BY CodeGenAssumption
    <3> QED
      BY <3>1 DEF Frame, FrameType
  <2>5. /\ Pushes(fr) /\ blocks' \in Seq(BlockType) /\ Len(blocks') = Len(blocks) + 1
        /\ blocks'[Len(blocks) + 1] = new
    <3>1. Pushes(fr)
      BY <2>1, <2>4, StackMoves
    <3> QED
      BY <2>1, <3>1, FunctionEntered DEF BlocksKept
  <2> HIDE DEF new, fr
  <2>6. /\ stack' \in Seq(FrameType) /\ Len(stack') = 2
        /\ stack'[1].kind = "unit" /\ stack'[2].kind = "params"
    BY <1>1, <2>2, <2>4, <2>5 DEF Pushes, SameFrames
  <2>7. StackShape' /\ FramesInv'
    <3>1. \A k \in 1 .. Len(stack') : k = 1 \/ k = 2
      BY <2>6
    <3>2. Len(stack') >= 1 /\ Len(symTable') = 2 /\ Len(stack') > 1
      BY <2>1, <2>2, <2>6
    <3>3. \A k \in 1 .. Len(stack') : /\ stack'[k].kind = "unit" <=> k = 1
                                      /\ stack'[k].kind \in {"params", "func"} <=> k = 2
      BY <2>6, <3>1
    <3>4. StackShape'
      BY <3>2, <3>3 DEF StackShape
    <3>5. FramesInv'
      BY <2>6, <3>1 DEF FramesInv, Own
    <3> QED
      BY <3>4, <3>5
  <2>8. func'[Len(func')] = f
    BY <1>1, <2>1
  <2>9. /\ insert' \in 0 .. Len(blocks') /\ insert' # 0
        /\ blocks'[insert'].attached /\ blocks'[insert'].fn = CurrentFunction'
    <3>1. insert' = Len(blocks) + 1 /\ insert' \in 0 .. Len(blocks') /\ insert' # 0
      BY <1>1, <2>1, <2>5
    <3>2. blocks'[insert'] = new
      BY <2>5, <3>1
    <3>3. CurrentFunction' = f
      BY <2>8 DEF CurrentFunction
    <3> QED
      BY <2>3, <3>1, <3>2, <3>3
  <2>10. InsertionPoint'
    <3>1. Len(stack') > 1 /\ Len(symTable') > 1
      BY <2>1, <2>2, <2>6
    <3> QED
      BY <2>9, <3>1 DEF InsertionPoint, InFunction
  <2> QED
    BY <2>5, <2>6, <2>7, <2>9, <2>10 DEF ControlInv
<1>3. CASE Leaves
  <2>1. Len(stack) = 2 /\ Len(symTable) = 2 /\ InFunction
    BY <1>1, <1>3 DEF Leaves, CGInv, StackShape, InFunction
  <2>2. Pops
    BY <1>3, <2>1, StackMoves DEF Leaves
  <2>3. stack' \in Seq(FrameType) /\ Len(stack') = 1 /\ stack'[1].kind = "unit"
    BY <1>1, <2>1, <2>2 DEF Pops, SameFrames
  <2>4. UNCHANGED <<blocks, insert>> /\ Len(symTable') = 1
    BY <1>3, <2>1 DEF Leaves
  <2>5. \A k \in 1 .. Len(stack') : k = 1
    BY <2>3
  <2>6. StackShape'
    BY <2>3, <2>4, <2>5 DEF StackShape
  <2>7. FramesInv'
    BY <2>3, <2>5 DEF FramesInv, Own
  <2>8. InsertionPoint'
    BY <2>3, <2>4 DEF InsertionPoint, InFunction
  <2> QED
    BY <1>1, <2>3, <2>4, <2>6, <2>7, <2>8 DEF ControlInv
<1> QED
  BY <1>2, <1>3

(* An if's block is attached and made the insertion point.                   *)
LEMMA BranchEnded ==
  ASSUME CGInv, NEW block \in Own(Top), Continues(block), Top.kind \in {"then", "else"}
  PROVE  /\ InFunction /\ SameScopes /\ BlocksKept({block}) /\ block \in BlockId
         /\ insert' = block /\ Len(blocks') = Len(blocks)
         /\ insert' \in 1 .. Len(blocks') /\ blocks'[insert'].attached
         /\ blocks'[insert'].fn = CurrentFunction
         /\ \A k \in 1 .. Len(stack) - 1 : Own(stack[k]) \cap {block} = {}
<1>0. Len(blocks) \in Nat
  BY Basics
<1>1. InFunction /\ SameScopes /\ insert' = block
  BY Basics DEF Continues
<1>2. /\ block \in BlockId /\ blocks[block].fn = CurrentFunction
      /\ \A k \in 1 .. Len(stack) - 1 : Own(stack[k]) \cap {block} = {}
  BY <1>1, TopOwns
<1>3. BlocksKept({block}) /\ Len(blocks') = Len(blocks)
  <2>1. <<>> \in Seq(BlockType) /\ Len(<<>>) = 0
    OBVIOUS
  <2>2. \E ins \in Instr : Grows(ins, <<>>, {block})
    BY <1>2, ContinuesShape
  <2> QED
    <3>1. BlocksKept({block})
      BY <2>1, <2>2, GrowthKeeps
    <3>2. Len(blocks') = Len(blocks) + Len(<<>>)
      BY <2>2 DEF Grows, Appends
    <3> QED
      BY <1>0, <2>1, <3>1, <3>2
<1>4. block \in 1 .. Len(blocks') /\ blocks'[block].attached /\ blocks'[block].fn = CurrentFunction
  BY <1>0, <1>2, <1>3 DEF BlocksKept, Attaches, BlockId
<1> QED
  BY <1>1, <1>2, <1>3, <1>4

LEMMA ThenEnded ==
  ASSUME CGInv, EndsThen
  PROVE  /\ Top.kind = "then" /\ Own(Top) = {Top.first, Top.next} /\ Continues(Top.first)
         /\ \E fr \in FrameType : fr.kind = "else" /\ fr.next = Top.next /\ Swaps(fr)
<1>1. Top.kind = "then" /\ Continues(Top.first) /\ InFunction
  BY Basics DEF EndsThen
<1>2. PICK hasElse \in BOOLEAN : stack' = Append(Pop, Frame("else", hasElse, 0, Top.next, <<>>))
  BY DEF EndsThen
<1> DEFINE fr == Frame("else", hasElse, 0, Top.next, <<>>)
<1>3. fr \in FrameType /\ fr.kind = "else" /\ fr.next = Top.next
  <2>1. Top.next \in 0 .. MaxBlocks /\ 0 \in 0 .. MaxBlocks /\ <<>> \in Seq(Leaf)
    BY Basics, CodeGenAssumption DEF FrameType
  <2> QED
    BY <2>1 DEF Frame, FrameType
<1> HIDE DEF fr
<1>4. Swaps(fr)
  BY <1>1, <1>2, <1>3, StackMoves DEF fr
<1> QED
  BY <1>1, <1>3, <1>4 DEF Own

LEMMA ControlSame ==
  ASSUME CGInv, Elsewhere
  PROVE  ControlInv'
<1>1. /\ ControlInv /\ UNCHANGED <<blocks, insert, stack, func>>
      /\ Len(symTable') = Len(symTable)
  BY DEF CGInv, CGTypeOK, BlockType, FrameType, ControlInv, Elsewhere, SameScopes
<1>2. StackShape'
  BY <1>1 DEF StackShape, ControlInv
<1>3. FramesInv'
  <2>1. CurrentFunction' = CurrentFunction /\ BlockId' = BlockId
    BY <1>1 DEF CurrentFunction, BlockId
  <2> QED
    BY <1>1, <2>1 DEF FramesInv, ControlInv
<1>4. InsertionPoint'
  BY <1>1 DEF InsertionPoint, InFunction, CurrentFunction, ControlInv
<1> QED
  BY <1>1, <1>2, <1>3, <1>4 DEF ControlInv

LEMMA ControlNext ==
  ASSUME CGInv, Effect
  PROVE  ControlInv'
<1>0. Len(stack) \in Nat /\ Len(blocks) \in Nat /\ Len(stack) >= 1
  BY Basics
<1>1. ASSUME InFunction
      PROVE  Len(stack) \in 1 .. Len(stack) /\ Len(stack) >= 2 /\ Len(stack) # 1
  <2>1. Len(stack) \in 1 .. Len(stack) /\ Len(stack) >= 2
    BY <1>1, TopOwns
  <2>2. \A m \in Nat : m >= 2 => m # 1
    OBVIOUS
  <2> QED
    BY <1>0, <2>1, <2>2
<1>2. ASSUME InFunction, Top.kind \notin {"params", "func"}
      PROVE  Len(stack) - 1 \in 1 .. Len(stack) /\ Len(stack) - 1 >= 2
  <2>1. Len(stack) # 2
    BY <1>1, <1>2 DEF Top, CGInv, StackShape
  <2>2. \A m \in Nat : m >= 2 /\ m # 2 => m - 1 \in 1 .. m /\ m - 1 >= 2
    OBVIOUS
  <2> QED
    BY <1>0, <1>1, <1>2, <2>1, <2>2
<1>3. \A s : s \cap {} = {}
  OBVIOUS
<1>4. UNCHANGED blocks => BlocksKept({})
  BY KeptByGrowth
<1>5. CASE Elsewhere
  BY <1>5, ControlSame
<1>6. CASE Writes
  <2>1. Keeps /\ \E ins \in Instr : Grows(ins, <<>>, {})
    BY <1>6, WritesShape
  <2>2. BlocksKept({}) /\ InFunction /\ SameScopes /\ insert' = insert
    <3>1. <<>> \in Seq(BlockType)
      OBVIOUS
    <3> QED
      BY <1>6, <2>1, <3>1, GrowthKeeps DEF Writes, Grows
  <2> QED
    BY <1>1, <1>3, <2>1, <2>2, StayInside DEF Keeps
<1>7. CASE Moves
  <2>1. /\ InFunction /\ SameScopes /\ BlocksKept({}) /\ insert' = insert
    BY <1>4, <1>7, MovesShape DEF Moves
  <2>2. CASE Keeps
    BY <1>1, <1>3, <2>1, <2>2, StayInside DEF Keeps
  <2>3. CASE Pushes(Frame("block", TRUE, 0, 0, <<>>))
    <3>1. Frame("block", TRUE, 0, 0, <<>>).kind = "block"
      BY DEF Frame
    <3>2. Len(stack) # 1
      BY <1>1, <2>1
    <3>3. /\ Len(stack') = Len(stack) + 1 /\ stack'[Len(stack) + 1].kind = "block"
          /\ SameFrames(Len(stack)) /\ stack' \in Seq(FrameType)
      BY <2>3, <3>1 DEF Pushes
    <3>4. Opened(Len(stack))
      BY <3>2, <3>3 DEF Opened, Own
    <3> QED
      BY <1>1, <1>3, <2>1, <3>3, <3>4, StayInside
  <2>4. CASE Top.kind = "block" /\ Pops
    BY <1>2, <1>3, <2>1, <2>4, StayInside DEF Pops
  <2>5. CASE Top.kind = "params" /\ Swaps(Frame("func", TRUE, 0, 0, <<>>))
    <3>1. Frame("func", TRUE, 0, 0, <<>>).kind = "func"
      BY DEF Frame
    <3>2. Len(stack) = 2
      BY <1>1, <2>1, <2>5 DEF Top, CGInv, StackShape
    <3>3. /\ Len(stack') = 1 + 1 /\ stack'[1 + 1].kind = "func"
          /\ SameFrames(1) /\ stack' \in Seq(FrameType)
      <4>1. Len(stack) - 1 = 1 /\ 1 + 1 = Len(stack)
        BY <3>2
      <4> QED
        BY <2>5, <3>1, <4>1 DEF Swaps
    <3>4. Opened(1)
      BY <3>3 DEF Opened, Own
    <3>5. 1 \in 1 .. Len(stack)
      BY <3>2
    <3> QED
      BY <1>3, <2>1, <3>3, <3>4, <3>5, StayInside
  <2> QED
    BY <1>7, <2>2, <2>3, <2>4, <2>5, MovesShape
<1>8. CASE Enters \/ Leaves
  BY <1>8, ControlAtEnds
<1>9. CASE OpensLoop
  <2>1. PICK fr \in FrameType : /\ fr.kind = "while" /\ fr.first = Len(blocks) + 1
                                /\ fr.next = Len(blocks) + 2 /\ Pushes(fr)
    BY <1>9, LoopOpened
  <2>2. InFunction /\ SameScopes /\ insert' = Len(blocks) + 1 /\ BlocksKept({})
    BY <1>9, LoopOpened
  <2>3. /\ Len(blocks') = Len(blocks) + 2
        /\ \A b \in {Len(blocks) + 1, Len(blocks) + 2} :
             /\ blocks'[b].fn = CurrentFunction /\ blocks'[b].attached = TRUE
    BY <1>9, LoopOpened DEF NewBlock
  <2>4. Opened(Len(stack))
    <3>1. \A k \in 1 .. Len(stack) : Own(stack[k]) \subseteq 1 .. Len(blocks)
      BY DEF CGInv, FramesInv, BlockId
    <3>2. Own(fr) = {Len(blocks) + 1, Len(blocks) + 2} /\ fr.first # fr.next
      BY <1>0, <2>1 DEF Own
    <3>3. stack'[Len(stack) + 1] = fr /\ Len(stack') = Len(stack) + 1 /\ Len(stack) # 1
      BY <1>1, <2>1, <2>2 DEF Pushes
    <3>4. \A b \in Own(fr) : b \in 1 .. Len(blocks') /\ \A k \in 1 .. Len(stack) : b \notin Own(stack[k])
      BY <1>0, <2>3, <3>1, <3>2
    <3> QED
      BY <2>1, <2>3, <3>2, <3>3, <3>4 DEF Opened
  <2>5. insert' \in 1 .. Len(blocks') /\ blocks'[insert'].attached /\ blocks'[insert'].fn = CurrentFunction
    BY <1>0, <2>2, <2>3
  <2> QED
    BY <1>1, <1>3, <2>1, <2>2, <2>4, <2>5, StayInside DEF Pushes
<1>10. CASE ClosesLoop
  <2>1. Pops /\ \E ins \in Instr : Grows(ins, <<>>, {})
    BY <1>10, ClosesLoopShape
  <2>2. /\ InFunction /\ SameScopes /\ insert' = Top.next /\ Top.kind = "while"
    BY <1>10, <2>1 DEF Grows, ClosesLoop
  <2>3. BlocksKept({})
    <3>1. <<>> \in Seq(BlockType)
      OBVIOUS
    <3> QED
      BY <2>1, <3>1, GrowthKeeps
  <2>4. insert' \in 1 .. Len(blocks') /\ blocks'[insert'].attached /\ blocks'[insert'].fn = CurrentFunction
    <3>1. Top.next \in Own(Top)
      BY <2>2 DEF Own
    <3>2. Top.next \in BlockId /\ blocks[Top.next].attached /\ blocks[Top.next].fn = CurrentFunction
      BY <2>2, <3>1, TopOwns
    <3>3. Top.next \in 1 .. Len(blocks')
      BY <1>0, <2>3, <3>2 DEF BlockId, BlocksKept
    <3> QED
      BY <2>2, <2>3, <3>2, <3>3 DEF BlocksKept, Attaches
  <2> QED
    BY <1>2, <1>3, <2>1, <2>2, <2>3, <2>4, StayInside DEF Pops
<1>11. CASE OpensIf
  <2>1. PICK fr \in FrameType : /\ fr.kind = "then" /\ fr.first = Len(blocks) + 2
                                /\ fr.next = Len(blocks) + 3 /\ Pushes(fr)
    BY <1>11, IfOpened
  <2>2. InFunction /\ SameScopes /\ insert' = Len(blocks) + 1 /\ BlocksKept({})
    BY <1>11, IfOpened
  <2>3. /\ Len(blocks') = Len(blocks) + 3
        /\ blocks'[Len(blocks) + 1].fn = CurrentFunction /\ blocks'[Len(blocks) + 1].attached = TRUE
        /\ \A b \in {Len(blocks) + 2, Len(blocks) + 3} :
             /\ blocks'[b].fn = CurrentFunction /\ blocks'[b].attached = FALSE
    BY <1>11, IfOpened DEF NewBlock
  <2>4. Opened(Len(stack))
    <3>1. \A k \in 1 .. Len(stack) : Own(stack[k]) \subseteq 1 .. Len(blocks)
      BY DEF CGInv, FramesInv, BlockId
    <3>2. Own(fr) = {Len(blocks) + 2, Len(blocks) + 3} /\ fr.first # fr.next
      BY <1>0, <2>1 DEF Own
    <3>3. stack'[Len(stack) + 1] = fr /\ Len(stack') = Len(stack) + 1 /\ Len(stack) # 1
      BY <1>1, <2>1, <2>2 DEF Pushes
    <3>4. \A b \in Own(fr) : b \in 1 .. Len(blocks') /\ \A k \in 1 .. Len(stack) : b \notin Own(stack[k])
      BY <1>0, <2>3, <3>1, <3>2
    <3> QED
      BY <2>1, <2>3, <3>2, <3>3, <3>4 DEF Opened
  <2>5. insert' \in 1 .. Len(blocks') /\ blocks'[insert'].attached /\ blocks'[insert'].fn = CurrentFunction
    BY <1>0, <2>2, <2>3
  <2> QED
    BY <1>1, <1>3, <2>1, <2>2, <2>4, <2>5, StayInside DEF Pushes
<1>12. CASE EndsThen
  <2>1. Top.kind = "then" /\ Top.first \in Own(Top) /\ Top.next \in Own(Top) /\ Continues(Top.first)
    BY <1>12, ThenEnded
  <2>2. /\ InFunction /\ SameScopes /\ BlocksKept({Top.first})
        /\ insert' \in 1 .. Len(blocks') /\ blocks'[insert'].attached
        /\ blocks'[insert'].fn = CurrentFunction
        /\ \A k \in 1 .. Len(stack) - 1 : Own(stack[k]) \cap {Top.first} = {}
    BY <2>1, BranchEnded
  <2>3. PICK fr \in FrameType : fr.kind = "else" /\ fr.next = Top.next /\ Swaps(fr)
    BY <1>12, ThenEnded
  <2>4. /\ Len(stack) - 1 \in 1 .. Len(stack) /\ Len(stack) - 1 >= 2
        /\ stack'[Len(stack)] = fr /\ Len(stack') = Len(stack)
        /\ SameFrames(Len(stack) - 1) /\ stack' \in Seq(FrameType)
    BY <1>2, <2>1, <2>2, <2>3 DEF Swaps
  <2>5. /\ Top.next \in BlockId /\ blocks[Top.next].fn = CurrentFunction
        /\ ~blocks[Top.next].attached /\ Top.first # Top.next
        /\ \A k \in 1 .. Len(stack) - 1 : Top.next \notin Own(stack[k])
    BY <2>1, <2>2, TopOwns
  <2>6. /\ Top.next \in 1 .. Len(blocks') /\ blocks'[Top.next].fn = CurrentFunction
        /\ ~blocks'[Top.next].attached
    <3>1. Top.next \in 1 .. Len(blocks')
      BY <1>0, <2>2, <2>5 DEF BlocksKept, BlockId
    <3> QED
      BY <2>2, <2>5, <3>1 DEF BlocksKept, Attaches
  <2>7. Opened(Len(stack) - 1)
    <3>1. Len(stack) - 1 + 1 = Len(stack) /\ Len(stack) - 1 # 1
      BY <1>0, <2>4
    <3>2. Own(fr) = {Top.next}
      BY <2>3 DEF Own
    <3> QED
      BY <2>3, <2>4, <2>5, <2>6, <3>1, <3>2 DEF Opened
  <2> QED
    BY <2>2, <2>4, <2>7, StayInside
<1>13. CASE EndsElse
  <2>1. Top.kind = "else" /\ Top.next \in Own(Top) /\ Continues(Top.next) /\ stack' = Pop
    BY <1>13 DEF EndsElse, Own
  <2>2. /\ InFunction /\ SameScopes /\ BlocksKept({Top.next})
        /\ insert' \in 1 .. Len(blocks') /\ blocks'[insert'].attached
        /\ blocks'[insert'].fn = CurrentFunction
        /\ \A k \in 1 .. Len(stack) - 1 : Own(stack[k]) \cap {Top.next} = {}
    BY <2>1, BranchEnded
  <2>3. Pops
    BY <2>1, <2>2, StackMoves
  <2> QED
    BY <1>2, <2>1, <2>2, <2>3, StayInside DEF Pops
<1> QED
  BY <1>5, <1>6, <1>7, <1>8, <1>9, <1>10, <1>11, <1>12, <1>13 DEF Effect
-----------------------------------------------------------------------------
(* The tables by name: what they hold, and that an entry once made stays.    *)
TablesInv ==
  /\ constants \in [Name -> StorageId \cup {Unbound}]
  /\ symbols \in [Name -> {"free", "variable"} \cup Function]
  /\ fnName \in [Function -> Name \cup {Unbound}]
  /\ status \in {"running", "done", "uncaught", "rejected"}
  /\ NamesInv
TablesGrow ==
  /\ \A n \in Name : /\ constants[n] # Unbound => constants'[n] # Unbound
                     /\ symbols[n] # "free" => symbols'[n] = symbols[n]
  /\ \A f \in Function : fnName[f] # Unbound => fnName'[f] = fnName[f]

LEMMA ClaimEffect ==
  ASSUME CGInv, NEW n \in Name, NEW who \in {"variable"} \cup Function, Claim(n, who)
  PROVE  /\ symbols' \in [Name -> {"free", "variable"} \cup Function]
         /\ \A m \in Name : \/ symbols'[m] = symbols[m]
                            \/ /\ symbols[m] = "free" /\ symbols'[m] = who
                               /\ m \in {n} \cup Suffixed[n]
<1>1. symbols \in [Name -> {"free", "variable"} \cup Function] /\ Suffixed[n] \subseteq Name
  BY CodeGenAssumption DEF CGInv, CGTypeOK
<1>2. CASE symbols[n] = "free" /\ symbols' = [symbols EXCEPT ![n] = who]
  BY <1>1, <1>2
<1>3. CASE UNCHANGED symbols
  BY <1>1, <1>3
<1>4. ASSUME NEW m \in Suffixed[n], symbols[m] = "free", symbols' = [symbols EXCEPT ![m] = who]
      PROVE  /\ symbols' \in [Name -> {"free", "variable"} \cup Function]
             /\ \A k \in Name : \/ symbols'[k] = symbols[k]
                                \/ /\ symbols[k] = "free" /\ symbols'[k] = who
                                   /\ k \in {n} \cup Suffixed[n]
  BY <1>1, <1>4
<1> QED
  BY <1>2, <1>3, <1>4 DEF Claim

LEMMA TablesNext ==
  ASSUME CGInv, [CGNext]_vars
  PROVE  TablesInv' /\ TablesGrow
<1>0. TablesInv
  BY DEF CGInv, CGTypeOK, TablesInv
<1>1. ASSUME UNCHANGED <<constants, symbols, fnName>>,
             status' \in {status, "done", "uncaught", "rejected"}
      PROVE  TablesInv' /\ TablesGrow
  BY <1>0, <1>1 DEF TablesInv, TablesGrow, NamesInv, Alias
<1>2. ASSUME NEW how \in {"uncaught", "rejected"}, Die(how)
      PROVE  TablesInv' /\ TablesGrow
  BY <1>1, <1>2 DEF Die
<1>3. ASSUME NEW n \in Name, ClaimIfGlobal(n), UNCHANGED <<fnName, status>>,
             \/ constants' = constants
             \/ Len(storage) + 1 \in StorageId /\ constants' = [constants EXCEPT ![n] = Len(storage) + 1]
      PROVE  TablesInv' /\ TablesGrow
  <2>1. /\ symbols' \in [Name -> {"free", "variable"} \cup Function]
        /\ \A m \in Name : \/ symbols'[m] = symbols[m]
                           \/ symbols[m] = "free" /\ symbols'[m] = "variable"
    BY <1>0, <1>3, ClaimEffect DEF ClaimIfGlobal, TablesInv
  <2>2. /\ constants' \in [Name -> StorageId \cup {Unbound}]
        /\ \A m \in Name : constants[m] # Unbound => constants'[m] # Unbound
    BY <1>0, <1>3, CodeGenAssumption DEF TablesInv
  <2>3. NamesInv'
    BY <1>0, <1>3, <2>1, CodeGenAssumption DEF NamesInv, TablesInv, Alias
  <2>4. \A m \in Name : symbols[m] # "free" => symbols'[m] = symbols[m]
    BY <2>1
  <2> QED
    BY <1>0, <1>3, <2>1, <2>2, <2>3, <2>4 DEF TablesInv, TablesGrow
<1>4. ASSUME NEW n \in Name, Declared(n) PROVE TablesInv' /\ TablesGrow
  BY <1>3, <1>4 DEF Declared
<1>5. ASSUME NEW n \in Name, NEW e \in Exprs, visitConstDef(n, e) PROVE TablesInv' /\ TablesGrow
  <2>1. CASE Die("uncaught")
    BY <1>2, <2>1
  <2>2. CASE ~Die("uncaught")
    <3>1. Len(storage) < MaxStorage
      BY <1>5, <2>2 DEF visitConstDef, defConstant, Bind
    <3>2. Len(storage) + 1 \in StorageId
      <4>1. Len(storage) \in Nat
        BY DEF CGInv, CMInv, CMTypeOK
      <4> QED
        BY <3>1, <4>1, ContextAssumption DEF StorageId
    <3> QED
      BY <1>3, <1>5, <2>2, <3>2 DEF visitConstDef, NewStorage
  <2> QED
    BY <2>1, <2>2
<1>6. CASE Declaration
  <2>1. ASSUME NEW n \in Name, visitScalar(n) PROVE TablesInv' /\ TablesGrow
    BY <1>4, <2>1 DEF visitScalar
  <2>2. ASSUME NEW n \in Name, NEW e \in Exprs, visitScalarInit(n, e) \/ visitArray(n, e)
        PROVE  TablesInv' /\ TablesGrow
    BY <1>2, <1>4, <2>2 DEF visitScalarInit, visitArray
  <2>3. ASSUME NEW n \in Name, NEW e \in Exprs, NEW size \in Exprs, NEW fits \in BOOLEAN,
               visitArrayInit(n, size, e, fits)
        PROVE  TablesInv' /\ TablesGrow
    BY <1>2, <1>4, <2>3 DEF visitArrayInit
  <2> QED
    BY <1>5, <1>6, <2>1, <2>2, <2>3 DEF Declaration
<1>7. ASSUME NEW f \in Function, NEW n \in Name, Create(f, n), UNCHANGED <<constants, status>>
      PROVE  TablesInv' /\ TablesGrow
  <2>1. /\ symbols' \in [Name -> {"free", "variable"} \cup Function]
        /\ \A m \in Name : \/ symbols'[m] = symbols[m]
                           \/ m \in {n} \cup Suffixed[n] /\ symbols'[m] = f
        /\ \A m \in Name : symbols'[m] # symbols[m] => symbols[m] = "free"
    BY <1>7, ClaimEffect DEF Create
  <2>2. /\ fnName' \in [Function -> Name \cup {Unbound}] /\ fnName'[f] = n
        /\ fnName[f] = Unbound /\ \A g \in Function : g # f => fnName'[g] = fnName[g]
    BY <1>0, <1>7 DEF Create, TablesInv
  <2>3. NamesInv'
    <3> SUFFICES ASSUME NEW m \in Name, NEW g \in Function, symbols'[m] = g
                 PROVE  Alias(g, m)'
      BY DEF NamesInv
    <3>1. CASE symbols'[m] = symbols[m]
      <4>1. Alias(g, m) /\ fnName[g] # Unbound
        BY <1>0, <3>1, CodeGenAssumption DEF TablesInv, NamesInv, Alias
      <4> QED
        BY <2>2, <4>1 DEF Alias
    <3>2. CASE m \in {n} \cup Suffixed[n] /\ symbols'[m] = f
      BY <2>2, <3>2 DEF Alias
    <3> QED
      BY <2>1, <3>1, <3>2
  <2> QED
    BY <1>0, <1>7, <2>1, <2>2, <2>3 DEF TablesInv, TablesGrow
<1>8. CASE FunctionNode
  <2>1. ASSUME NEW f \in Function, NEW n \in Name, visitExtFunc(f, n) \/ beginFuncDef(f, n)
        PROVE  TablesInv' /\ TablesGrow
    BY <1>7, <2>1 DEF visitExtFunc, beginFuncDef
  <2>2. ASSUME NEW n \in Name, NEW isArray \in BOOLEAN, visitParam(n, isArray)
        PROVE  TablesInv' /\ TablesGrow
    BY <1>1, <2>2 DEF visitParam
  <2>3. CASE beginBody \/ endFuncDef
    BY <1>1, <2>3 DEF beginBody, endFuncDef
  <2> QED
    BY <1>8, <2>1, <2>2, <2>3 DEF FunctionNode
<1>9. CASE SimpleStatement \/ Structure
  <2>1. \/ Die("rejected")
        \/ UNCHANGED <<constants, symbols, fnName, status>>
    <3>1. CASE SimpleStatement
      BY <3>1, SimpleKeeps
    <3>2. CASE Structure
      BY <3>2 DEF Structure, beginBlock, endBlock, endWhile, endIf, endThen,
                  beginWhile, beginIf, Continue
    <3> QED
      BY <1>9, <3>1, <3>2
  <2> QED
    BY <1>1, <1>2, <2>1
<1>10. CASE finish \/ Terminated \/ UNCHANGED vars
  BY <1>1, <1>10 DEF finish, Terminated, vars, cgVars
<1> QED
  BY <1>6, <1>8, <1>9, <1>10 DEF CGNext
-----------------------------------------------------------------------------
LEMMA CGInvInit == CGInit => CGInv
<1> SUFFICES ASSUME CGInit PROVE CGInv
  OBVIOUS
<1>1. CMInv
  BY InvInit DEF CGInit
<1> DEFINE fr == Frame("unit", TRUE, 0, 0, <<>>)
<1>2. /\ fr \in FrameType /\ fr.kind = "unit"
      /\ stack = <<fr>>
  <2>1. 0 \in 0 .. MaxBlocks /\ <<>> \in Seq(Leaf)
    BY CodeGenAssumption
  <2> QED
    BY <2>1 DEF CGInit, Frame, FrameType
<1> HIDE DEF fr
<1>3. stack \in Seq(FrameType) /\ Len(stack) = 1 /\ stack[1].kind = "unit" /\ Own(stack[1]) = {}
  BY <1>2 DEF Own
<1>4. blocks = <<>> /\ insert = 0 /\ blocks \in Seq(BlockType) /\ Len(blocks) = 0
  BY DEF CGInit
<1>5. CGTypeOK
  <2>1. /\ constants \in [Name -> StorageId \cup {Unbound}]
        /\ symbols \in [Name -> {"free", "variable"} \cup Function]
        /\ fnName \in [Function -> Name \cup {Unbound}]
        /\ status \in {"running", "done", "uncaught", "rejected"}
    BY DEF CGInit
  <2>2. insert \in 0 .. Len(blocks)
    BY <1>4
  <2> QED
    BY <1>3, <1>4, <2>1, <2>2 DEF CGTypeOK, FrameType, BlockType
<1>6. Len(symTable) = 1
  BY DEF CGInit, CMInit
<1>7. \A k \in 1 .. Len(stack) : k = 1
  BY <1>3
<1>8. StackShape
  BY <1>3, <1>6, <1>7 DEF StackShape
<1>9. InsertionPoint
  BY <1>3, <1>6 DEF InsertionPoint, InFunction
<1>10. FramesInv
  BY <1>3, <1>7 DEF FramesInv
<1>11. NamesInv
  BY CodeGenAssumption DEF NamesInv, CGInit
<1> QED
  BY <1>1, <1>5, <1>8, <1>9, <1>10, <1>11 DEF CGInv

LEMMA CGInvNext == CGInv /\ [CGNext]_vars => CGInv'
<1> SUFFICES ASSUME CGInv, [CGNext]_vars PROVE CGInv'
  OBVIOUS
<1>1. CMInv'
  BY TableSteps, InvNext DEF CGInv, vars
<1>2. ControlInv'
  BY StepEffect, ControlNext
<1>3. TablesInv'
  BY TablesNext
<1>4. CGTypeOK'
  BY <1>2, <1>3 DEF ControlInv, TablesInv, CGTypeOK, FrameType, BlockType
<1> QED
  BY <1>1, <1>2, <1>3, <1>4 DEF ControlInv, TablesInv, CGInv

LEMMA CGInvHolds == CGSpec => []CGInv
BY CGInvInit, CGInvNext, PTL DEF CGSpec

(* The generator's variables keep their shape: what a visit leaves behind is *)
(* what the next one expects.                                                *)
THEOREM GeneratorTypeCorrect == CGSpec => []CGTypeOK
<1>1. CGInv => CGTypeOK
  BY DEF CGInv
<1> QED
  BY <1>1, CGInvHolds, PTL

(* However deep loops, branches and blocks are nested, every instruction is  *)
(* put into an attached block of the function that is visited.               *)
THEOREM InsertionPointValid == CGSpec => []InsertionPoint
<1>1. CGInv => InsertionPoint
  BY DEF CGInv
<1> QED
  BY <1>1, CGInvHolds, PTL
-----------------------------------------------------------------------------
(* A block that is in no function is one an open if will attach.             *)
HeldInv == \A b \in BlockId :
             ~blocks[b].attached => \E k \in 1 .. Len(stack) : b \in Own(stack[k])

(* A visit that ends attaches its blocks or leaves them to its successor.    *)
LEMMA HeldKept ==
  ASSUME CGInv, HeldInv, NEW set, BlocksKept(set), NEW n \in 1 .. Len(stack), SameFrames(n),
         Len(stack') \in Nat, Len(stack') >= n,
         \/ n = Len(stack)
         \/ /\ n = Len(stack) - 1
            /\ \A b \in Own(Top) : \/ blocks[b].attached \/ b \in set
                                   \/ n < Len(stack') /\ b \in Own(stack'[n + 1]),
         \A b \in Len(blocks) + 1 .. Len(blocks') :
           \/ blocks'[b].attached
           \/ n < Len(stack') /\ b \in Own(stack'[n + 1])
  PROVE  HeldInv'
<1>1. Len(stack) \in Nat /\ Len(blocks) \in Nat /\ Len(blocks') \in Nat /\ Top = stack[Len(stack)]
  BY Basics DEF BlocksKept, Top
<1>2. \A k \in 1 .. n : k \in 1 .. Len(stack') /\ Own(stack'[k]) = Own(stack[k])
  <2> TAKE k \in 1 .. n
  <2>1. /\ stack'[k].kind = stack[k].kind
        /\ stack'[k].first = stack[k].first /\ stack'[k].next = stack[k].next
    BY DEF SameFrames
  <2>2. k \in 1 .. Len(stack')
    BY <1>1
  <2> QED
    BY <2>1, <2>2 DEF Own
<1>3. n < Len(stack') => n + 1 \in 1 .. Len(stack')
  BY <1>1
<1> SUFFICES ASSUME NEW b \in 1 .. Len(blocks'), ~blocks'[b].attached
             PROVE  \E k \in 1 .. Len(stack') : b \in Own(stack'[k])
  BY DEF HeldInv, BlockId
<1>4. CASE b \in BlockId
  <2>1. ~blocks[b].attached /\ b \notin set
    BY <1>4 DEF BlocksKept, Attaches
  <2>2. PICK k \in 1 .. Len(stack) : b \in Own(stack[k])
    BY <1>4, <2>1 DEF HeldInv
  <2>3. CASE k \in 1 .. n
    BY <1>2, <2>2, <2>3
  <2>4. CASE k \notin 1 .. n
    <3>1. k = Len(stack) /\ n = Len(stack) - 1
      BY <1>1, <2>4
    <3>2. n # Len(stack)
      BY <1>1, <2>4
    <3> QED
      BY <1>1, <1>3, <2>1, <2>2, <3>1, <3>2
  <2> QED
    BY <2>3, <2>4
<1>5. CASE b \notin BlockId
  <2>1. b \in Len(blocks) + 1 .. Len(blocks')
    BY <1>1, <1>5 DEF BlockId
  <2> QED
    BY <1>3, <2>1
<1> QED
  BY <1>4, <1>5

LEMMA HeldNext ==
  ASSUME CGInv, HeldInv, Effect
  PROVE  HeldInv'
<1>0. Len(stack) \in Nat /\ Len(blocks) \in Nat /\ Len(stack) \in 1 .. Len(stack)
  BY Basics
<1>1. Keeps \/ (\E fr : Pushes(fr)) => /\ SameFrames(Len(stack)) /\ Len(stack') \in Nat
                                       /\ Len(stack') >= Len(stack)
  BY <1>0 DEF Keeps, Pushes
<1>2. Pops \/ (\E fr : Swaps(fr)) => /\ Len(stack) - 1 \in 1 .. Len(stack)
                                     /\ SameFrames(Len(stack) - 1)
                                     /\ Len(stack') \in Nat /\ Len(stack') >= Len(stack) - 1
  BY <1>0 DEF Pops, Swaps
<1>3. Len(blocks') = Len(blocks) => Len(blocks) + 1 .. Len(blocks') = {}
  BY <1>0
<1>4. UNCHANGED blocks => BlocksKept({}) /\ Len(blocks') = Len(blocks)
  BY KeptByGrowth
<1>5. ASSUME NEW ins \in Instr, Grows(ins, <<>>, {})
      PROVE  BlocksKept({}) /\ Len(blocks') = Len(blocks)
  <2>1. <<>> \in Seq(BlockType) /\ Len(<<>>) = 0
    OBVIOUS
  <2>2. Len(blocks') = Len(blocks) + Len(<<>>)
    BY <1>5 DEF Grows, Appends
  <2>3. BlocksKept({})
    BY <1>5, <2>1, GrowthKeeps
  <2> QED
    BY <1>0, <2>1, <2>2, <2>3
<1>6. CASE Elsewhere
  BY <1>6 DEF Elsewhere, HeldInv, BlockId
<1>7. CASE Writes
  BY <1>0, <1>1, <1>3, <1>5, <1>7, WritesShape, HeldKept
<1>8. CASE Moves
  <2>1. BlocksKept({}) /\ Len(blocks') = Len(blocks)
    BY <1>4, <1>8 DEF Moves
  <2>2. CASE Keeps \/ Pushes(Frame("block", TRUE, 0, 0, <<>>))
    BY <1>0, <1>1, <1>3, <2>1, <2>2, HeldKept
  <2>3. CASE \/ Top.kind = "block" /\ Pops
             \/ Top.kind = "params" /\ Swaps(Frame("func", TRUE, 0, 0, <<>>))
    <3>1. Own(Top) = {}
      BY <2>3 DEF Own
    <3> QED
      BY <1>0, <1>2, <1>3, <2>1, <2>3, <3>1, HeldKept
  <2> QED
    BY <1>8, <2>2, <2>3, MovesShape
<1>9. CASE Enters
  <2>1. PICK f \in Function : /\ blocks' = Append(blocks, NewBlock(f, "entry", TRUE))
                              /\ stack' = Append(stack, Frame("params", FALSE, 0, 0, <<>>))
    BY <1>9 DEF Enters
  <2>2. /\ BlocksKept({}) /\ Len(blocks') = Len(blocks) + 1
        /\ blocks'[Len(blocks) + 1].attached
    BY <2>1, FunctionEntered DEF NewBlock
  <2>3. Pushes(Frame("params", FALSE, 0, 0, <<>>))
    <3>1. 0 \in 0 .. MaxBlocks /\ <<>> \in Seq(Leaf)
      BY CodeGenAssumption
    <3>2. Frame("params", FALSE, 0, 0, <<>>) \in FrameType
      BY <3>1 DEF Frame, FrameType
    <3> QED
      BY <2>1, <3>2, StackMoves
  <2>4. \A b \in Len(blocks) + 1 .. Len(blocks') : b = Len(blocks) + 1
    BY <1>0, <2>2
  <2>5. \A b \in Len(blocks) + 1 .. Len(blocks') : blocks'[b].attached
    BY <2>2, <2>4
  <2>6. /\ SameFrames(Len(stack)) /\ Len(stack') \in Nat /\ Len(stack') >= Len(stack)
        /\ BlocksKept({})
    BY <1>1, <2>2, <2>3
  <2> QED
    BY <1>0, <2>5, <2>6, HeldKept
<1>10. CASE Leaves
  <2>1. Pops /\ Own(Top) = {} /\ UNCHANGED blocks
    BY <1>10, Basics, StackMoves DEF Leaves, Own
  <2> QED
    BY <1>0, <1>2, <1>3, <1>4, <2>1, HeldKept
<1>11. CASE OpensLoop
  <2>1. /\ BlocksKept({}) /\ Len(blocks') = Len(blocks) + 2 /\ \E fr : Pushes(fr)
        /\ blocks'[Len(blocks) + 1].attached /\ blocks'[Len(blocks) + 2].attached
    BY <1>11, LoopOpened DEF NewBlock
  <2>2. \A b \in Len(blocks) + 1 .. Len(blocks') : b \in {Len(blocks) + 1, Len(blocks) + 2}
    BY <1>0, <2>1
  <2>3. \A b \in Len(blocks) + 1 .. Len(blocks') : blocks'[b].attached
    BY <2>1, <2>2
  <2>4. /\ SameFrames(Len(stack)) /\ Len(stack') \in Nat /\ Len(stack') >= Len(stack)
        /\ BlocksKept({})
    BY <1>1, <2>1
  <2> QED
    BY <1>0, <2>3, <2>4, HeldKept
<1>12. CASE ClosesLoop
  <2>1. /\ Pops /\ InFunction /\ Top.kind = "while"
        /\ \E ins \in Instr : Grows(ins, <<>>, {})
    BY <1>12, ClosesLoopShape DEF ClosesLoop, Grows
  <2>2. \A b \in Own(Top) : blocks[b].attached
    BY <2>1, TopOwns
  <2> QED
    BY <1>0, <1>2, <1>3, <1>5, <2>1, <2>2, HeldKept
<1>13. CASE OpensIf
  <2>1. PICK fr \in FrameType : /\ fr.kind = "then" /\ fr.first = Len(blocks) + 2
                                /\ fr.next = Len(blocks) + 3 /\ Pushes(fr)
    BY <1>13, IfOpened
  <2>2. BlocksKept({}) /\ Len(blocks') = Len(blocks) + 3 /\ blocks'[Len(blocks) + 1].attached
    BY <1>13, IfOpened DEF NewBlock
  <2>3. Own(stack'[Len(stack) + 1]) = {Len(blocks) + 2, Len(blocks) + 3} /\ Len(stack) < Len(stack')
    BY <1>0, <2>1 DEF Own, Pushes
  <2>4. \A b \in Len(blocks) + 1 .. Len(blocks') :
          b \in {Len(blocks) + 1, Len(blocks) + 2, Len(blocks) + 3}
    BY <1>0, <2>2
  <2>5. \A b \in Len(blocks) + 1 .. Len(blocks') :
          \/ blocks'[b].attached
          \/ Len(stack) < Len(stack') /\ b \in Own(stack'[Len(stack) + 1])
    BY <2>2, <2>3, <2>4
  <2>6. /\ SameFrames(Len(stack)) /\ Len(stack') \in Nat /\ Len(stack') >= Len(stack)
        /\ BlocksKept({})
    BY <1>1, <2>1, <2>2
  <2> QED
    BY <1>0, <2>5, <2>6, HeldKept
<1>14. CASE EndsThen
  <2>1. Top.kind = "then" /\ Own(Top) = {Top.first, Top.next} /\ Continues(Top.first)
    BY <1>14, ThenEnded
  <2>2. PICK fr \in FrameType : fr.kind = "else" /\ fr.next = Top.next /\ Swaps(fr)
    BY <1>14, ThenEnded
  <2>3. BlocksKept({Top.first}) /\ Len(blocks') = Len(blocks)
    BY <2>1, BranchEnded
  <2>4. /\ Len(stack) - 1 < Len(stack') /\ stack'[Len(stack) - 1 + 1] = fr
        /\ Own(fr) = {Top.next}
    <3>1. Len(stack) - 1 + 1 = Len(stack) /\ Len(stack) - 1 < Len(stack)
      BY <1>0
    <3> QED
      BY <2>2, <3>1 DEF Swaps, Own
  <2> QED
    BY <1>0, <1>2, <1>3, <2>1, <2>2, <2>3, <2>4, HeldKept
<1>15. CASE EndsElse
  <2>1. Top.kind = "else" /\ Own(Top) = {Top.next} /\ Continues(Top.next) /\ stack' = Pop
    BY <1>15 DEF EndsElse, Own
  <2>2. InFunction /\ BlocksKept({Top.next}) /\ Len(blocks') = Len(blocks)
    BY <2>1, BranchEnded
  <2>3. Pops
    BY <2>1, <2>2, StackMoves
  <2> QED
    BY <1>0, <1>2, <1>3, <2>1, <2>2, <2>3, HeldKept
<1> QED
  BY <1>6, <1>7, <1>8, <1>9, <1>10, <1>11, <1>12, <1>13, <1>14, <1>15 DEF Effect

(* The blocks of an if that are in no function yet are exactly those its     *)
(* open visit remembers: none is lost on the way out of nested statements.   *)
THEOREM NoBlockForgotten == CGSpec => []DetachedOnlyWhileOpen
<1>1. CGInit => HeldInv
  <2>1. CGInit => BlockId = {}
    BY DEF CGInit, BlockId
  <2> QED
    BY <2>1 DEF HeldInv
<1>2. CGInv /\ HeldInv /\ [CGNext]_vars => HeldInv'
  BY StepEffect, HeldNext
<1>3. CGInv /\ HeldInv => DetachedOnlyWhileOpen
  <2> SUFFICES ASSUME CGInv, HeldInv, NEW b \in BlockId
               PROVE  ~blocks[b].attached <=>
                        \E k \in DOMAIN stack :
                          \/ stack[k].kind = "then" /\ b \in {stack[k].first, stack[k].next}
                          \/ stack[k].kind = "else" /\ b = stack[k].next
    BY DEF DetachedOnlyWhileOpen
  <2>1. DOMAIN stack = 1 .. Len(stack)
    BY Basics
  <2>2. ASSUME NEW k \in 1 .. Len(stack)
        PROVE  b \in Own(stack[k]) /\ stack[k].kind # "while" <=>
                 \/ stack[k].kind = "then" /\ b \in {stack[k].first, stack[k].next}
                 \/ stack[k].kind = "else" /\ b = stack[k].next
    BY DEF Own
  <2>3. \A k \in 1 .. Len(stack) :
          b \in Own(stack[k]) => (blocks[b].attached <=> stack[k].kind = "while")
    BY DEF CGInv, FramesInv
  <2>4. ~blocks[b].attached <=> \E k \in 1 .. Len(stack) : b \in Own(stack[k]) /\ stack[k].kind # "while"
    BY <2>3 DEF HeldInv
  <2> QED
    BY <2>1, <2>2, <2>4
<1> QED
  BY <1>1, <1>2, <1>3, CGInvHolds, PTL DEF CGSpec
-----------------------------------------------------------------------------
(* What a step may do to a block that exists.                                *)
Aimed(ins) == \A t \in ins.targets : t \in 1 .. Len(blocks') /\ blocks'[t].fn = CurrentFunction
Receives(b) == /\ b = insert
               /\ \E ins \in Instr : /\ Fit(ins) /\ Aimed(ins)
                                     /\ blocks'[b].code = Append(blocks[b].code, ins)
Stepped(b) == \/ blocks'[b] = blocks[b]
              \/ /\ InFunction /\ blocks[b].fn = CurrentFunction /\ blocks'[b].fn = blocks[b].fn
                 /\ blocks[b].attached => blocks'[b].attached
                 /\ blocks'[b].code = blocks[b].code \/ Receives(b)
AllStepped == /\ blocks' \in Seq(BlockType) /\ Len(blocks') >= Len(blocks)
              /\ \A b \in BlockId : Stepped(b)
              /\ \A b \in Len(blocks) + 1 .. Len(blocks') : blocks'[b].code = <<>>

LEMMA SameBlock ==
  ASSUME NEW x \in BlockType, NEW y \in BlockType, x.fn = y.fn, x.label = y.label,
         x.attached = y.attached, x.code = y.code
  PROVE  x = y
BY DEF BlockType

LEMMA GrowthSteps ==
  ASSUME CGInv, NEW ins \in Instr, NEW new \in Seq(BlockType), NEW set, Grows(ins, new, set),
         \A b \in set : blocks[b].fn = CurrentFunction, Aimed(ins),
         \A b \in Len(blocks) + 1 .. Len(blocks') : blocks'[b].code = <<>>
  PROVE  AllStepped
<1>1. BlocksKept(set) /\ InFunction
  BY GrowthKeeps DEF Grows
<1>2. ASSUME NEW b \in BlockId PROVE Stepped(b)
  <2>1. blocks[b] \in BlockType /\ blocks'[b] \in BlockType
    <3>1. b \in 1 .. Len(blocks) /\ b \in 1 .. Len(blocks')
      BY <1>1, Basics DEF BlockId, BlocksKept
    <3> QED
      BY <1>1, <3>1, Basics DEF BlocksKept
  <2>2. /\ blocks'[b].fn = blocks[b].fn /\ blocks'[b].label = blocks[b].label
        /\ blocks'[b].code = IF b = insert THEN Append(blocks[b].code, ins) ELSE blocks[b].code
        /\ blocks'[b].attached <=> (b \in set \/ blocks[b].attached)
    BY DEF Grows, Appends, Attaches
  <2>3. CASE b = insert
    <3>1. blocks[b].fn = CurrentFunction
      BY <1>1, <2>3, Basics
    <3>2. Receives(b)
      BY <2>2, <2>3 DEF Receives, Grows
    <3> QED
      BY <1>1, <2>2, <3>1, <3>2 DEF Stepped
  <2>4. CASE b # insert /\ b \in set
    BY <1>1, <2>2, <2>4 DEF Stepped
  <2>5. CASE b # insert /\ b \notin set
    <3>1. blocks'[b].attached = blocks[b].attached
      <4>1. blocks'[b].attached \in BOOLEAN /\ blocks[b].attached \in BOOLEAN
        BY <2>1 DEF BlockType
      <4>2. blocks'[b].attached <=> blocks[b].attached
        BY <2>2, <2>5
      <4> QED
        BY <4>1, <4>2, Zenon
    <3>2. blocks'[b] = blocks[b]
      BY <2>1, <2>2, <2>5, <3>1, SameBlock
    <3> QED
      BY <3>2 DEF Stepped
  <2> QED
    BY <2>3, <2>4, <2>5
<1> QED
  BY <1>1, <1>2 DEF AllStepped, BlocksKept

LEMMA BlockSteps ==
  ASSUME CGInv, Effect
  PROVE  AllStepped
<1>0. blocks \in Seq(BlockType) /\ Len(blocks) \in Nat
  BY Basics
<1>1. CASE UNCHANGED blocks
  BY <1>0, <1>1 DEF AllStepped, Stepped
<1>2. ASSUME NEW ins \in Instr, NEW set, Grows(ins, <<>>, set),
             \A b \in set : blocks[b].fn = CurrentFunction,
             ins.targets \subseteq Own(Top)
      PROVE  AllStepped
  <2>1. <<>> \in Seq(BlockType) /\ Len(<<>>) = 0
    OBVIOUS
  <2>2. BlocksKept(set) /\ InFunction
    BY <1>2, <2>1, GrowthKeeps DEF Grows
  <2>3. Aimed(ins)
    <3> SUFFICES ASSUME NEW t \in ins.targets
                 PROVE  t \in 1 .. Len(blocks') /\ blocks'[t].fn = CurrentFunction
      BY DEF Aimed
    <3>1. t \in BlockId /\ blocks[t].fn = CurrentFunction
      BY <1>2, <2>2, TopOwns
    <3> QED
      BY <1>0, <2>2, <3>1 DEF BlocksKept, BlockId
  <2>4. Len(blocks) + 1 .. Len(blocks') = {}
    <3>1. Len(blocks') = Len(blocks) + Len(<<>>)
      BY <1>2 DEF Grows, Appends
    <3> QED
      BY <1>0, <2>1, <3>1
  <2> QED
    BY <1>2, <2>1, <2>3, <2>4, GrowthSteps
<1>3. CASE Writes
  <2>1. PICK ins \in Instr : ins.op \notin Jumps /\ Grows(ins, <<>>, {})
    BY <1>3, WritesShape
  <2>2. ins.targets \subseteq Own(Top)
    BY <2>1 DEF Grows, Fit
  <2> QED
    BY <1>2, <2>1, <2>2
<1>4. CASE Enters
  <2>1. PICK f \in Function : blocks' = Append(blocks, NewBlock(f, "entry", TRUE))
    BY <1>4 DEF Enters
  <2>2. /\ BlocksKept({}) /\ Len(blocks') = Len(blocks) + 1
        /\ \A b \in BlockId : blocks'[b] = blocks[b]
        /\ blocks'[Len(blocks) + 1].code = <<>>
    <3>1. NewBlock(f, "entry", TRUE).code = <<>>
      BY DEF NewBlock
    <3> QED
      BY <2>1, <3>1, FunctionEntered
  <2>3. \A b \in Len(blocks) + 1 .. Len(blocks') : b = Len(blocks) + 1
    BY <1>0, <2>2
  <2> QED
    BY <2>2, <2>3 DEF AllStepped, Stepped, BlocksKept
<1>5. CASE OpensLoop
  <2>1. PICK ins \in Instr : /\ ins.targets = {Len(blocks) + 1, Len(blocks) + 2}
                             /\ Grows(ins, LoopBlocks, {})
    BY <1>5, LoopOpened
  <2>2. /\ Len(blocks') = Len(blocks) + 2
        /\ \A b \in {Len(blocks) + 1, Len(blocks) + 2} :
             blocks'[b].fn = CurrentFunction /\ blocks'[b].code = <<>>
    BY <1>5, LoopOpened DEF NewBlock
  <2>3. /\ \A b \in Len(blocks) + 1 .. Len(blocks') : b \in {Len(blocks) + 1, Len(blocks) + 2}
        /\ {Len(blocks) + 1, Len(blocks) + 2} \subseteq 1 .. Len(blocks')
    BY <1>0, <2>2
  <2>4. Aimed(ins)
    BY <2>1, <2>2, <2>3 DEF Aimed
  <2>5. LoopBlocks \in Seq(BlockType)
    <3>1. Here \in Function
      BY <2>1, Basics DEF Grows, Here
    <3>2. NewBlock(Here, "loop", TRUE) \in BlockType /\ NewBlock(Here, "afterloop", TRUE) \in BlockType
      BY <3>1, NewBlocksTyped DEF Label
    <3> QED
      BY <3>2, ShortLists DEF LoopBlocks
  <2> QED
    BY <2>1, <2>2, <2>3, <2>4, <2>5, GrowthSteps
<1>6. CASE OpensIf
  <2>1. PICK ins \in Instr : /\ ins.targets = {Len(blocks) + 1, Len(blocks) + 2}
                             /\ Grows(ins, IfBlocks, {})
    BY <1>6, IfOpened
  <2>2. /\ Len(blocks') = Len(blocks) + 3
        /\ \A b \in {Len(blocks) + 1, Len(blocks) + 2, Len(blocks) + 3} :
             blocks'[b].fn = CurrentFunction /\ blocks'[b].code = <<>>
    BY <1>6, IfOpened DEF NewBlock
  <2>3. /\ \A b \in Len(blocks) + 1 .. Len(blocks') :
             b \in {Len(blocks) + 1, Len(blocks) + 2, Len(blocks) + 3}
        /\ {Len(blocks) + 1, Len(blocks) + 2} \subseteq 1 .. Len(blocks')
    BY <1>0, <2>2
  <2>4. Aimed(ins)
    BY <2>1, <2>2, <2>3 DEF Aimed
  <2>5. IfBlocks \in Seq(BlockType)
    <3>1. Here \in Function
      BY <2>1, Basics DEF Grows, Here
    <3>2. /\ NewBlock(Here, "then", TRUE) \in BlockType /\ NewBlock(Here, "else", FALSE) \in BlockType
          /\ NewBlock(Here, "merge", FALSE) \in BlockType
      BY <3>1, NewBlocksTyped DEF Label
    <3> QED
      BY <3>2, ShortLists DEF IfBlocks
  <2> QED
    BY <2>1, <2>2, <2>3, <2>4, <2>5, GrowthSteps
<1>7. CASE ClosesLoop
  <2>1. PICK ins \in Instr : ins.targets = {Top.first, Top.next} /\ Grows(ins, <<>>, {})
    BY <1>7, ClosesLoopShape
  <2>2. Own(Top) = {Top.first, Top.next}
    BY <1>7 DEF ClosesLoop, Own
  <2> QED
    BY <1>2, <2>1, <2>2
<1>8. ASSUME NEW block \in Own(Top), Continues(block), Top.kind \in {"then", "else"}
      PROVE  AllStepped
  <2>1. block \in BlockId /\ blocks[block].fn = CurrentFunction /\ Top.next \in Own(Top)
    BY <1>8, BranchEnded, TopOwns DEF Own
  <2>2. PICK ins \in Instr : ins.targets = {Top.next} /\ Grows(ins, <<>>, {block})
    BY <1>8, <2>1, ContinuesShape
  <2> QED
    BY <1>2, <2>1, <2>2
<1>9. CASE EndsThen \/ EndsElse
  BY <1>8, <1>9 DEF EndsThen, EndsElse, Own
<1> QED
  BY <1>1, <1>3, <1>4, <1>5, <1>6, <1>7, <1>9 DEF Effect, Elsewhere, Moves, Leaves

(* A function that has been handed to the optimiser is never written to      *)
(* again, and instructions only go behind the others, at the insertion       *)
(* point.                                                                    *)
THEOREM CodeOnlyGrows == CGSpec => OnlyAppend
<1>1. ASSUME CGInv, [CGNext]_vars, NEW b \in BlockId
      PROVE  /\ blocks'[b] # blocks[b] => blocks[b].fn = CurrentFunction /\ InFunction
             /\ blocks[b].attached => blocks'[b].attached
             /\ SubSeq(blocks'[b].code, 1, Len(blocks[b].code)) = blocks[b].code
             /\ blocks'[b].code # blocks[b].code => b = insert
  <2>1. Stepped(b)
    BY <1>1, StepEffect, BlockSteps DEF AllStepped
  <2>2. blocks[b].code \in Seq(Instr)
    <3>1. blocks[b] \in BlockType
      BY <1>1, Basics DEF BlockId
    <3> QED
      BY <3>1 DEF BlockType
  <2> DEFINE c == blocks[b].code
  <2> HIDE DEF c
  <2>3. SubSeq(blocks'[b].code, 1, Len(c)) = c
    <3>1. c \in Seq(Instr)
      BY <2>2 DEF c
    <3>2. SubSeq(c, 1, Len(c)) = c
      BY <3>1, SubSeqFull
    <3>3. ASSUME NEW ins \in Instr PROVE SubSeq(Append(c, ins), 1, Len(c)) = c
      BY <3>1
    <3> QED
      BY <2>1, <3>2, <3>3 DEF Stepped, Receives, c
  <2> QED
    BY <2>1, <2>3 DEF Stepped, Receives, c
<1>2. CGInv /\ [CGNext]_vars =>
        [\A b \in BlockId :
           /\ blocks'[b] # blocks[b] => blocks[b].fn = CurrentFunction /\ InFunction
           /\ blocks[b].attached => blocks'[b].attached
           /\ SubSeq(blocks'[b].code, 1, Len(blocks[b].code)) = blocks[b].code
           /\ blocks'[b].code # blocks[b].code => b = insert]_vars
  BY <1>1
<1> QED
  BY <1>2, CGInvHolds, PTL DEF CGSpec, OnlyAppend
-----------------------------------------------------------------------------
(* What an instruction in a block of fn names, calls and jumps to stays      *)
(* within reach.                                                             *)
Names(s, fn) == s \in 1 .. Len(storage) /\ storage[s].owner \in {NullFunction, fn}
Reaches(ins, fn) ==
  /\ ins.to # 0 => Names(ins.to, fn)
  /\ \A k \in 1 .. Len(ins.uses) : IF ins.uses[k].op = "call" THEN Callable(ins.uses[k])
                                   ELSE Names(ins.uses[k].of, fn)
  /\ \A t \in ins.targets : t \in BlockId /\ blocks[t].fn = fn
ReachInv == \A b \in BlockId : \A j \in 1 .. Len(blocks[b].code) :
              Reaches(blocks[b].code[j], blocks[b].fn)

LEMMA StorageGrows ==
  ASSUME CGInv, [CGNext]_vars
  PROVE  /\ Len(storage') >= Len(storage)
         /\ \A s \in 1 .. Len(storage) : s \in 1 .. Len(storage') /\ storage'[s] = storage[s]
<1>1. storage \in Seq(Storage) /\ Len(storage) \in Nat
  BY DEF CGInv, CMInv, CMTypeOK
<1>2. [CMNext]_cmVars
  BY TableSteps DEF vars
<1>3. CASE storage' = storage
  BY <1>1, <1>3
<1>4. ASSUME NEW n \in Name, Define(n)
      PROVE  /\ Len(storage') >= Len(storage)
             /\ \A s \in 1 .. Len(storage) : s \in 1 .. Len(storage') /\ storage'[s] = storage[s]
  <2>1. PICK s \in Storage : storage' = Append(storage, s)
    BY <1>4, DefineEffect DEF CGInv
  <2> DEFINE longer == Append(storage, s)
  <2>2. /\ Len(longer) = Len(storage) + 1
        /\ \A i \in 1 .. Len(storage) : longer[i] = storage[i]
    BY <1>1, <2>1
  <2>3. storage' = longer
    BY <2>1
  <2> HIDE DEF longer
  <2> QED
    BY <1>1, <2>2, <2>3
<1> QED
  BY <1>2, <1>3, <1>4 DEF CMNext, enterBlock, exitBlock, cmVars

LEMMA ReachNext ==
  ASSUME CGInv, ReachInv, [CGNext]_vars
  PROVE  ReachInv'
<1>1. AllStepped
  BY StepEffect, BlockSteps
<1>2. /\ blocks \in Seq(BlockType) /\ Len(blocks) \in Nat /\ Len(blocks') \in Nat
      /\ Len(blocks') >= Len(blocks)
  BY <1>1, Basics DEF AllStepped
<1>3. \A b \in BlockId : b \in BlockId' /\ blocks'[b].fn = blocks[b].fn
  BY <1>1, <1>2 DEF AllStepped, Stepped, BlockId
<1>4. \A fn, s : Names(s, fn) => Names(s, fn)'
  BY StorageGrows DEF Names
<1>5. \A f : Callable(f) => Callable(f)'
  <2> SUFFICES ASSUME NEW f, Callable(f) PROVE Callable(f)'
    OBVIOUS
  <2> DEFINE g == f.of
             n == f.name
  <2>1. /\ g \in Function /\ n \in Name /\ Alias(g, n) /\ fnName[g] # Unbound
        /\ symbols[n] = g /\ g # "free"
    BY CodeGenAssumption DEF Callable, Alias
  <2>2. fnName'[g] = fnName[g] /\ symbols'[n] = g
    BY <2>1, TablesNext DEF TablesGrow
  <2>3. Alias(g, n)'
    BY <2>1, <2>2 DEF Alias
  <2> QED
    BY <2>1, <2>2, <2>3 DEF Callable
<1>6. ASSUME NEW ins, NEW fn, Reaches(ins, fn)
      PROVE  Reaches(ins, fn)'
  BY <1>3, <1>4, <1>5, <1>6 DEF Reaches
<1>7. ASSUME NEW b \in BlockId, NEW ins \in Instr, Fit(ins), Aimed(ins), InFunction,
             NEW fn, fn = CurrentFunction, blocks[b].fn = fn
      PROVE  Reaches(ins, blocks[b].fn)'
  <2>1. blocks'[b].fn = fn
    BY <1>3, <1>7
  <2>2. ins.to # 0 => Names(ins.to, fn)'
    BY <1>7 DEF Fit, Near, Names
  <2>3. ASSUME NEW k \in 1 .. Len(ins.uses)
        PROVE  IF ins.uses[k].op = "call" THEN Callable(ins.uses[k])'
               ELSE Names(ins.uses[k].of, fn)'
    <3>1. IF ins.uses[k].op = "call" THEN Callable(ins.uses[k])
          ELSE Names(ins.uses[k].of, fn)
      BY <1>7, <2>3 DEF Fit, FitUses, InReach, Near, Names
    <3> QED
      BY <1>4, <1>5, <3>1
  <2>4. \A t \in ins.targets : t \in BlockId' /\ blocks'[t].fn = fn
    BY <1>7 DEF Aimed, BlockId
  <2> QED
    BY <2>1, <2>2, <2>3, <2>4 DEF Reaches, Names
<1> SUFFICES ASSUME NEW b \in BlockId', NEW j \in 1 .. Len(blocks'[b].code)
             PROVE  Reaches(blocks[b].code[j], blocks[b].fn)'
  BY DEF ReachInv
<1>8. CASE b \in BlockId
  <2>1. Stepped(b) /\ blocks[b].code \in Seq(Instr)
    <3>1. blocks[b] \in BlockType
      BY <1>2, <1>8 DEF BlockId
    <3> QED
      BY <1>1, <1>8, <3>1 DEF AllStepped, BlockType
  <2>2. blocks'[b].fn = blocks[b].fn
    BY <1>3, <1>8
  <2>3. CASE blocks'[b].code = blocks[b].code
    <3>1. Reaches(blocks[b].code[j], blocks[b].fn)
      BY <1>8, <2>3 DEF ReachInv
    <3>2. Reaches(blocks'[b].code[j], blocks'[b].fn)
      BY <2>2, <2>3, <3>1
    <3> QED
      BY <1>3, <1>4, <1>5, <1>8, <2>2, <2>3, <3>1 DEF Reaches
  <2>4. CASE Receives(b) /\ InFunction /\ blocks[b].fn = CurrentFunction
    <3>1. PICK ins \in Instr : /\ Fit(ins) /\ Aimed(ins)
                               /\ blocks'[b].code = Append(blocks[b].code, ins)
      BY <2>4 DEF Receives
    <3>2. Reaches(ins, blocks[b].fn)'
      BY <1>7, <1>8, <2>4, <3>1
    <3> DEFINE c == blocks[b].code
    <3>3. /\ j \in 1 .. Len(c) /\ blocks'[b].code[j] = c[j]
          \/ blocks'[b].code[j] = ins
      <4>1. c \in Seq(Instr) /\ blocks'[b].code = Append(c, ins)
        BY <2>1, <3>1
      <4> HIDE DEF c
      <4> DEFINE d == Append(c, ins)
      <4>2. Len(d) = Len(c) + 1 /\ \A i \in 1 .. Len(d) : d[i] = IF i = Len(c) + 1 THEN ins ELSE c[i]
        BY <4>1
      <4>3. j \in 1 .. Len(d) /\ blocks'[b].code = d /\ Len(c) \in Nat
        BY <4>1
      <4> HIDE DEF d
      <4> QED
        BY <4>2, <4>3
    <3>4. CASE blocks'[b].code[j] = ins
      BY <3>2, <3>4 DEF Reaches
    <3>5. CASE j \in 1 .. Len(c) /\ blocks'[b].code[j] = c[j]
      <4>1. Reaches(c[j], blocks[b].fn)
        BY <1>8, <3>5 DEF ReachInv
      <4> QED
        BY <1>3, <1>4, <1>5, <1>8, <2>2, <3>5, <4>1 DEF Reaches
    <3> QED
      BY <3>3, <3>4, <3>5
  <2> QED
    BY <2>1, <2>3, <2>4 DEF Stepped
<1>9. CASE b \notin BlockId
  <2>1. b \in Len(blocks) + 1 .. Len(blocks')
    BY <1>2, <1>9 DEF BlockId
  <2>2. Len(blocks'[b].code) = 0
    BY <1>1, <2>1 DEF AllStepped
  <2> QED
    BY <2>2
<1> QED
  BY <1>8, <1>9

(* However names are shadowed, redeclared or shared by functions and module  *)
(* variables, an instruction uses module storage or its own function's, and  *)
(* a call keeps reaching the owner of the name it was written with, who was  *)
(* created under that name or renamed to it.                                 *)
THEOREM NoForeignOperand == CGSpec => []OperandsInReach
<1>1. CGInit => ReachInv
  <2>1. CGInit => BlockId = {}
    BY DEF CGInit, BlockId
  <2> QED
    BY <2>1 DEF ReachInv
<1>2. CGInv /\ ReachInv /\ [CGNext]_vars => ReachInv'
  BY ReachNext
<1>3. CGInv /\ ReachInv => OperandsInReach
  <2> SUFFICES ASSUME CGInv, ReachInv, NEW b \in BlockId, NEW j \in DOMAIN blocks[b].code
               PROVE  LET ins == blocks[b].code[j]
                          Reachable(s) == storage[s].owner \in {NullFunction, blocks[b].fn}
                      IN /\ ins.to # 0 => Reachable(ins.to)
                         /\ \A k \in DOMAIN ins.uses :
                              LET use == ins.uses[k] IN
                              IF use.op = "call"
                              THEN /\ symbols[use.name] = use.of
                                   /\ use.name \in {fnName[use.of]} \cup Suffixed[fnName[use.of]]
                              ELSE Reachable(use.of)
    BY DEF OperandsInReach
  <2>1. blocks[b].code \in Seq(Instr)
    <3>1. blocks[b] \in BlockType
      BY Basics DEF BlockId
    <3> QED
      BY <3>1 DEF BlockType
  <2> DEFINE ins == blocks[b].code[j]
  <2>2. j \in 1 .. Len(blocks[b].code) /\ ins \in Instr
    BY <2>1
  <2>3. DOMAIN ins.uses = 1 .. Len(ins.uses)
    <3>1. ins.uses \in Seq(Operand)
      BY <2>2 DEF Instr
    <3> QED
      BY <3>1
  <2>4. Reaches(ins, blocks[b].fn)
    BY <2>2 DEF ReachInv
  <2> HIDE DEF ins
  <2>5. /\ ins.to # 0 => storage[ins.to].owner \in {NullFunction, blocks[b].fn}
        /\ \A k \in DOMAIN ins.uses :
             LET use == ins.uses[k] IN
             IF use.op = "call"
             THEN /\ symbols[use.name] = use.of
                  /\ use.name \in {fnName[use.of]} \cup Suffixed[fnName[use.of]]
             ELSE storage[use.of].owner \in {NullFunction, blocks[b].fn}
    BY <2>3, <2>4 DEF Reaches, Names, Callable, Alias
  <2> QED
    BY <2>5 DEF ins
<1> QED
  BY <1>1, <1>2, <1>3, CGInvHolds, PTL DEF CGSpec
-----------------------------------------------------------------------------
(* What _constants holds beside the two maps: a local constant's own value,  *)
(* a module constant's value or that of a function that has defined the      *)
(* name; if the function is the one visited, the name is in its map.         *)
Fold(i, n) == symTable[i][n] # Unbound /\ symTable[i][n].type = "Constant"
ByFunction(s) == storage[s].owner \in Function
ConstInv ==
  /\ \A n \in Name : constants[n] # Unbound => constants[n] \in 1 .. Len(storage)
  /\ \A i \in 1 .. Len(symTable), n \in Name : Fold(i, n) =>
       /\ constants[n] # Unbound
       /\ constants[n] = symTable[i][n].value \/ (i = 1 /\ ByFunction(constants[n]))
  /\ Len(symTable) = 2 => \A n \in Name :
       constants[n] # Unbound /\ storage[constants[n]].owner = CurrentFunction
         => symTable[2][n] # Unbound
  /\ \A s \in 1 .. Len(storage) : ByFunction(s) => fnName[storage[s].owner] # Unbound
  /\ Len(symTable) = 2 => CurrentFunction \in Function /\ fnName[CurrentFunction] # Unbound

LEMMA FirstOfTwo == ASSUME NEW d \in {1, 2}, NEW i \in 1 .. d, i # d
                    PROVE  i = 1 /\ d = 2
OBVIOUS

(* A definition, and what visitConstDef keeps of it.                         *)
LEMMA ConstDefined ==
  ASSUME CGInv, ConstInv, NEW n \in Name, Define(n), UNCHANGED fnName,
         \/ constants' = constants /\ ~Bind(n, "Constant")
         \/ constants' = [constants EXCEPT ![n] = NewStorage]
  PROVE  ConstInv'
<1> DEFINE d == Len(symTable)
<1>1. /\ symTable \in Seq(Table) /\ d \in Nat /\ d \in {1, 2} /\ Len(func) = d
      /\ storage \in Seq(Storage) /\ Len(storage) \in Nat
      /\ constants \in [Name -> StorageId \cup {Unbound}]
  BY DEF CGInv, CMInv, CMTypeOK, Table, ScopesMatchFunctions, StackShape, CGTypeOK
<1>2. PICK b \in Binding, s \in Storage :
        /\ b.value = NewStorage /\ s.owner = CurrentFunction /\ NewStorage \in StorageId
        /\ symTable' = [symTable EXCEPT ![d] = [@ EXCEPT ![n] = b]]
        /\ func' = func /\ storage' = Append(storage, s)
  <2>1. PICK b \in Binding, s \in Storage :
          /\ b.value = Len(storage) + 1 /\ s.owner = func[Len(func)]
          /\ Len(storage) < MaxStorage
          /\ symTable' = [symTable EXCEPT ![d] = [@ EXCEPT ![n] = b]]
          /\ func' = func /\ storage' = Append(storage, s)
    BY DefineEffect DEF CGInv
  <2>2. Len(storage) + 1 \in StorageId
    BY <1>1, <2>1, ContextAssumption DEF StorageId
  <2> QED
    BY <2>1, <2>2 DEF NewStorage, CurrentFunction
<1>3. /\ Len(symTable') = d
      /\ \A i \in 1 .. d, m \in Name :
           symTable'[i][m] = IF i = d /\ m = n THEN b ELSE symTable[i][m]
  <2> DEFINE map == [symTable[d] EXCEPT ![n] = b]
  <2>1. symTable[d] \in Table
    BY <1>1
  <2>2. \A m \in Name : map[m] = IF m = n THEN b ELSE symTable[d][m]
    BY <2>1 DEF Table
  <2>3. symTable' = [symTable EXCEPT ![d] = map]
    BY <1>2
  <2> HIDE DEF map
  <2> QED
    BY <1>1, <2>2, <2>3
<1>4. b # Unbound /\ NewStorage # Unbound /\ NewStorage = Len(storage) + 1
  BY <1>2, UnboundAssumption, CodeGenAssumption DEF NewStorage
<1>5. /\ Len(storage') = Len(storage) + 1 /\ storage'[Len(storage) + 1] = s
      /\ \A i \in 1 .. Len(storage) : storage'[i] = storage[i]
  <2> DEFINE longer == Append(storage, s)
  <2>1. /\ Len(longer) = Len(storage) + 1 /\ longer[Len(storage) + 1] = s
        /\ \A i \in 1 .. Len(storage) : longer[i] = storage[i]
    BY <1>1
  <2>2. storage' = longer
    BY <1>2
  <2> HIDE DEF longer
  <2> QED
    BY <2>1, <2>2
<1>6. CurrentFunction' = CurrentFunction
  BY <1>2 DEF CurrentFunction
<1>7. ASSUME constants' = constants PROVE b.type # "Constant"
  <2>1. SUFFICES ASSUME b.type = "Constant" PROVE FALSE
    OBVIOUS
  <2>2. ~Bind(n, "Constant")
    <3>1. constants[n] # NewStorage
      <4>1. constants[n] # Unbound => constants[n] \in 1 .. Len(storage)
        BY DEF ConstInv
      <4> QED
        BY <1>1, <1>4, <4>1
    <3>2. [constants EXCEPT ![n] = NewStorage][n] = NewStorage
      BY <1>1
    <3> QED
      BY <1>7, <3>1, <3>2
  <2>3. b = [value |-> NewStorage, type |-> "Constant"]
    BY <1>2, <2>1 DEF Binding
  <2> QED
    BY <1>2, <2>2, <2>3, DefineEffect DEF Bind, CGInv, NewStorage
<1>8. /\ constants'[n] = NewStorage \/ constants' = constants
      /\ \A m \in Name : m # n => constants'[m] = constants[m]
  BY <1>1
<1> HIDE DEF d
<1>9. \A m \in Name : constants'[m] # Unbound => constants'[m] \in 1 .. Len(storage')
  <2> SUFFICES ASSUME NEW m \in Name, constants'[m] # Unbound
               PROVE  constants'[m] \in 1 .. Len(storage')
    OBVIOUS
  <2>1. constants'[m] = constants[m] \/ constants'[m] = NewStorage
    BY <1>8
  <2> QED
    BY <1>1, <1>4, <1>5, <2>1 DEF ConstInv
<1>10. ASSUME NEW m \in Name, constants[m] # Unbound
       PROVE  constants[m] \in 1 .. Len(storage) /\ storage'[constants[m]] = storage[constants[m]]
  BY <1>5, <1>10 DEF ConstInv
<1>11. ASSUME NEW i \in 1 .. Len(symTable'), NEW m \in Name, Fold(i, m)'
       PROVE  /\ constants'[m] # Unbound
              /\ \/ constants'[m] = symTable'[i][m].value
                 \/ i = 1 /\ ByFunction(constants[m])'
  <2>1. CASE m = n /\ i = d
    <3>1. symTable'[i][m] = b /\ b.type = "Constant"
      BY <1>1, <1>3, <1>11, <2>1 DEF Fold, d
    <3>2. constants'[n] = NewStorage
      BY <1>7, <1>8, <3>1
    <3> QED
      BY <1>2, <1>4, <2>1, <3>1, <3>2
  <2>2. CASE m = n /\ i # d
    <3>a. i \in 1 .. d /\ d \in {1, 2} /\ d = Len(symTable)
      BY <1>1, <1>3 DEF d
    <3>b. i = 1 /\ d = 2
      BY <2>2, <3>a, FirstOfTwo, Zenon
    <3>c. symTable'[i][m] = symTable[i][m]
      BY <1>3, <2>2, <3>a
    <3>1. i = 1 /\ d = 2 /\ symTable'[i][m] = symTable[i][m] /\ Fold(i, m) /\ i \in 1 .. Len(symTable)
      BY <1>11, <3>a, <3>b, <3>c DEF Fold
    <3>2. CASE constants'[n] = NewStorage
      <4>1. storage'[constants'[m]].owner = CurrentFunction /\ CurrentFunction \in Function
        BY <1>2, <1>4, <1>5, <2>2, <3>1, <3>2 DEF ConstInv, d
      <4> QED
        BY <1>4, <2>2, <3>1, <3>2, <4>1 DEF ByFunction
    <3>3. CASE constants' = constants
      BY <1>10, <3>1, <3>3 DEF ConstInv, ByFunction
    <3> QED
      BY <1>8, <3>2, <3>3
  <2>3. CASE m # n
    <3>1. symTable'[i][m] = symTable[i][m] /\ Fold(i, m) /\ i \in 1 .. Len(symTable)
      BY <1>1, <1>3, <1>11, <2>3 DEF Fold, d
    <3>2. constants'[m] = constants[m]
      BY <1>8, <2>3
    <3> QED
      BY <1>10, <3>1, <3>2 DEF ConstInv, ByFunction
  <2> QED
    BY <2>1, <2>2, <2>3
<1>12. ASSUME Len(symTable') = 2, NEW m \in Name, constants'[m] # Unbound,
              storage'[constants'[m]].owner = CurrentFunction'
       PROVE  symTable'[2][m] # Unbound
  <2>1. d = 2 /\ 2 \in 1 .. d
    BY <1>3, <1>12
  <2>2. CASE m = n
    BY <1>3, <1>4, <2>1, <2>2
  <2>3. CASE m # n
    <3>1. constants'[m] = constants[m] /\ symTable'[2][m] = symTable[2][m]
      BY <1>3, <1>8, <2>1, <2>3
    <3> QED
      BY <1>6, <1>10, <1>12, <2>1, <3>1 DEF ConstInv, d
  <2> QED
    BY <2>2, <2>3
<1>13. ASSUME NEW i \in 1 .. Len(storage'), ByFunction(i)'
       PROVE  fnName'[storage'[i].owner] # Unbound
  <2>1. CASE i \in 1 .. Len(storage)
    <3>1. storage'[i] = storage[i] /\ ByFunction(i)
      BY <1>5, <1>13, <2>1 DEF ByFunction
    <3> QED
      BY <2>1, <3>1 DEF ConstInv
  <2>2. CASE i = Len(storage) + 1
    <3>1. storage'[i].owner = CurrentFunction /\ CurrentFunction \in Function
      BY <1>2, <1>5, <1>13, <2>2 DEF ByFunction
    <3>2. d = 2
      <4>1. d = 1 => CurrentFunction = NullFunction
        BY <1>1 DEF CGInv, CMInv, ScopesMatchFunctions, CurrentFunction, d
      <4> QED
        BY <1>1, <3>1, <4>1, ContextAssumption
    <3> QED
      BY <3>1, <3>2 DEF ConstInv, d
  <2> QED
    BY <1>1, <1>5, <2>1, <2>2
<1>14. Len(symTable') = 2 => CurrentFunction' \in Function /\ fnName'[CurrentFunction'] # Unbound
  BY <1>3, <1>6 DEF ConstInv, d
<1> QED
  BY <1>9, <1>11, <1>12, <1>13, <1>14 DEF ConstInv, CurrentFunction

(* Everything else leaves both tables' constants alone.                      *)
LEMMA ConstKept ==
  ASSUME CGInv, ConstInv, UNCHANGED <<symTable, func, storage, constants>>,
         \A f \in Function : fnName[f] # Unbound => fnName'[f] # Unbound
  PROVE  ConstInv'
BY DEF ConstInv, Fold, ByFunction, CurrentFunction

LEMMA ConstEntered ==
  ASSUME CGInv, ConstInv, NEW f \in Function, enterBlock(f), UNCHANGED constants,
         fnName[f] = Unbound, fnName'[f] # Unbound,
         \A g \in Function : g # f => fnName'[g] = fnName[g],
         Len(symTable') \in {1, 2}
  PROVE  ConstInv'
<1>1. symTable \in Seq(Table) /\ Len(symTable) \in Nat /\ func \in Seq(Owner)
      /\ Len(symTable) >= 1
  BY DEF CGInv, CMInv, CMTypeOK, Table, ScopesMatchFunctions
<1> DEFINE longer == Append(symTable, NoBindings)
<1>2. /\ Len(longer) = Len(symTable) + 1
      /\ \A i \in 1 .. Len(longer) :
           longer[i] = IF i = Len(symTable) + 1 THEN NoBindings ELSE symTable[i]
  BY <1>1 DEF NoBindings, Table
<1>3. symTable' = longer /\ storage' = storage /\ func' = Append(func, f)
  BY DEF enterBlock
<1> HIDE DEF longer
<1>4. CurrentFunction' = f
  <2>1. Append(func, f)[Len(Append(func, f))] = f
    BY <1>1
  <2> QED
    BY <1>3, <2>1 DEF CurrentFunction
<1>5. \A i \in 1 .. Len(symTable'), n \in Name :
        symTable'[i][n] # Unbound => i \in 1 .. Len(symTable) /\ symTable'[i] = symTable[i]
  BY <1>1, <1>2, <1>3 DEF NoBindings
<1>6. \A s \in 1 .. Len(storage) : storage[s].owner # f
  <2>1. \A s \in 1 .. Len(storage) : ByFunction(s) => fnName[storage[s].owner] # Unbound
    BY DEF ConstInv
  <2> QED
    BY <2>1 DEF ByFunction
<1>7. \A i \in 1 .. Len(symTable'), n \in Name : Fold(i, n)' => Fold(i, n) /\ i \in 1 .. Len(symTable)
  BY <1>5 DEF Fold
<1>8. \A i \in 1 .. Len(symTable'), n \in Name : Fold(i, n)' =>
        /\ constants[n] # Unbound
        /\ constants[n] = symTable'[i][n].value \/ (i = 1 /\ ByFunction(constants[n]))
  BY <1>5, <1>7 DEF ConstInv, Fold
<1>9. \A n \in Name : constants[n] # Unbound => constants[n] \in 1 .. Len(storage)
  BY DEF ConstInv
<1>10. \A s : ByFunction(s)' = ByFunction(s)
  BY <1>3 DEF ByFunction
<1>11. \A n \in Name : constants[n] # Unbound => storage[constants[n]].owner # f
  BY <1>6, <1>9
<1>12. \A s \in 1 .. Len(storage) : ByFunction(s) => fnName'[storage[s].owner] # Unbound
  BY <1>6 DEF ConstInv, ByFunction
<1> QED
  BY <1>3, <1>4, <1>8, <1>9, <1>10, <1>11, <1>12 DEF ConstInv, ByFunction, CurrentFunction

LEMMA ConstLeft ==
  ASSUME CGInv, ConstInv, exitBlock, UNCHANGED <<constants, fnName>>
  PROVE  ConstInv'
<1>1. symTable \in Seq(Table) /\ Len(symTable) = 2
  BY DEF CGInv, CMInv, CMTypeOK, Table, StackShape, exitBlock
<1> DEFINE shorter == SubSeq(symTable, 1, Len(symTable) - 1)
<1>2. Len(shorter) = 1 /\ shorter[1] = symTable[1]
  BY <1>1
<1>3. symTable' = shorter /\ storage' = storage
  BY DEF exitBlock
<1> HIDE DEF shorter
<1>4. Len(symTable') = 1 /\ symTable'[1] = symTable[1] /\ 1 \in 1 .. Len(symTable)
  BY <1>1, <1>2, <1>3
<1>5. \A i \in 1 .. Len(symTable') : i = 1
  BY <1>4
<1> QED
  BY <1>3, <1>4, <1>5 DEF ConstInv, Fold, ByFunction

LEMMA ConstNext ==
  ASSUME CGInv, ConstInv, [CGNext]_vars
  PROVE  ConstInv'
<1>1. ASSUME UNCHANGED cmVars, constants' = constants, fnName' = fnName PROVE ConstInv'
  BY <1>1, ConstKept DEF cmVars
<1>2. ASSUME NEW how, Die(how) PROVE ConstInv'
  BY <1>1, <1>2 DEF Die
<1>3. ASSUME NEW n \in Name, UNCHANGED <<constants, fnName>>,
             \/ defVariable(n) \/ defVariableInit(n) \/ defPointer(n)
             \/ defArray(n) \/ defArrayInit(n)
      PROVE  ConstInv'
  <2>1. Define(n)
    BY <1>3 DEF Define
  <2>2. ~Bind(n, "Constant")
    <3>1. symTable \in Seq(Table) /\ Len(symTable) \in 1 .. Len(symTable)
      BY DEF CGInv, CMInv, CMTypeOK, Table, ScopesMatchFunctions
    <3>2. PICK type \in ElemType \ {"Constant"} : Bind(n, type)
      BY <1>3 DEF defVariable, defVariableInit, defPointer, defArray, defArrayInit, ElemType
    <3> DEFINE Made(t) == [symTable EXCEPT ![Len(symTable)] =
                             [@ EXCEPT ![n] = [value |-> NewStorage, type |-> t]]]
    <3>3. \A t : Made(t)[Len(symTable)][n].type = t
      BY <3>1 DEF Table
    <3>4. symTable' = Made(type)
      BY <3>2 DEF Bind
    <3>5. Bind(n, "Constant") => symTable' = Made("Constant")
      BY DEF Bind
    <3> HIDE DEF Made
    <3> QED
      BY <3>2, <3>3, <3>4, <3>5
  <2> QED
    BY <1>3, <2>1, <2>2, ConstDefined
<1>4. CASE Declaration
  <2>1. ASSUME NEW n \in Name, NEW e \in Exprs, visitConstDef(n, e) PROVE ConstInv'
    <3>1. CASE Die("uncaught")
      BY <1>2, <3>1
    <3>2. CASE ~Die("uncaught")
      <4>1. Define(n) /\ constants' = [constants EXCEPT ![n] = NewStorage] /\ UNCHANGED fnName
        BY <2>1, <3>2 DEF visitConstDef, Define
      <4> QED
        BY <4>1, ConstDefined
    <3> QED
      BY <3>1, <3>2
  <2>2. ASSUME NEW n \in Name, visitScalar(n) PROVE ConstInv'
    BY <1>3, <2>2 DEF visitScalar, Declared
  <2>3. ASSUME NEW n \in Name, NEW e \in Exprs, visitScalarInit(n, e) \/ visitArray(n, e)
        PROVE  ConstInv'
    BY <1>2, <1>3, <2>3 DEF visitScalarInit, visitArray, Declared
  <2>4. ASSUME NEW n \in Name, NEW e \in Exprs, NEW size \in Exprs, NEW fits \in BOOLEAN,
               visitArrayInit(n, size, e, fits)
        PROVE  ConstInv'
    BY <1>2, <1>3, <2>4 DEF visitArrayInit, Declared
  <2> QED
    BY <1>4, <2>1, <2>2, <2>3, <2>4 DEF Declaration
<1>5. ASSUME NEW f \in Function, NEW n \in Name, Create(f, n)
      PROVE  /\ fnName[f] = Unbound /\ fnName'[f] # Unbound
             /\ \A g \in Function : g # f => fnName'[g] = fnName[g]
  BY <1>5, CodeGenAssumption DEF Create, CGInv, CGTypeOK
<1>6. CASE FunctionNode
  <2>1. ASSUME NEW f \in Function, NEW n \in Name, visitExtFunc(f, n) PROVE ConstInv'
    <3>1. UNCHANGED <<symTable, func, storage, constants>> /\ Create(f, n)
      BY <2>1 DEF visitExtFunc, cmVars
    <3>2. \A g \in Function : fnName[g] # Unbound => fnName'[g] # Unbound
      BY <1>5, <3>1
    <3> QED
      BY <3>1, <3>2, ConstKept
  <2>2. ASSUME NEW f \in Function, NEW n \in Name, beginFuncDef(f, n) PROVE ConstInv'
    <3>1. Len(symTable') \in {1, 2}
      BY CGInvNext DEF CGInv, StackShape
    <3>2. Create(f, n) /\ enterBlock(f) /\ constants' = constants
      BY <2>2 DEF beginFuncDef
    <3> QED
      BY <1>5, <3>1, <3>2, ConstEntered
  <2>3. ASSUME NEW n \in Name, NEW isArray \in BOOLEAN, visitParam(n, isArray) PROVE ConstInv'
    BY <1>3, <2>3 DEF visitParam
  <2>4. CASE beginBody
    BY <1>1, <2>4 DEF beginBody
  <2>5. CASE endFuncDef
    BY <2>5, ConstLeft DEF endFuncDef
  <2> QED
    BY <1>6, <2>1, <2>2, <2>3, <2>4, <2>5 DEF FunctionNode
<1>7. CASE SimpleStatement
  <2>1. UNCHANGED cmVars /\ constants' = constants /\ fnName' = fnName
    BY <1>7, SimpleKeeps DEF Die
  <2> QED
    BY <1>1, <2>1
<1>8. CASE Structure
  BY <1>1, <1>8 DEF Structure, beginBlock, endBlock, endWhile, endIf, endThen,
                    beginWhile, beginIf, Continue, Die
<1>9. CASE finish \/ Terminated \/ UNCHANGED vars
  BY <1>1, <1>9 DEF finish, Terminated, vars, cgVars
<1> QED
  BY <1>4, <1>6, <1>7, <1>8, <1>9 DEF CGNext

(* A visible constant folds to the value of its definition, or, if it is the *)
(* module's, to one that a function already left has given to the name:      *)
(* whatever is declared, shadowed and left in whatever order.                *)
THEOREM ConstantsFold == CGSpec => []FoldedAsDeclared
<1>1. CGInit => ConstInv
  <2> SUFFICES ASSUME CGInit PROVE ConstInv
    OBVIOUS
  <2>1. Len(symTable) = 1 /\ symTable[1] = NoBindings /\ storage = <<>>
        /\ constants = [n \in Name |-> Unbound]
    BY DEF CGInit, CMInit
  <2>2. \A i \in 1 .. Len(symTable) : i = 1
    BY <2>1
  <2> QED
    BY <2>1, <2>2 DEF ConstInv, Fold, NoBindings
<1>2. CGInv /\ ConstInv /\ [CGNext]_vars => ConstInv'
  BY ConstNext
<1>3. CGInv /\ ConstInv => FoldedAsDeclared
  <2> SUFFICES ASSUME CGInv, ConstInv, NEW n \in Name, getType(n) = "Constant",
                      constants[n] # get(n)
               PROVE  /\ storage[get(n)].owner = NullFunction
                      /\ constants[n] \in 1 .. Len(storage)
                      /\ \A i \in DOMAIN func : storage[constants[n]].owner # func[i]
    BY DEF FoldedAsDeclared
  <2>1. lookup(n) # Unbound /\ lookup(n).type = "Constant" /\ get(n) = lookup(n).value
    BY DEF getType, get
  <2> DEFINE held == Holders(symTable, n)
  <2>2. held # {} /\ lookup(n) = symTable[Innermost(held)][n]
    BY <2>1 DEF lookup, LookupIn
  <2>3. held \in SUBSET (1 .. Len(symTable)) /\ Len(symTable) \in Nat
    BY DEF Holders, CGInv, CMInv, CMTypeOK
  <2> HIDE DEF held
  <2>4. Innermost(held) \in held /\ \A j \in held : j <= Innermost(held)
    BY <2>2, <2>3, InnermostExists
  <2> DEFINE i == Innermost(held)
  <2>5. i \in 1 .. Len(symTable) /\ Fold(i, n)
    BY <2>1, <2>2, <2>3, <2>4 DEF Fold
  <2>6. i = 1 /\ constants[n] # Unbound /\ ByFunction(constants[n])
    BY <2>1, <2>2, <2>5 DEF ConstInv
  <2>7. constants[n] \in 1 .. Len(storage)
    BY <2>6 DEF ConstInv
  <2>8. /\ Len(func) = Len(symTable) /\ func[1] = NullFunction /\ func \in Seq(Owner)
        /\ storage[get(n)].owner = func[1] /\ Len(symTable) \in {1, 2}
    BY <2>1, <2>2, <2>5, <2>6 DEF CGInv, CMInv, CMTypeOK, ScopesMatchFunctions, BindingsOwned,
                                  StackShape, Fold
  <2>9. CASE Len(symTable) = 1
    BY <2>6, <2>7, <2>8, <2>9, ContextAssumption DEF ByFunction
  <2>10. CASE Len(symTable) = 2
    <3>1. 2 \notin held
      BY <2>4, <2>6
    <3>2. symTable[2][n] = Unbound
      BY <2>10, <3>1 DEF held, Holders
    <3>3. storage[constants[n]].owner # CurrentFunction /\ CurrentFunction = func[2]
      BY <2>6, <2>8, <2>10, <3>2 DEF ConstInv, CurrentFunction
    <3>4. \A k \in DOMAIN func : k = 1 \/ k = 2
      BY <2>8, <2>10
    <3> QED
      BY <2>6, <2>7, <2>8, <3>3, <3>4, ContextAssumption DEF ByFunction
  <2> QED
    BY <2>8, <2>9, <2>10
<1> QED
  BY <1>1, <1>2, <1>3, CGInvHolds, PTL DEF CGSpec
-----------------------------------------------------------------------------
(* The block behind an open loop is waited for until the loop is closed.     *)
Awaited(b) == \E k \in 1 .. Len(stack) : stack[k].kind = "while" /\ b = stack[k].next
Exit(b) == blocks[b].attached /\ ~JumpsAway(b) /\ ~Awaited(b)

(* Jumps come last; what is not in use yet is empty; a function has one      *)
(* exit, the insertion point while it is visited.                            *)
ExitInv ==
  /\ \A b \in BlockId : \A j \in 1 .. Len(blocks[b].code) - 1 : blocks[b].code[j].op \notin Jumps
  /\ \A b \in BlockId : ~blocks[b].attached \/ Awaited(b) => blocks[b].code = <<>>
  /\ \A b \in BlockId : fnName[blocks[b].fn] # Unbound
  /\ InFunction => Exit(insert)
  /\ \A a, b \in BlockId : blocks[a].fn = blocks[b].fn /\ Exit(a) /\ Exit(b) => a = b
  /\ \A b \in BlockId : \E e \in BlockId : blocks[e].fn = blocks[b].fn /\ Exit(e)

LEMMA AwaitedMoves ==
  ASSUME CGInv, NEW b
  PROVE  /\ Keeps => (Awaited(b)' <=> Awaited(b))
         /\ \A fr : Pushes(fr) =>
              (Awaited(b)' <=> (Awaited(b) \/ (fr.kind = "while" /\ b = fr.next)))
         /\ Pops => (Awaited(b) <=> (Awaited(b)' \/ (Top.kind = "while" /\ b = Top.next)))
         /\ \A fr : Swaps(fr) /\ Top.kind # "while" /\ fr.kind # "while" =>
              (Awaited(b)' <=> Awaited(b))
<1>1. Len(stack) \in Nat /\ Len(stack) \in 1 .. Len(stack) /\ Top = stack[Len(stack)]
  BY Basics DEF Top
<1>2. ASSUME Keeps PROVE Awaited(b)' <=> Awaited(b)
  <2>1. /\ Len(stack') = Len(stack)
        /\ \A k \in 1 .. Len(stack) : stack'[k].kind = stack[k].kind /\ stack'[k].next = stack[k].next
    BY <1>2 DEF Keeps, SameFrames
  <2>2. Awaited(b)' => Awaited(b)
    BY <1>1, <2>1 DEF Awaited
  <2>3. Awaited(b) => Awaited(b)'
    BY <1>1, <2>1 DEF Awaited
  <2> QED
    BY <2>2, <2>3 DEF Awaited
<1>3. ASSUME NEW fr, Pushes(fr)
      PROVE  Awaited(b)' <=> (Awaited(b) \/ (fr.kind = "while" /\ b = fr.next))
  <2>1. /\ Len(stack') = Len(stack) + 1 /\ stack'[Len(stack) + 1] = fr
        /\ \A k \in 1 .. Len(stack) : stack'[k].kind = stack[k].kind /\ stack'[k].next = stack[k].next
    BY <1>3 DEF Pushes, SameFrames
  <2>2. \A k \in 1 .. Len(stack') : k \in 1 .. Len(stack) \/ k = Len(stack) + 1
    BY <1>1, <2>1
  <2>3. \A k \in 1 .. Len(stack) : k \in 1 .. Len(stack')
    BY <1>1, <2>1
  <2>4. Len(stack) + 1 \in 1 .. Len(stack')
    BY <1>1, <2>1
  <2> QED
    BY <2>1, <2>2, <2>3, <2>4 DEF Awaited
<1>4. ASSUME \/ Pops
             \/ \E fr : Swaps(fr) /\ fr.kind # "while"
      PROVE  Awaited(b) <=> (Awaited(b)' \/ (Top.kind = "while" /\ b = Top.next))
  <2>1. \A k \in 1 .. Len(stack) - 1 :
          /\ stack'[k].kind = stack[k].kind /\ stack'[k].next = stack[k].next
          /\ k \in 1 .. Len(stack) /\ k \in 1 .. Len(stack')
    BY <1>1, <1>4 DEF Pops, Swaps, SameFrames
  <2>2. \A k \in 1 .. Len(stack) : k \in 1 .. Len(stack) - 1 \/ k = Len(stack)
    BY <1>1
  <2>3. \A k \in 1 .. Len(stack') : k \in 1 .. Len(stack) - 1 \/ stack'[k].kind # "while"
    BY <1>1, <1>4 DEF Pops, Swaps
  <2> QED
    BY <1>1, <2>1, <2>2, <2>3 DEF Awaited
<1>5. Keeps => (Awaited(b)' <=> Awaited(b))
  BY <1>2
<1>6. Pops => (Awaited(b) <=> (Awaited(b)' \/ (Top.kind = "while" /\ b = Top.next)))
  BY <1>4
<1>7. ASSUME NEW fr, Swaps(fr) /\ Top.kind # "while" /\ fr.kind # "while"
      PROVE  Awaited(b)' <=> Awaited(b)
  BY <1>4, <1>7
<1> QED
  BY <1>3, <1>5, <1>6, <1>7

LEMMA JumpsAwayAfter ==
  ASSUME NEW c \in Seq(Instr), NEW ins
  PROVE  /\ Append(c, ins) # <<>> /\ Append(c, ins)[Len(Append(c, ins))] = ins
         /\ Len(Append(c, ins)) = Len(c) + 1 /\ Len(c) \in Nat
         /\ \A j \in 1 .. Len(c) : Append(c, ins)[j] = c[j]
OBVIOUS

(* An instruction put behind others none of which is a jump.                 *)
LEMMA CodeInOrder ==
  ASSUME CGInv, ExitInv, NEW ins \in Instr, NEW new \in Seq(BlockType), NEW set,
         Grows(ins, new, set),
         \A b \in Len(blocks) + 1 .. Len(blocks') : blocks'[b].code = <<>>
  PROVE  /\ \A b \in BlockId :
              /\ b = insert => (JumpsAway(b)' <=> ins.op \in Jumps)
              /\ b # insert => /\ JumpsAway(b)' <=> JumpsAway(b)
                               /\ blocks'[b].code = blocks[b].code
         /\ \A b \in BlockId' : \A j \in 1 .. Len(blocks'[b].code) - 1 :
              blocks'[b].code[j].op \notin Jumps
<1>1. /\ blocks \in Seq(BlockType) /\ Len(blocks) \in Nat /\ BlocksKept(set) /\ InFunction
      /\ Len(blocks') \in Nat
  BY Basics, GrowthKeeps DEF Grows, BlocksKept
<1>2. \A b \in BlockId :
        blocks'[b].code = IF b = insert THEN Append(blocks[b].code, ins) ELSE blocks[b].code
  BY DEF Grows, Appends
<1>3. \A b \in BlockId : blocks[b].code \in Seq(Instr)
  <2> TAKE b \in BlockId
  <2>1. blocks[b] \in BlockType
    BY <1>1 DEF BlockId
  <2> QED
    BY <2>1 DEF BlockType
<1>4. ASSUME NEW b \in BlockId, b = insert
      PROVE  /\ JumpsAway(b)' <=> ins.op \in Jumps
             /\ \A j \in 1 .. Len(blocks'[b].code) - 1 : blocks'[b].code[j].op \notin Jumps
  <2> DEFINE c == blocks[b].code
             d == blocks'[b].code
  <2>1. d = Append(c, ins) /\ c \in Seq(Instr)
    BY <1>2, <1>3, <1>4
  <2>2. /\ c = <<>> \/ c[Len(c)].op \notin Jumps
        /\ \A j \in 1 .. Len(c) - 1 : c[j].op \notin Jumps
    BY <1>1, <1>4 DEF ExitInv, Exit, JumpsAway
  <2>3. JumpsAway(b)' <=> d # <<>> /\ d[Len(d)].op \in Jumps
    BY DEF JumpsAway
  <2> HIDE DEF c, d
  <2>4. /\ d # <<>> /\ d[Len(d)] = ins /\ Len(d) = Len(c) + 1 /\ Len(c) \in Nat
        /\ \A j \in 1 .. Len(c) : d[j] = c[j]
    BY <2>1, JumpsAwayAfter
  <2>5. ASSUME NEW j \in 1 .. Len(d) - 1 PROVE d[j].op \notin Jumps
    <3>1. j \in 1 .. Len(c) /\ d[j] = c[j]
      BY <2>4
    <3>2. c # <<>>
      BY <2>1, <3>1
    <3>3. j \in 1 .. Len(c) - 1 \/ j = Len(c)
      BY <2>4, <3>1
    <3> QED
      BY <2>2, <3>1, <3>2, <3>3
  <2> QED
    BY <2>3, <2>4, <2>5 DEF d
<1>5. ASSUME NEW b \in BlockId, b # insert
      PROVE  /\ JumpsAway(b)' <=> JumpsAway(b)
             /\ \A j \in 1 .. Len(blocks'[b].code) - 1 : blocks'[b].code[j].op \notin Jumps
  BY <1>2, <1>5 DEF JumpsAway, ExitInv
<1>6. ASSUME NEW b \in BlockId', b \notin BlockId
      PROVE  \A j \in 1 .. Len(blocks'[b].code) - 1 : blocks'[b].code[j].op \notin Jumps
  <2>1. b \in Len(blocks) + 1 .. Len(blocks')
    BY <1>1, <1>6 DEF BlockId
  <2>2. Len(blocks'[b].code) = 0
    BY <2>1
  <2>3. 1 .. Len(blocks'[b].code) - 1 = {}
    BY <2>2
  <2> QED
    BY <2>3
<1> QED
  BY <1>2, <1>4, <1>5, <1>6

(* The exit of the function that is visited moves to block e, or stays.      *)
LEMMA ExitMoves ==
  ASSUME CGInv, ExitInv, InFunction, SameScopes, NEW set, BlocksKept(set),
         NEW e \in BlockId', insert' = e, blocks'[e].fn = CurrentFunction, Exit(e)',
         \A b \in BlockId : b # insert /\ b # e => (Exit(b)' <=> Exit(b)),
         \A b \in BlockId : b = insert /\ b # e => ~Exit(b)',
         \A b \in BlockId' : b \notin BlockId /\ b # e =>
           ~Exit(b)' /\ blocks'[b].fn = CurrentFunction
  PROVE  /\ InFunction' => Exit(insert)'
         /\ \A a, b \in BlockId' :
              blocks'[a].fn = blocks'[b].fn /\ Exit(a)' /\ Exit(b)' => a = b
         /\ \A b \in BlockId' : \E c \in BlockId' : blocks'[c].fn = blocks'[b].fn /\ Exit(c)'
<1>1. /\ insert \in BlockId /\ blocks[insert].fn = CurrentFunction /\ Exit(insert)
      /\ \A b \in BlockId : b \in BlockId' /\ blocks'[b].fn = blocks[b].fn
  <2>1. Len(blocks) \in Nat /\ insert \in 1 .. Len(blocks) /\ blocks[insert].fn = CurrentFunction
    BY Basics
  <2>2. \A b \in BlockId : b \in BlockId'
    BY <2>1 DEF BlocksKept, BlockId
  <2> QED
    BY <2>1, <2>2 DEF BlocksKept, BlockId, ExitInv
<1>2. Exit(insert)'
  <2>1. \A x : insert' = x /\ Exit(x)' => Exit(insert)'
    BY DEF Exit, JumpsAway, Awaited
  <2> QED
    BY <2>1
<1>3. ASSUME NEW b \in BlockId', blocks'[b].fn = CurrentFunction, Exit(b)'
      PROVE  b = e
  <2>1. CASE b \in BlockId
    <3>1. CASE b = insert
      BY <2>1, <1>3, <3>1
    <3>2. CASE b # insert
      <4>1. ~Exit(b)
        BY <1>1, <1>3, <2>1, <3>2 DEF ExitInv
      <4> QED
        BY <1>3, <2>1, <3>2, <4>1
    <3> QED
      BY <3>1, <3>2
  <2>2. CASE b \notin BlockId
    BY <1>3, <2>2
  <2> QED
    BY <2>1, <2>2
<1>4. ASSUME NEW b \in BlockId', blocks'[b].fn # CurrentFunction
      PROVE  /\ b \in BlockId /\ blocks[b].fn = blocks'[b].fn
             /\ Exit(b)' <=> Exit(b)
  BY <1>1, <1>4
<1>5. ASSUME NEW a \in BlockId', NEW b \in BlockId', blocks'[a].fn = blocks'[b].fn,
             Exit(a)', Exit(b)'
      PROVE  a = b
  <2>1. CASE blocks'[a].fn = CurrentFunction
    BY <1>3, <1>5, <2>1
  <2>2. CASE blocks'[a].fn # CurrentFunction
    BY <1>4, <1>5, <2>2 DEF ExitInv
  <2> QED
    BY <2>1, <2>2
<1>6. ASSUME NEW b \in BlockId'
      PROVE  \E c \in BlockId' : blocks'[c].fn = blocks'[b].fn /\ Exit(c)'
  <2>1. CASE blocks'[b].fn = CurrentFunction
    BY <2>1
  <2>2. CASE blocks'[b].fn # CurrentFunction
    <3>1. b \in BlockId /\ blocks[b].fn = blocks'[b].fn
      BY <1>4, <2>2
    <3>2. PICK c \in BlockId : blocks[c].fn = blocks[b].fn /\ Exit(c)
      BY <3>1 DEF ExitInv
    <3>3. c \in BlockId' /\ blocks'[c].fn = blocks'[b].fn
      BY <1>1, <3>1, <3>2
    <3> QED
      BY <1>4, <2>2, <3>2, <3>3
  <2> QED
    BY <2>1, <2>2
<1> QED
  BY <1>2, <1>5, <1>6

LEMMA AwaitedAttached ==
  ASSUME CGInv, NEW b, Awaited(b)
  PROVE  b \in BlockId /\ blocks[b].attached
<1>1. PICK k \in 1 .. Len(stack) : stack[k].kind = "while" /\ b = stack[k].next
  BY DEF Awaited
<1>2. b \in Own(stack[k])
  BY <1>1 DEF Own
<1> QED
  BY <1>1, <1>2 DEF CGInv, FramesInv

(* Nothing but the open visits changes, and no loop among them.              *)
LEMMA ExitStays ==
  ASSUME CGInv, ExitInv, TablesGrow, UNCHANGED <<blocks, insert>>,
         \A b \in BlockId : Awaited(b)' <=> Awaited(b), InFunction' => InFunction
  PROVE  ExitInv'
<1>1. BlockId' = BlockId /\ \A b \in BlockId : JumpsAway(b)' <=> JumpsAway(b)
  BY DEF BlockId, JumpsAway
<1>2. \A b \in BlockId : Exit(b)' <=> Exit(b)
  BY <1>1 DEF Exit
<1>3. InFunction' => Exit(insert)'
  <2>1. InFunction => insert \in BlockId
    BY Basics DEF BlockId
  <2>2. \A x : insert' = x /\ Exit(x)' => Exit(insert)'
    BY DEF Exit, JumpsAway, Awaited
  <2> QED
    BY <1>2, <2>1, <2>2 DEF ExitInv
<1>4. \A b \in BlockId : fnName'[blocks[b].fn] # Unbound
  <2> TAKE b \in BlockId
  <2>1. blocks[b] \in BlockType
    BY Basics DEF BlockId
  <2>2. blocks[b].fn \in Function
    BY <2>1 DEF BlockType
  <2> QED
    BY <2>2 DEF ExitInv, TablesGrow
<1> QED
  BY <1>1, <1>2, <1>3, <1>4 DEF ExitInv

(* An instruction that does not jump is put at the insertion point.          *)
LEMMA ExitWrites ==
  ASSUME CGInv, ExitInv, TablesGrow, Writes
  PROVE  ExitInv'
<1>1. PICK ins \in Instr : ins.op \notin Jumps /\ Grows(ins, <<>>, {})
  BY WritesShape
<1>2. /\ InFunction /\ SameScopes /\ insert' = insert /\ insert \in BlockId
      /\ blocks[insert].fn = CurrentFunction /\ Len(blocks) \in Nat
  BY <1>1, Basics DEF Grows, Writes, BlockId
<1>3. <<>> \in Seq(BlockType) /\ Len(<<>>) = 0
  OBVIOUS
<1>4. BlocksKept({}) /\ BlockId' = BlockId
  <2>1. BlocksKept({})
    BY <1>1, <1>3, GrowthKeeps
  <2>2. Len(blocks') = Len(blocks) + Len(<<>>)
    BY <1>1 DEF Grows, Appends
  <2> QED
    BY <1>2, <1>3, <2>1, <2>2 DEF BlockId
<1>5. Len(blocks) + 1 .. Len(blocks') = {}
  BY <1>2, <1>4 DEF BlockId, BlocksKept
<1>6. \A b \in BlockId : Awaited(b)' <=> Awaited(b)
  BY WritesShape, AwaitedMoves
<1>7. /\ \A b \in BlockId :
           /\ b = insert => (JumpsAway(b)' <=> ins.op \in Jumps)
           /\ b # insert => /\ JumpsAway(b)' <=> JumpsAway(b)
                            /\ blocks'[b].code = blocks[b].code
      /\ \A b \in BlockId' : \A j \in 1 .. Len(blocks'[b].code) - 1 :
           blocks'[b].code[j].op \notin Jumps
  BY <1>1, <1>3, <1>5, CodeInOrder
<1>8. \A b \in BlockId : blocks'[b].attached <=> blocks[b].attached
  BY <1>4 DEF BlocksKept, Attaches
<1>9. \A b \in BlockId : Exit(b)' <=> Exit(b)
  <2> TAKE b \in BlockId
  <2>1. CASE b = insert
    <3>1. Exit(b) /\ ~JumpsAway(b)'
      BY <1>1, <1>2, <1>7, <2>1 DEF ExitInv, Exit
    <3> QED
      BY <1>6, <1>8, <3>1 DEF Exit
  <2>2. CASE b # insert
    BY <1>6, <1>7, <1>8, <2>2 DEF Exit
  <2> QED
    BY <2>1, <2>2
<1>10. PICK e \in BlockId : e = insert
  BY <1>2
<1>11. Exit(e)' /\ insert' = e /\ blocks'[e].fn = CurrentFunction
  BY <1>2, <1>4, <1>9, <1>10 DEF ExitInv, BlocksKept
<1>12. /\ InFunction' => Exit(insert)'
       /\ \A a, b \in BlockId' :
            blocks'[a].fn = blocks'[b].fn /\ Exit(a)' /\ Exit(b)' => a = b
       /\ \A b \in BlockId' : \E c \in BlockId' : blocks'[c].fn = blocks'[b].fn /\ Exit(c)'
  BY <1>2, <1>4, <1>9, <1>10, <1>11, ExitMoves
<1>13. \A b \in BlockId' : ~blocks'[b].attached \/ Awaited(b)' => blocks'[b].code = <<>>
  <2> TAKE b \in BlockId'
  <2>1. b \in BlockId
    BY <1>4
  <2>2. CASE b = insert
    BY <1>2, <1>6, <1>8, <2>1, <2>2 DEF ExitInv, Exit
  <2>3. CASE b # insert
    BY <1>6, <1>7, <1>8, <2>1, <2>3 DEF ExitInv
  <2> QED
    BY <2>2, <2>3
<1>14. \A b \in BlockId' : fnName'[blocks'[b].fn] # Unbound
  <2> TAKE b \in BlockId'
  <2>1. b \in BlockId /\ blocks'[b].fn = blocks[b].fn /\ blocks[b] \in BlockType
    BY <1>4, Basics DEF BlocksKept, BlockId
  <2>2. blocks[b].fn \in Function
    BY <2>1 DEF BlockType
  <2> QED
    BY <2>1, <2>2 DEF ExitInv, TablesGrow
<1> QED
  BY <1>7, <1>12, <1>13, <1>14 DEF ExitInv

(* The exit jumps to block e, which is empty and becomes the insertion point.*)
LEMMA ExitJumps ==
  ASSUME CGInv, ExitInv, TablesGrow, SameScopes, NEW ins \in Instr, ins.op \in Jumps,
         NEW new \in Seq(BlockType), NEW e \in BlockId', NEW set, set \subseteq {e},
         Grows(ins, new, set), insert' = e, e # insert,
         blocks'[e].attached, blocks'[e].fn = CurrentFunction, blocks'[e].code = <<>>,
         ~Awaited(e)',
         \A b \in BlockId' : b \notin BlockId =>
           /\ blocks'[b].code = <<>> /\ blocks'[b].fn = CurrentFunction
           /\ b = e \/ ~blocks'[b].attached \/ Awaited(b)',
         \A b \in BlockId : b # e => (Awaited(b)' <=> Awaited(b))
  PROVE  ExitInv'
<1>1. /\ InFunction /\ insert \in BlockId /\ blocks[insert].fn = CurrentFunction
      /\ Len(blocks) \in Nat /\ BlocksKept(set) /\ Len(blocks') \in Nat
  BY Basics, GrowthKeeps DEF Grows, BlockId, BlocksKept
<1>2. \A b \in Len(blocks) + 1 .. Len(blocks') : blocks'[b].code = <<>>
  <2> TAKE b \in Len(blocks) + 1 .. Len(blocks')
  <2>1. b \in BlockId' /\ b \notin BlockId
    BY <1>1 DEF BlockId
  <2> QED
    BY <2>1
<1>3. /\ \A b \in BlockId :
           /\ b = insert => (JumpsAway(b)' <=> ins.op \in Jumps)
           /\ b # insert => /\ JumpsAway(b)' <=> JumpsAway(b)
                            /\ blocks'[b].code = blocks[b].code
      /\ \A b \in BlockId' : \A j \in 1 .. Len(blocks'[b].code) - 1 :
           blocks'[b].code[j].op \notin Jumps
  BY <1>2, CodeInOrder
<1>4. \A b \in BlockId : b # e => (blocks'[b].attached <=> blocks[b].attached)
  BY <1>1 DEF BlocksKept, Attaches
<1>5. Exit(e)'
  BY DEF Exit, JumpsAway
<1>6. \A b \in BlockId : b # insert /\ b # e => (Exit(b)' <=> Exit(b))
  BY <1>3, <1>4 DEF Exit
<1>7. \A b \in BlockId : b = insert /\ b # e => ~Exit(b)'
  BY <1>3 DEF Exit
<1>8. \A b \in BlockId' : b \notin BlockId /\ b # e =>
        ~Exit(b)' /\ blocks'[b].fn = CurrentFunction
  BY DEF Exit
<1>9. /\ InFunction' => Exit(insert)'
      /\ \A a, b \in BlockId' :
           blocks'[a].fn = blocks'[b].fn /\ Exit(a)' /\ Exit(b)' => a = b
      /\ \A b \in BlockId' : \E c \in BlockId' : blocks'[c].fn = blocks'[b].fn /\ Exit(c)'
  BY <1>1, <1>5, <1>6, <1>7, <1>8, ExitMoves
<1>10. \A b \in BlockId' : ~blocks'[b].attached \/ Awaited(b)' => blocks'[b].code = <<>>
  <2> SUFFICES ASSUME NEW b \in BlockId', ~blocks'[b].attached \/ Awaited(b)'
               PROVE  blocks'[b].code = <<>>
    OBVIOUS
  <2>1. CASE b = e \/ b \notin BlockId
    BY <2>1
  <2>2. CASE b # e /\ b \in BlockId
    <3>1. ~blocks[b].attached \/ Awaited(b)
      BY <1>4, <2>2
    <3>2. b # insert
      BY <1>1, <3>1 DEF ExitInv, Exit
    <3> QED
      BY <1>3, <2>2, <3>1, <3>2 DEF ExitInv
  <2> QED
    BY <2>1, <2>2
<1>11. \A b \in BlockId' : fnName'[blocks'[b].fn] # Unbound
  <2>1. \A b \in BlockId : blocks[b].fn \in Function /\ fnName'[blocks[b].fn] # Unbound
    <3> TAKE b \in BlockId
    <3>1. blocks[b] \in BlockType
      BY Basics DEF BlockId
    <3>2. blocks[b].fn \in Function
      BY <3>1 DEF BlockType
    <3> QED
      BY <3>2 DEF ExitInv, TablesGrow
  <2> TAKE b \in BlockId'
  <2>2. CASE b \in BlockId
    BY <1>1, <2>1, <2>2 DEF BlocksKept
  <2>3. CASE b \notin BlockId
    BY <1>1, <2>1, <2>3
  <2> QED
    BY <2>2, <2>3
<1> QED
  BY <1>3, <1>9, <1>10, <1>11 DEF ExitInv

LEMMA ExitOpens ==
  ASSUME CGInv, ExitInv, TablesGrow, OpensLoop \/ OpensIf
  PROVE  ExitInv'
<1>0. Len(stack) \in Nat /\ Len(blocks) \in Nat /\ Len(stack) \in 1 .. Len(stack)
  BY Basics
<1>1. ASSUME NEW b, Awaited(b) PROVE b \in BlockId
  BY <1>1, AwaitedAttached
<1>2. CASE OpensLoop
  <2>1. PICK ins \in Instr : ins.op \in Jumps /\ Grows(ins, LoopBlocks, {})
    BY <1>2, LoopOpened
  <2>2. PICK fr \in FrameType : /\ fr.kind = "while" /\ fr.first = Len(blocks) + 1
                                /\ fr.next = Len(blocks) + 2 /\ Pushes(fr)
    BY <1>2, LoopOpened
  <2>3. /\ InFunction /\ SameScopes /\ insert' = Len(blocks) + 1
        /\ Len(blocks') = Len(blocks) + 2 /\ insert \in BlockId
    BY <1>2, LoopOpened, Basics DEF BlockId
  <2>4. \A b \in {Len(blocks) + 1, Len(blocks) + 2} :
          blocks'[b].fn = CurrentFunction /\ blocks'[b].code = <<>> /\ blocks'[b].attached
    BY <1>2, LoopOpened DEF NewBlock
  <2>5. LoopBlocks \in Seq(BlockType)
    <3>1. Here \in Function
      BY <2>3, Basics DEF Here
    <3>2. NewBlock(Here, "loop", TRUE) \in BlockType /\ NewBlock(Here, "afterloop", TRUE) \in BlockType
      BY <3>1, NewBlocksTyped DEF Label
    <3> QED
      BY <3>2, ShortLists DEF LoopBlocks
  <2>6. \A b : Awaited(b)' <=> (Awaited(b) \/ b = Len(blocks) + 2)
    BY <2>2, AwaitedMoves
  <2>7. /\ Len(blocks) + 1 \in BlockId' /\ Len(blocks) + 1 # insert
        /\ \A x : x = Len(blocks) + 1 => ~Awaited(x)'
        /\ \A b \in BlockId : b # Len(blocks) + 2
        /\ \A b \in BlockId' : b \notin BlockId => b \in {Len(blocks) + 1, Len(blocks) + 2}
    <3>1. Len(blocks) + 1 \notin BlockId /\ Len(blocks) + 1 # Len(blocks) + 2
      BY <1>0 DEF BlockId
    <3>2. \A x : x = Len(blocks) + 1 => ~Awaited(x)'
      BY <1>1, <2>6, <3>1
    <3> QED
      BY <1>0, <2>3, <3>1, <3>2 DEF BlockId
  <2>8. PICK e \in BlockId' : e = Len(blocks) + 1
    BY <2>7
  <2>9. ~Awaited(e)'
    BY <2>7, <2>8
  <2>10. \A b \in BlockId' : b \notin BlockId =>
           /\ blocks'[b].code = <<>> /\ blocks'[b].fn = CurrentFunction
           /\ b = e \/ ~blocks'[b].attached \/ Awaited(b)'
    BY <2>4, <2>6, <2>7, <2>8
  <2>11. \A b \in BlockId : b # e => (Awaited(b)' <=> Awaited(b))
    BY <2>6, <2>7
  <2>12. {} \subseteq {e} /\ insert' = e /\ e # insert
    BY <2>3, <2>7, <2>8
  <2>13. blocks'[e].attached /\ blocks'[e].fn = CurrentFunction /\ blocks'[e].code = <<>>
    BY <2>4, <2>8
  <2> QED
    BY <2>1, <2>3, <2>5, <2>9, <2>10, <2>11, <2>12, <2>13, ExitJumps
<1>3. CASE OpensIf
  <2>1. PICK ins \in Instr : ins.op \in Jumps /\ Grows(ins, IfBlocks, {})
    BY <1>3, IfOpened
  <2>2. PICK fr \in FrameType : fr.kind = "then" /\ Pushes(fr)
    BY <1>3, IfOpened
  <2>3. /\ InFunction /\ SameScopes /\ insert' = Len(blocks) + 1
        /\ Len(blocks') = Len(blocks) + 3 /\ insert \in BlockId
    BY <1>3, IfOpened, Basics DEF BlockId
  <2>4. \A b \in {Len(blocks) + 1, Len(blocks) + 2, Len(blocks) + 3} :
          /\ blocks'[b].fn = CurrentFunction /\ blocks'[b].code = <<>>
          /\ blocks'[b].attached <=> b = Len(blocks) + 1
    <3>1. Len(blocks) + 2 # Len(blocks) + 1 /\ Len(blocks) + 3 # Len(blocks) + 1
      BY <1>0
    <3> QED
      BY <1>3, <3>1, IfOpened DEF NewBlock
  <2>5. IfBlocks \in Seq(BlockType)
    <3>1. Here \in Function
      BY <2>3, Basics DEF Here
    <3>2. /\ NewBlock(Here, "then", TRUE) \in BlockType /\ NewBlock(Here, "else", FALSE) \in BlockType
          /\ NewBlock(Here, "merge", FALSE) \in BlockType
      BY <3>1, NewBlocksTyped DEF Label
    <3> QED
      BY <3>2, ShortLists DEF IfBlocks
  <2>6. \A b : Awaited(b)' <=> Awaited(b)
    BY <2>2, AwaitedMoves
  <2>7. /\ Len(blocks) + 1 \in BlockId' /\ Len(blocks) + 1 # insert
        /\ Len(blocks) + 1 \notin BlockId
        /\ \A b \in BlockId' : b \notin BlockId =>
             b \in {Len(blocks) + 1, Len(blocks) + 2, Len(blocks) + 3}
    BY <1>0, <2>3 DEF BlockId
  <2>8. PICK e \in BlockId' : e = Len(blocks) + 1
    BY <2>7
  <2>9. ~Awaited(e)'
    BY <1>1, <2>6, <2>7, <2>8
  <2>10. \A b \in BlockId' : b \notin BlockId =>
           /\ blocks'[b].code = <<>> /\ blocks'[b].fn = CurrentFunction
           /\ b = e \/ ~blocks'[b].attached \/ Awaited(b)'
    BY <2>4, <2>7, <2>8
  <2>11. {} \subseteq {e} /\ insert' = e /\ e # insert
    BY <2>3, <2>7, <2>8
  <2>12. blocks'[e].attached /\ blocks'[e].fn = CurrentFunction /\ blocks'[e].code = <<>>
    BY <2>4, <2>8
  <2> QED
    BY <2>1, <2>3, <2>5, <2>6, <2>9, <2>10, <2>11, <2>12, ExitJumps
<1> QED
  BY <1>2, <1>3

LEMMA ExitCloses ==
  ASSUME CGInv, ExitInv, TablesGrow, ClosesLoop \/ EndsThen \/ EndsElse
  PROVE  ExitInv'
<1>0. Len(stack) \in Nat /\ Len(blocks) \in Nat /\ <<>> \in Seq(BlockType) /\ Len(<<>>) = 0
  BY Basics
<1>1. ASSUME NEW ins, NEW set, Grows(ins, <<>>, set) PROVE BlockId' = BlockId
  <2>1. Len(blocks') = Len(blocks) + Len(<<>>)
    BY <1>1 DEF Grows, Appends
  <2> QED
    BY <1>0, <2>1 DEF BlockId
<1>2. ASSUME NEW ins \in Instr, ins.op \in Jumps, NEW e \in Own(Top), NEW set, set \subseteq {e},
             Grows(ins, <<>>, set), SameScopes, insert' = e, blocks[e].attached \/ e \in set,
             blocks[e].code = <<>>, e # insert, ~Awaited(e)',
             \A b \in BlockId : b # e => (Awaited(b)' <=> Awaited(b))
      PROVE  ExitInv'
  <2>1. e \in BlockId /\ blocks[e].fn = CurrentFunction /\ BlockId' = BlockId
    BY <1>1, <1>2, TopOwns DEF Grows
  <2>2. BlocksKept(set)
    BY <1>0, <1>2, GrowthKeeps
  <2>3. blocks'[e].code = <<>>
    BY <1>2, <2>1 DEF Grows, Appends
  <2>4. blocks'[e].attached /\ blocks'[e].fn = CurrentFunction
    BY <1>2, <2>1, <2>2 DEF BlocksKept, Attaches
  <2> QED
    BY <1>0, <1>2, <2>1, <2>3, <2>4, ExitJumps
<1>3. CASE ClosesLoop
  <2>1. PICK ins \in Instr : ins.op \in Jumps /\ Grows(ins, <<>>, {})
    BY <1>3, ClosesLoopShape
  <2>2. Pops /\ InFunction /\ SameScopes /\ insert' = Top.next /\ Top.kind = "while"
    BY <1>3, <2>1, ClosesLoopShape DEF ClosesLoop, Grows
  <2>3. PICK e \in Own(Top) : e = Top.next
    BY <2>2 DEF Own
  <2>4. /\ e \in BlockId /\ blocks[e].attached
        /\ \A k \in 1 .. Len(stack) - 1 : e \notin Own(stack[k])
    BY <2>2, TopOwns
  <2>5. Awaited(e) /\ ~Awaited(e)'
    <3>1. Awaited(e)
      BY <2>2, <2>3, TopOwns DEF Awaited
    <3>2. ASSUME NEW k \in 1 .. Len(stack'), stack'[k].kind = "while", e = stack'[k].next
          PROVE  FALSE
      <4>1. k \in 1 .. Len(stack) - 1 /\ stack[k].kind = "while" /\ e = stack[k].next
        BY <2>2, <3>2 DEF Pops, SameFrames
      <4> QED
        BY <2>4, <4>1 DEF Own
    <3>3. ~Awaited(e)'
      BY <3>2 DEF Awaited
    <3> QED
      BY <3>1, <3>3
  <2>6. blocks[e].code = <<>> /\ e # insert
    BY <2>2, <2>4, <2>5 DEF ExitInv, Exit
  <2>7. \A b \in BlockId : b # e => (Awaited(b)' <=> Awaited(b))
    BY <2>2, <2>3, AwaitedMoves
  <2> QED
    BY <1>2, <2>1, <2>2, <2>3, <2>4, <2>5, <2>6, <2>7
<1>4. ASSUME NEW e \in Own(Top), Top.kind \in {"then", "else"}, Continues(e),
             \A b \in BlockId : Awaited(b)' <=> Awaited(b)
      PROVE  ExitInv'
  <2>1. InFunction /\ SameScopes /\ insert' = e /\ e \in BlockId
    BY <1>4, BranchEnded
  <2>2. PICK ins \in Instr : ins.op \in Jumps /\ Grows(ins, <<>>, {e})
    BY <1>4, <2>1, ContinuesShape
  <2>3. ~blocks[e].attached
    BY <1>4, <2>1, TopOwns
  <2>4. blocks[e].code = <<>> /\ e # insert /\ ~Awaited(e)'
    BY <1>4, <2>1, <2>3, AwaitedAttached DEF ExitInv, Exit
  <2> QED
    BY <1>2, <1>4, <2>1, <2>2, <2>4
<1>5. CASE EndsThen
  <2>1. Top.kind = "then" /\ Top.first \in Own(Top) /\ Continues(Top.first)
    BY <1>5, ThenEnded
  <2>2. \A b \in BlockId : Awaited(b)' <=> Awaited(b)
    <3>1. PICK fr \in FrameType : fr.kind = "else" /\ Swaps(fr)
      BY <1>5, ThenEnded
    <3> QED
      BY <2>1, <3>1, AwaitedMoves
  <2> QED
    BY <1>4, <2>1, <2>2
<1>6. CASE EndsElse
  <2>1. Top.kind = "else" /\ Top.next \in Own(Top) /\ Continues(Top.next) /\ stack' = Pop
    BY <1>6 DEF EndsElse, Own
  <2>2. Pops
    BY <2>1, BranchEnded, StackMoves
  <2>3. \A b \in BlockId : Awaited(b)' <=> Awaited(b)
    BY <2>1, <2>2, AwaitedMoves
  <2> QED
    BY <1>4, <2>1, <2>3
<1> QED
  BY <1>3, <1>5, <1>6

(* A function is begun once, so that no block is there in its name.          *)
LEMMA ExitEnters ==
  ASSUME CGInv, ExitInv, TablesGrow, Enters
  PROVE  ExitInv'
<1>1. PICK f \in Function :
        /\ fnName[f] = Unbound /\ fnName'[f] # Unbound
        /\ blocks' = Append(blocks, NewBlock(f, "entry", TRUE))
        /\ insert' = Len(blocks) + 1
        /\ stack' = Append(stack, Frame("params", FALSE, 0, 0, <<>>))
  BY DEF Enters
<1>2. /\ BlocksKept({}) /\ Len(blocks') = Len(blocks) + 1 /\ Len(blocks) \in Nat
      /\ \A b \in BlockId : blocks'[b] = blocks[b]
      /\ \A b : b = Len(blocks) + 1 => /\ blocks'[b].fn = f /\ blocks'[b].code = <<>>
                                       /\ blocks'[b].attached
  <2>1. NewBlock(f, "entry", TRUE).fn = f /\ NewBlock(f, "entry", TRUE).code = <<>>
        /\ NewBlock(f, "entry", TRUE).attached
    BY DEF NewBlock
  <2> QED
    BY <1>1, <2>1, FunctionEntered, Basics
<1>3. Len(blocks) + 1 \in BlockId' /\ Len(blocks) + 1 \notin BlockId
      /\ \A b \in BlockId' : b \in BlockId \/ b = Len(blocks) + 1
  BY <1>2 DEF BlockId
<1>4. PICK e \in BlockId' : e = Len(blocks) + 1
  BY <1>3
<1>5. \A b : Awaited(b)' <=> Awaited(b)
  <2>1. Frame("params", FALSE, 0, 0, <<>>) \in FrameType
    <3>1. 0 \in 0 .. MaxBlocks /\ <<>> \in Seq(Leaf)
      BY CodeGenAssumption
    <3> QED
      BY <3>1 DEF Frame, FrameType
  <2>2. Pushes(Frame("params", FALSE, 0, 0, <<>>)) /\ Frame("params", FALSE, 0, 0, <<>>).kind # "while"
    BY <1>1, <2>1, StackMoves DEF Frame
  <2> QED
    BY <2>2, AwaitedMoves
<1>6. \A b \in BlockId : /\ b \in BlockId'
                         /\ blocks[b].fn \in Function /\ blocks[b].fn # f
                         /\ fnName'[blocks[b].fn] # Unbound
  <2> TAKE b \in BlockId
  <2>1. b \in BlockId' /\ blocks[b] \in BlockType
    BY <1>2, Basics DEF BlockId
  <2>2. blocks[b].fn \in Function /\ fnName[blocks[b].fn] # Unbound
    BY <2>1 DEF BlockType, ExitInv
  <2>3. fnName'[blocks[b].fn] # Unbound
    BY <2>2 DEF TablesGrow
  <2> QED
    BY <1>1, <2>1, <2>2, <2>3
<1>7. Exit(e)' /\ \A b \in BlockId : Exit(b)' <=> Exit(b)
  <2>1. ~Awaited(e)
    BY <1>3, <1>4, AwaitedAttached
  <2>2. Exit(e)'
    BY <1>2, <1>4, <1>5, <2>1 DEF Exit, JumpsAway
  <2>3. \A b \in BlockId : Exit(b)' <=> Exit(b)
    BY <1>2, <1>5 DEF Exit, JumpsAway
  <2> QED
    BY <2>2, <2>3
<1>8. InFunction' => Exit(insert)'
  <2>1. \A x : insert' = x /\ Exit(x)' => Exit(insert)'
    BY DEF Exit, JumpsAway, Awaited
  <2> QED
    BY <1>1, <1>4, <1>7, <2>1
<1>9. ASSUME NEW b \in BlockId'
      PROVE  /\ \A j \in 1 .. Len(blocks'[b].code) - 1 : blocks'[b].code[j].op \notin Jumps
             /\ ~blocks'[b].attached \/ Awaited(b)' => blocks'[b].code = <<>>
             /\ fnName'[blocks'[b].fn] # Unbound
             /\ \A a \in BlockId' : blocks'[a].fn = blocks'[b].fn /\ Exit(a)' /\ Exit(b)' => a = b
             /\ \E c \in BlockId' : blocks'[c].fn = blocks'[b].fn /\ Exit(c)'
  <2>1. CASE b \in BlockId
    <3>1. /\ \A j \in 1 .. Len(blocks'[b].code) - 1 : blocks'[b].code[j].op \notin Jumps
          /\ ~blocks'[b].attached \/ Awaited(b)' => blocks'[b].code = <<>>
      BY <1>2, <1>5, <2>1 DEF ExitInv
    <3>2. \A a \in BlockId' : blocks'[a].fn = blocks'[b].fn /\ Exit(a)' /\ Exit(b)' => a = b
      BY <1>2, <1>3, <1>6, <1>7, <2>1 DEF ExitInv
    <3>3. PICK c \in BlockId : blocks[c].fn = blocks[b].fn /\ Exit(c)
      BY <2>1 DEF ExitInv
    <3> QED
      BY <1>2, <1>6, <1>7, <2>1, <3>1, <3>2, <3>3
  <2>2. CASE b = e
    <3>1. 1 .. Len(blocks'[b].code) - 1 = {}
      <4>1. Len(blocks'[b].code) = 0
        BY <1>2, <1>4, <2>2
      <4> QED
        BY <4>1
    <3>2. \A a \in BlockId' : blocks'[a].fn = blocks'[b].fn => a = b
      BY <1>2, <1>3, <1>4, <1>6, <2>2
    <3> QED
      BY <1>1, <1>2, <1>4, <1>7, <2>2, <3>1, <3>2
  <2> QED
    BY <1>3, <1>4, <2>1, <2>2
<1> QED
  BY <1>8, <1>9 DEF ExitInv

LEMMA ExitNext ==
  ASSUME CGInv, ExitInv, [CGNext]_vars
  PROVE  ExitInv'
<1>1. Effect /\ TablesGrow
  BY StepEffect, TablesNext
<1>2. CASE Elsewhere
  <2>1. /\ UNCHANGED <<blocks, insert>>
        /\ InFunction' => InFunction
        /\ \A b \in BlockId : Awaited(b)' <=> Awaited(b)
    BY <1>2 DEF Elsewhere, Awaited, InFunction
  <2> QED
    BY <1>1, <2>1, ExitStays
<1>3. CASE Writes
  BY <1>1, <1>3, ExitWrites
<1>4. CASE Moves
  <2>1. UNCHANGED <<blocks, insert>> /\ InFunction
    BY <1>4, MovesShape DEF Moves
  <2>2. /\ Frame("block", TRUE, 0, 0, <<>>).kind # "while"
        /\ Frame("func", TRUE, 0, 0, <<>>).kind # "while"
    BY DEF Frame
  <2>3. \A b \in BlockId : Awaited(b)' <=> Awaited(b)
    BY <1>4, <2>2, MovesShape, AwaitedMoves
  <2> QED
    BY <1>1, <2>1, <2>3, ExitStays
<1>5. CASE Enters
  BY <1>1, <1>5, ExitEnters
<1>6. CASE Leaves
  <2>1. Pops /\ Top.kind # "while" /\ UNCHANGED <<blocks, insert>> /\ InFunction
    BY <1>6, Basics, StackMoves DEF Leaves
  <2>2. \A b \in BlockId : Awaited(b)' <=> Awaited(b)
    BY <2>1, AwaitedMoves
  <2> QED
    BY <1>1, <2>1, <2>2, ExitStays
<1>7. CASE OpensLoop \/ OpensIf
  BY <1>1, <1>7, ExitOpens
<1>8. CASE ClosesLoop \/ EndsThen \/ EndsElse
  BY <1>1, <1>8, ExitCloses
<1> QED
  BY <1>1, <1>2, <1>3, <1>4, <1>5, <1>6, <1>7, <1>8 DEF Effect

(* Whatever loops, branches and returns a function nests, its finished       *)
(* blocks end in the only jump they contain, and control leaves it at one    *)
(* place: where the builder stands while the function is visited, and where  *)
(* it stood last afterwards.                                                 *)
THEOREM OneWayOut == CGSpec => []SingleExit
<1>1. CGInit => ExitInv
  <2>1. CGInit => BlockId = {}
    BY DEF CGInit, BlockId
  <2>2. CGInit => ~InFunction
    <3>1. ASSUME CGInit PROVE Len(stack) = 1
      BY <3>1 DEF CGInit
    <3> QED
      BY <3>1 DEF InFunction
  <2> QED
    BY <2>1, <2>2 DEF ExitInv
<1>2. CGInv /\ ExitInv /\ [CGNext]_vars => ExitInv'
  BY ExitNext
<1>3. ASSUME CGInv, ExitInv PROVE SingleExit
  <2> SUFFICES ASSUME NEW f \in Function
      PROVE  LET exits == {b \in BlockId : /\ blocks[b].fn = f /\ blocks[b].attached
                                           /\ ~JumpsAway(b)
                                           /\ \A k \in DOMAIN stack :
                                                stack[k].kind = "while" => b # stack[k].next}
             IN IF \E b \in BlockId : blocks[b].fn = f
                THEN \E b \in exits : exits = {b} /\ (f = CurrentFunction => b = insert)
                ELSE exits = {}
    BY <1>3 DEF SingleExit, ExitInv
  <2> DEFINE exits == {b \in BlockId : /\ blocks[b].fn = f /\ blocks[b].attached
                                       /\ ~JumpsAway(b)
                                       /\ \A k \in DOMAIN stack :
                                            stack[k].kind = "while" => b # stack[k].next}
  <2>1. DOMAIN stack = 1 .. Len(stack)
    <3>1. stack \in Seq(FrameType)
      BY <1>3, Basics
    <3> QED
      BY <3>1
  <2>2. \A b : b \in exits <=> b \in BlockId /\ blocks[b].fn = f /\ Exit(b)
    BY <2>1 DEF Exit, Awaited
  <2> HIDE DEF exits
  <2>3. CASE \E b \in BlockId : blocks[b].fn = f
    <3>1. PICK b \in BlockId : blocks[b].fn = f /\ Exit(b)
      BY <1>3, <2>3 DEF ExitInv
    <3>2. exits = {b}
      BY <1>3, <2>2, <3>1 DEF ExitInv
    <3>3. f = CurrentFunction => b = insert
      <4> SUFFICES ASSUME f = CurrentFunction PROVE b = insert
        OBVIOUS
      <4>1. InFunction
        <5>1. CASE ~InFunction
          <6>1. Len(func) = 1 /\ func[1] = NullFunction
            BY <1>3, <5>1, Basics DEF CGInv, StackShape, CMInv, ScopesMatchFunctions, InFunction
          <6>2. CurrentFunction = NullFunction
            BY <6>1 DEF CurrentFunction
          <6> QED
            BY <6>2, ContextAssumption
        <5> QED
          BY <5>1
      <4>2. insert \in BlockId /\ blocks[insert].fn = f /\ Exit(insert)
        BY <1>3, <4>1, Basics DEF BlockId, ExitInv
      <4> QED
        BY <1>3, <3>1, <4>2 DEF ExitInv
    <3> QED
      BY <2>3, <3>1, <3>2, <3>3 DEF exits
  <2>4. CASE ~\E b \in BlockId : blocks[b].fn = f
    <3>1. exits = {}
      BY <2>2, <2>4
    <3> QED
      BY <2>4, <3>1 DEF exits
  <2> QED
    BY <2>3, <2>4 DEF exits
<1> QED
  BY <1>1, <1>2, <1>3, CGInvHolds, PTL DEF CGSpec
-----------------------------------------------------------------------------
(* The jumps to b that the visit in frame fr will still write.               *)
Debt(fr, b) == IF fr.kind = "then" /\ b = fr.next THEN 2
               ELSE IF \/ fr.kind = "while" /\ b \in {fr.first, fr.next}
                       \/ fr.kind = "else" /\ b = fr.next
               THEN 1 ELSE 0
Missing(b, d) == \/ d = 0 /\ \A k \in 1 .. Len(stack) : Debt(stack[k], b) = 0
                 \/ d # 0 /\ \E k \in 1 .. Len(stack) : Debt(stack[k], b) = d
JumpInv == \A b \in BlockId :
             /\ IsFiniteSet(JumpsTo(b))
             /\ \E d \in 0 .. 2 : /\ Missing(b, d)
                                  /\ Cardinality(JumpsTo(b)) + d = InDegree(blocks[b].label)

LEMMA InJumpsTo ==
  ASSUME NEW b
  PROVE  /\ \A p : p \in JumpsTo(b) <=>
              \E i \in BlockId : \E j \in DOMAIN blocks[i].code :
                b \in blocks[i].code[j].targets /\ p = <<i, j>>
         /\ \A p : p \in JumpsTo(b)' <=>
              \E i \in BlockId' : \E j \in DOMAIN blocks'[i].code :
                b \in blocks'[i].code[j].targets /\ p = <<i, j>>
<1>1. ASSUME NEW p
      PROVE  p \in JumpsTo(b) <=>
              \E i \in BlockId : \E j \in DOMAIN blocks[i].code :
                b \in blocks[i].code[j].targets /\ p = <<i, j>>
  BY DEF JumpsTo
<1>2. ASSUME NEW p
      PROVE  p \in JumpsTo(b)' <=>
              \E i \in BlockId' : \E j \in DOMAIN blocks'[i].code :
                b \in blocks'[i].code[j].targets /\ p = <<i, j>>
  BY DEF JumpsTo
<1> QED
  BY <1>1, <1>2

(* The jumps to a block after an instruction is put at the insertion point.  *)
LEMMA JumpsGrow ==
  ASSUME CGInv, NEW ins \in Instr, NEW new \in Seq(BlockType), NEW set, Grows(ins, new, set),
         \A b \in Len(blocks) + 1 .. Len(blocks') : blocks'[b].code = <<>>
  PROVE  \E p : \A b : /\ p \notin JumpsTo(b)
                       /\ JumpsTo(b)' = IF b \in ins.targets THEN JumpsTo(b) \cup {p} ELSE JumpsTo(b)
<1>1. /\ insert \in BlockId /\ Len(blocks) \in Nat /\ Len(blocks') \in Nat
      /\ blocks \in Seq(BlockType)
      /\ \A i \in BlockId : i \in BlockId'
      /\ \A i \in BlockId' : i \notin BlockId => blocks'[i].code = <<>>
      /\ \A i \in BlockId :
           blocks'[i].code = IF i = insert THEN Append(blocks[i].code, ins) ELSE blocks[i].code
  <2>1. /\ insert \in BlockId /\ Len(blocks) \in Nat /\ Len(blocks') \in Nat
        /\ Len(blocks') >= Len(blocks) /\ blocks \in Seq(BlockType)
    BY Basics, GrowthKeeps DEF Grows, BlocksKept, BlockId
  <2>2. /\ \A i \in BlockId : i \in BlockId'
        /\ \A i \in BlockId' : i \notin BlockId => i \in Len(blocks) + 1 .. Len(blocks')
    BY <2>1 DEF BlockId
  <2> QED
    BY <2>1, <2>2 DEF Grows, Appends
<1>2. \A i \in BlockId : blocks[i].code \in Seq(Instr)
  <2> TAKE i \in BlockId
  <2>1. blocks[i] \in BlockType
    BY <1>1 DEF BlockId
  <2> QED
    BY <2>1 DEF BlockType
<1> DEFINE c == blocks[insert].code
           n == Len(c) + 1
           p == <<insert, n>>
<1>3. /\ DOMAIN c = 1 .. Len(c) /\ n \notin 1 .. Len(c)
      /\ DOMAIN Append(c, ins) = (1 .. Len(c)) \cup {n}
      /\ Append(c, ins)[n] = ins /\ \A j \in 1 .. Len(c) : Append(c, ins)[j] = c[j]
  <2>1. c \in Seq(Instr)
    BY <1>1, <1>2
  <2> HIDE DEF c
  <2> QED
    BY <2>1
<1>4. blocks'[insert].code = Append(c, ins)
  BY <1>1
<1> HIDE DEF c, n
<1>5. ASSUME NEW b
      PROVE  /\ p \notin JumpsTo(b)
             /\ \A q : q \in JumpsTo(b)' <=> (q \in JumpsTo(b) \/ (b \in ins.targets /\ q = p))
  <2>1. p \notin JumpsTo(b)
    <3> SUFFICES ASSUME p \in JumpsTo(b) PROVE FALSE
      OBVIOUS
    <3>0. PICK i \in BlockId : \E j \in DOMAIN blocks[i].code : p = <<i, j>>
      BY InJumpsTo
    <3>1. PICK j \in DOMAIN blocks[i].code : p = <<i, j>>
      BY <3>0
    <3>2. i = insert /\ j = n
      BY <3>1
    <3> QED
      BY <1>3, <3>1, <3>2 DEF c
  <2>2. ASSUME NEW q, q \in JumpsTo(b)
        PROVE  q \in JumpsTo(b)'
    <3>0. PICK i \in BlockId : \E j \in DOMAIN blocks[i].code :
            b \in blocks[i].code[j].targets /\ q = <<i, j>>
      BY <2>2, InJumpsTo
    <3>1. PICK j \in DOMAIN blocks[i].code : b \in blocks[i].code[j].targets /\ q = <<i, j>>
      BY <3>0
    <3>2. j \in DOMAIN blocks'[i].code /\ blocks'[i].code[j] = blocks[i].code[j]
      <4>1. CASE i = insert
        BY <1>3, <1>4, <3>1, <4>1 DEF c
      <4>2. CASE i # insert
        BY <1>1, <4>2
      <4> QED
        BY <4>1, <4>2
    <3> QED
      BY <1>1, <3>1, <3>2, InJumpsTo
  <2>3. b \in ins.targets => p \in JumpsTo(b)'
    <3> SUFFICES ASSUME b \in ins.targets PROVE p \in JumpsTo(b)'
      OBVIOUS
    <3>1. insert \in BlockId' /\ n \in DOMAIN blocks'[insert].code /\ blocks'[insert].code[n] = ins
      BY <1>1, <1>3, <1>4
    <3> QED
      BY <3>1, InJumpsTo
  <2>4. ASSUME NEW q, q \in JumpsTo(b)', q \notin JumpsTo(b)
        PROVE  b \in ins.targets /\ q = p
    <3>0. PICK i \in BlockId' : \E j \in DOMAIN blocks'[i].code :
            b \in blocks'[i].code[j].targets /\ q = <<i, j>>
      BY <2>4, InJumpsTo
    <3>1. PICK j \in DOMAIN blocks'[i].code : b \in blocks'[i].code[j].targets /\ q = <<i, j>>
      BY <3>0
    <3>2. i \in BlockId
      <4>1. blocks'[i].code = <<>> => DOMAIN blocks'[i].code = {}
        OBVIOUS
      <4> QED
        BY <1>1, <3>1, <4>1
    <3>3. ~(j \in DOMAIN blocks[i].code /\ blocks'[i].code[j] = blocks[i].code[j])
      BY <2>4, <3>1, <3>2, InJumpsTo
    <3>4. i = insert
      BY <1>1, <3>1, <3>2, <3>3
    <3>5. j = n
      BY <1>3, <1>4, <3>1, <3>3, <3>4 DEF c
    <3> QED
      BY <1>3, <1>4, <3>1, <3>4, <3>5
  <2> QED
    BY <2>1, <2>2, <2>3, <2>4
<1>6. ASSUME NEW b
      PROVE  JumpsTo(b)' = IF b \in ins.targets THEN JumpsTo(b) \cup {p} ELSE JumpsTo(b)
  <2>1. CASE b \in ins.targets
    <3>1. \A q : q \in JumpsTo(b)' <=> q \in JumpsTo(b) \cup {p}
      BY <1>5, <2>1
    <3> QED
      BY <2>1, <3>1
  <2>2. CASE b \notin ins.targets
    <3>1. \A q : q \in JumpsTo(b)' <=> q \in JumpsTo(b)
      BY <1>5, <2>2
    <3> QED
      BY <2>2, <3>1
  <2> QED
    BY <2>1, <2>2
<1> QED
  BY <1>5, <1>6

LEMMA JumpsSame ==
  ASSUME CGInv, \A b \in BlockId : b \in BlockId' /\ blocks'[b].code = blocks[b].code,
         \A b \in BlockId' : b \notin BlockId => blocks'[b].code = <<>>
  PROVE  \A b : JumpsTo(b)' = JumpsTo(b)
<1> TAKE b
<1>1. ASSUME NEW p, p \in JumpsTo(b) PROVE p \in JumpsTo(b)'
  BY <1>1, InJumpsTo
<1>2. ASSUME NEW p, p \in JumpsTo(b)' PROVE p \in JumpsTo(b)
  <2>1. PICK i \in BlockId' : \E j \in DOMAIN blocks'[i].code :
          b \in blocks'[i].code[j].targets /\ p = <<i, j>>
    BY <1>2, InJumpsTo
  <2>2. blocks'[i].code = <<>> => DOMAIN blocks'[i].code = {}
    OBVIOUS
  <2>3. i \in BlockId
    BY <2>1, <2>2
  <2> QED
    BY <2>1, <2>3, InJumpsTo
<1> QED
  BY <1>1, <1>2

(* A jump is owed for a block of one's own.                                  *)
LEMMA DebtsOwned ==
  ASSUME CGInv, NEW b
  PROVE  /\ \A fr : b \notin Own(fr) => Debt(fr, b) = 0
         /\ b \notin BlockId => \A k \in 1 .. Len(stack) : Debt(stack[k], b) = 0
         /\ InFunction /\ b \in Own(Top) => \A k \in 1 .. Len(stack) - 1 : Debt(stack[k], b) = 0
<1>1. ASSUME NEW fr, b \notin Own(fr) PROVE Debt(fr, b) = 0
  BY <1>1 DEF Own, Debt
<1>2. b \notin BlockId => \A k \in 1 .. Len(stack) : Debt(stack[k], b) = 0
  BY <1>1 DEF CGInv, FramesInv
<1>3. InFunction /\ b \in Own(Top) => \A k \in 1 .. Len(stack) - 1 : Debt(stack[k], b) = 0
  BY <1>1, TopOwns
<1> QED
  BY <1>1, <1>2, <1>3

LEMMA MissingMoves ==
  ASSUME CGInv, NEW n \in 1 .. Len(stack), SameFrames(n), Len(stack') \in Nat, Len(stack') >= n,
         NEW b
  PROVE  /\ /\ \A k \in n + 1 .. Len(stack) : Debt(stack[k], b) = 0
            /\ \A k \in n + 1 .. Len(stack') : Debt(stack'[k], b) = 0
            => \A d : Missing(b, d) => Missing(b, d)'
         /\ /\ \A k \in 1 .. n : Debt(stack[k], b) = 0
            /\ \A k \in n + 1 .. Len(stack') : Debt(stack'[k], b) = 0
            => \A d : d = 0 => Missing(b, d)'
         /\ Len(stack') = n + 1 => \A d : d # 0 /\ Debt(stack'[n + 1], b) = d => Missing(b, d)'
<1>0. Len(stack) \in Nat
  BY Basics
<1>1. \A k \in 1 .. n : /\ k \in 1 .. Len(stack) /\ k \in 1 .. Len(stack')
                        /\ Debt(stack'[k], b) = Debt(stack[k], b)
  <2> TAKE k \in 1 .. n
  <2>1. k \in 1 .. Len(stack) /\ k \in 1 .. Len(stack')
    BY <1>0
  <2>2. Debt(stack'[k], b) = Debt(stack[k], b)
    BY DEF SameFrames, Debt
  <2> QED
    BY <2>1, <2>2
<1>2. /\ \A k \in 1 .. Len(stack) : k \in 1 .. n \/ k \in n + 1 .. Len(stack)
      /\ \A k \in 1 .. Len(stack') : k \in 1 .. n \/ k \in n + 1 .. Len(stack')
  BY <1>0
<1>3. ASSUME \A k \in n + 1 .. Len(stack) : Debt(stack[k], b) = 0,
             \A k \in n + 1 .. Len(stack') : Debt(stack'[k], b) = 0,
             NEW d, Missing(b, d)
      PROVE  Missing(b, d)'
  <2>1. CASE d = 0
    <3>1. \A k \in 1 .. Len(stack') : Debt(stack'[k], b) = 0
      BY <1>1, <1>2, <1>3, <2>1 DEF Missing
    <3> QED
      BY <2>1, <3>1 DEF Missing
  <2>2. CASE d # 0
    <3>1. PICK k \in 1 .. Len(stack) : Debt(stack[k], b) = d
      BY <1>3, <2>2 DEF Missing
    <3>2. k \in 1 .. n
      BY <1>2, <1>3, <2>2, <3>1
    <3> QED
      BY <1>1, <2>2, <3>1, <3>2 DEF Missing
  <2> QED
    BY <2>1, <2>2
<1>4. ASSUME \A k \in 1 .. n : Debt(stack[k], b) = 0,
             \A k \in n + 1 .. Len(stack') : Debt(stack'[k], b) = 0,
             NEW d, d = 0
      PROVE  Missing(b, d)'
  <2>1. \A k \in 1 .. Len(stack') : Debt(stack'[k], b) = 0
    BY <1>1, <1>2, <1>4
  <2> QED
    BY <1>4, <2>1 DEF Missing
<1>5. ASSUME Len(stack') = n + 1, NEW d, d # 0, Debt(stack'[n + 1], b) = d
      PROVE  Missing(b, d)'
  <2>1. n + 1 \in 1 .. Len(stack')
    BY <1>0, <1>5
  <2> QED
    BY <1>5, <2>1 DEF Missing
<1> QED
  BY <1>3, <1>4, <1>5

(* A jump pays what is owed to its targets, or goes to blocks just created.  *)
LEMMA JumpPays ==
  ASSUME CGInv, JumpInv, NEW ins \in Instr, NEW new \in Seq(BlockType), NEW set,
         Grows(ins, new, set),
         \A b \in Len(blocks) + 1 .. Len(blocks') : blocks'[b].code = <<>> /\ JumpsTo(b) = {},
         \A b \in BlockId : \A d \in 0 .. 2 : Missing(b, d) =>
           IF b \in ins.targets THEN d > 0 /\ \A m : m = d - 1 => Missing(b, m)'
           ELSE Missing(b, d)',
         \A b \in Len(blocks) + 1 .. Len(blocks') : \E d \in 0 .. 2 :
           Missing(b, d)' /\ InDegree(blocks'[b].label) = IF b \in ins.targets THEN d + 1 ELSE d
  PROVE  JumpInv'
<1>1. /\ Len(blocks) \in Nat /\ Len(blocks') \in Nat
      /\ \A b \in BlockId : blocks'[b].label = blocks[b].label
      /\ \A b \in BlockId' : b \in BlockId \/ b \in Len(blocks) + 1 .. Len(blocks')
  <2>1. Len(blocks) \in Nat /\ Len(blocks') \in Nat
    BY Basics, GrowthKeeps DEF BlocksKept
  <2>2. \A b \in BlockId' : b \in BlockId \/ b \in Len(blocks) + 1 .. Len(blocks')
    BY <2>1 DEF BlockId
  <2> QED
    BY <2>1, <2>2, GrowthKeeps DEF BlocksKept
<1>2. PICK p : \A b : /\ p \notin JumpsTo(b)
                      /\ JumpsTo(b)' = IF b \in ins.targets THEN JumpsTo(b) \cup {p} ELSE JumpsTo(b)
  BY JumpsGrow
<1>3. ASSUME NEW b, IsFiniteSet(JumpsTo(b))
      PROVE  /\ IsFiniteSet(JumpsTo(b)') /\ Cardinality(JumpsTo(b)) \in Nat
             /\ Cardinality(JumpsTo(b)') = IF b \in ins.targets THEN Cardinality(JumpsTo(b)) + 1
                                           ELSE Cardinality(JumpsTo(b))
  BY <1>2, <1>3, FS_AddElement, FS_CardinalityType
<1> SUFFICES ASSUME NEW b \in BlockId'
             PROVE  /\ IsFiniteSet(JumpsTo(b)')
                    /\ \E d \in 0 .. 2 : /\ Missing(b, d)'
                                         /\ Cardinality(JumpsTo(b)') + d = InDegree(blocks'[b].label)
  BY DEF JumpInv
<1>4. CASE b \in BlockId
  <2>1. /\ IsFiniteSet(JumpsTo(b)) /\ blocks'[b].label = blocks[b].label
    BY <1>1, <1>4 DEF JumpInv
  <2>2. PICK d \in 0 .. 2 : Missing(b, d) /\ Cardinality(JumpsTo(b)) + d = InDegree(blocks[b].label)
    BY <1>4 DEF JumpInv
  <2>3. CASE b \in ins.targets
    <3>1. d > 0 /\ \A m : m = d - 1 => Missing(b, m)'
      BY <1>4, <2>2, <2>3
    <3>2. PICK m \in 0 .. 2 : m = d - 1
      BY <3>1
    <3>3. Cardinality(JumpsTo(b)') + m = Cardinality(JumpsTo(b)) + d
      BY <1>3, <2>1, <2>3, <3>2
    <3> QED
      BY <1>3, <2>1, <2>2, <3>1, <3>2, <3>3
  <2>4. CASE b \notin ins.targets
    BY <1>3, <1>4, <2>1, <2>2, <2>4
  <2> QED
    BY <2>3, <2>4
<1>5. CASE b \in Len(blocks) + 1 .. Len(blocks')
  <2>1. PICK d \in 0 .. 2 :
           Missing(b, d)' /\ InDegree(blocks'[b].label) = IF b \in ins.targets THEN d + 1 ELSE d
    BY <1>5
  <2>2. IsFiniteSet(JumpsTo(b)) /\ Cardinality(JumpsTo(b)) = 0
    BY <1>5, FS_EmptySet
  <2> QED
    BY <1>3, <2>1, <2>2
<1> QED
  BY <1>1, <1>4, <1>5

(* No jump is written; blocks that are created ask for none.                 *)
LEMMA NoJumpPaid ==
  ASSUME CGInv, JumpInv, BlocksKept({}),
         \A b \in BlockId : blocks'[b].code = blocks[b].code,
         \A b \in Len(blocks) + 1 .. Len(blocks') :
           blocks'[b].code = <<>> /\ JumpsTo(b) = {} /\ blocks'[b].label = "entry",
         \A b : \A d : Missing(b, d) => Missing(b, d)'
  PROVE  JumpInv'
<1>1. /\ \A b \in BlockId : b \in BlockId' /\ blocks'[b].label = blocks[b].label
      /\ \A b \in BlockId' : b \notin BlockId => b \in Len(blocks) + 1 .. Len(blocks')
  <2>1. Len(blocks) \in Nat /\ Len(blocks') \in Nat /\ Len(blocks') >= Len(blocks)
    BY Basics DEF BlocksKept
  <2>2. \A b \in BlockId : b \in BlockId'
    BY <2>1 DEF BlockId
  <2>3. \A b \in BlockId' : b \notin BlockId => b \in Len(blocks) + 1 .. Len(blocks')
    BY <2>1 DEF BlockId
  <2> QED
    BY <2>2, <2>3 DEF BlocksKept
<1>2. \A b : JumpsTo(b)' = JumpsTo(b)
  BY <1>1, JumpsSame
<1> SUFFICES ASSUME NEW b \in BlockId'
             PROVE  /\ IsFiniteSet(JumpsTo(b)')
                    /\ \E d \in 0 .. 2 : /\ Missing(b, d)'
                                         /\ Cardinality(JumpsTo(b)') + d = InDegree(blocks'[b].label)
  BY DEF JumpInv
<1>3. CASE b \in BlockId
  BY <1>1, <1>2, <1>3 DEF JumpInv
<1>4. CASE b \notin BlockId
  <2>1. JumpsTo(b) = {} /\ InDegree(blocks'[b].label) = 0
    BY <1>1, <1>4 DEF InDegree
  <2>2. \A d : d = 0 => Missing(b, d)
    BY <1>4, DebtsOwned DEF Missing
  <2>3. PICK d \in 0 .. 2 : d = 0
    OBVIOUS
  <2>4. JumpsTo(b)' = {} /\ IsFiniteSet({}) /\ Cardinality({}) = 0
    BY <1>2, <2>1, FS_EmptySet
  <2>5. Missing(b, d)'
    BY <2>2, <2>3
  <2>6. IsFiniteSet(JumpsTo(b)') /\ Cardinality(JumpsTo(b)') = 0
    BY <2>4
  <2> QED
    BY <2>1, <2>3, <2>5, <2>6
<1> QED
  BY <1>3, <1>4

(* Nothing jumps to a block before it is created.                            *)
LEMMA FreshBlocks ==
  ASSUME CGInv, ReachInv
  PROVE  \A b \in Len(blocks) + 1 .. Len(blocks') : JumpsTo(b) = {} /\ b \notin BlockId
<1>0. Len(blocks) \in Nat
  BY Basics
<1> TAKE b \in Len(blocks) + 1 .. Len(blocks')
<1>1. b \notin BlockId
  BY <1>0 DEF BlockId
<1>2. ASSUME NEW p, p \in JumpsTo(b) PROVE FALSE
  <2>1. PICK i \in BlockId : \E j \in DOMAIN blocks[i].code : b \in blocks[i].code[j].targets
    BY <1>2, InJumpsTo
  <2>2. PICK j \in DOMAIN blocks[i].code : b \in blocks[i].code[j].targets
    BY <2>1
  <2>3. blocks[i].code \in Seq(Instr)
    <3>1. blocks[i] \in BlockType
      BY Basics DEF BlockId
    <3> QED
      BY <3>1 DEF BlockType
  <2>4. j \in 1 .. Len(blocks[i].code)
    BY <2>3
  <2> QED
    BY <1>1, <2>2, <2>4 DEF ReachInv, Reaches
<1> QED
  BY <1>1, <1>2

LEMMA JumpOpens ==
  ASSUME CGInv, ReachInv, JumpInv, OpensLoop \/ OpensIf
  PROVE  JumpInv'
<1>0. /\ Len(stack) \in Nat /\ Len(blocks) \in Nat /\ Len(stack) \in 1 .. Len(stack)
      /\ Len(stack) + 1 .. Len(stack) = {}
      /\ \A b \in BlockId : b # Len(blocks) + 1 /\ b # Len(blocks) + 2 /\ b # Len(blocks) + 3
  BY Basics DEF BlockId
<1>1. ASSUME NEW fr, Pushes(fr), {fr.first, fr.next} \cap BlockId = {}
      PROVE  /\ \A b \in BlockId, d \in 0 .. 2 : Missing(b, d) => Missing(b, d)'
             /\ \A b : b \notin BlockId => \A d : Debt(fr, b) = d => Missing(b, d)'
  <2>1. /\ Len(stack') \in Nat /\ Len(stack') >= Len(stack) /\ SameFrames(Len(stack))
        /\ Len(stack') = Len(stack) + 1 /\ stack'[Len(stack) + 1] = fr
        /\ \A k \in Len(stack) + 1 .. Len(stack') : stack'[k] = fr
    BY <1>0, <1>1 DEF Pushes
  <2>2. \A b \in BlockId : Debt(fr, b) = 0
    BY <1>1 DEF Debt
  <2>3. ASSUME NEW b \in BlockId, NEW d \in 0 .. 2, Missing(b, d)
        PROVE  Missing(b, d)'
    BY <1>0, <2>1, <2>2, <2>3, MissingMoves
  <2>4. ASSUME NEW b, b \notin BlockId, NEW d, Debt(fr, b) = d
        PROVE  Missing(b, d)'
    <3>1. \A k \in 1 .. Len(stack) : Debt(stack[k], b) = 0
      BY <2>4, DebtsOwned
    <3>2. CASE d = 0
      BY <1>0, <2>1, <2>4, <3>1, <3>2, MissingMoves
    <3>3. CASE d # 0
      BY <1>0, <2>1, <2>4, <3>3, MissingMoves
    <3> QED
      BY <3>2, <3>3
  <2> QED
    BY <2>3, <2>4
<1>2. CASE OpensLoop
  <2>1. PICK ins \in Instr : ins.targets = {Len(blocks) + 1, Len(blocks) + 2} /\ Grows(ins, LoopBlocks, {})
    BY <1>2, LoopOpened
  <2>2. PICK fr \in FrameType : /\ fr.kind = "while" /\ fr.first = Len(blocks) + 1
                                /\ fr.next = Len(blocks) + 2 /\ Pushes(fr)
    BY <1>2, LoopOpened
  <2>3. /\ InFunction /\ Len(blocks') = Len(blocks) + 2
        /\ blocks'[Len(blocks) + 1].code = <<>> /\ blocks'[Len(blocks) + 1].label = "loop"
        /\ blocks'[Len(blocks) + 2].code = <<>> /\ blocks'[Len(blocks) + 2].label = "afterloop"
    BY <1>2, LoopOpened DEF NewBlock
  <2>4. LoopBlocks \in Seq(BlockType)
    <3>1. Here \in Function
      BY <2>3, Basics DEF Here
    <3>2. NewBlock(Here, "loop", TRUE) \in BlockType /\ NewBlock(Here, "afterloop", TRUE) \in BlockType
      BY <3>1, NewBlocksTyped DEF Label
    <3> QED
      BY <3>2, ShortLists DEF LoopBlocks
  <2>5. \A b \in Len(blocks) + 1 .. Len(blocks') : b \in {Len(blocks) + 1, Len(blocks) + 2}
    BY <1>0, <2>3
  <2>6. /\ \A b \in BlockId, d \in 0 .. 2 : Missing(b, d) => Missing(b, d)'
        /\ \A b : b \notin BlockId => \A d : Debt(fr, b) = d => Missing(b, d)'
    BY <1>0, <1>1, <2>2
  <2>7. ASSUME NEW b \in Len(blocks) + 1 .. Len(blocks')
        PROVE  /\ blocks'[b].code = <<>> /\ JumpsTo(b) = {}
               /\ \E d \in 0 .. 2 :
                    Missing(b, d)' /\ InDegree(blocks'[b].label) = IF b \in ins.targets THEN d + 1 ELSE d
    <3>1. JumpsTo(b) = {} /\ b \notin BlockId /\ b \in {Len(blocks) + 1, Len(blocks) + 2}
      BY <2>5, FreshBlocks
    <3>2. Debt(fr, b) = 1 /\ InDegree(blocks'[b].label) = 2 /\ b \in ins.targets
      BY <2>1, <2>2, <2>3, <3>1 DEF Debt, InDegree
    <3>3. PICK d \in 0 .. 2 : d = 1
      OBVIOUS
    <3> QED
      BY <2>3, <2>6, <3>1, <3>2, <3>3
  <2>8. \A b \in BlockId : b \notin ins.targets
    BY <1>0, <2>1
  <2> QED
    BY <2>1, <2>4, <2>6, <2>7, <2>8, JumpPays
<1>3. CASE OpensIf
  <2>1. PICK ins \in Instr : ins.targets = {Len(blocks) + 1, Len(blocks) + 2} /\ Grows(ins, IfBlocks, {})
    BY <1>3, IfOpened
  <2>2. PICK fr \in FrameType : /\ fr.kind = "then" /\ fr.first = Len(blocks) + 2
                                /\ fr.next = Len(blocks) + 3 /\ Pushes(fr)
    BY <1>3, IfOpened
  <2>3. /\ InFunction /\ Len(blocks') = Len(blocks) + 3
        /\ blocks'[Len(blocks) + 1].code = <<>> /\ blocks'[Len(blocks) + 1].label = "then"
        /\ blocks'[Len(blocks) + 2].code = <<>> /\ blocks'[Len(blocks) + 2].label = "else"
        /\ blocks'[Len(blocks) + 3].code = <<>> /\ blocks'[Len(blocks) + 3].label = "merge"
    BY <1>3, IfOpened DEF NewBlock
  <2>4. IfBlocks \in Seq(BlockType)
    <3>1. Here \in Function
      BY <2>3, Basics DEF Here
    <3>2. /\ NewBlock(Here, "then", TRUE) \in BlockType /\ NewBlock(Here, "else", FALSE) \in BlockType
          /\ NewBlock(Here, "merge", FALSE) \in BlockType
      BY <3>1, NewBlocksTyped DEF Label
    <3> QED
      BY <3>2, ShortLists DEF IfBlocks
  <2>5. \A b \in Len(blocks) + 1 .. Len(blocks') :
          b \in {Len(blocks) + 1, Len(blocks) + 2, Len(blocks) + 3}
    BY <1>0, <2>3
  <2>6. /\ \A b \in BlockId, d \in 0 .. 2 : Missing(b, d) => Missing(b, d)'
        /\ \A b : b \notin BlockId => \A d : Debt(fr, b) = d => Missing(b, d)'
    BY <1>0, <1>1, <2>2
  <2>7. ASSUME NEW b \in Len(blocks) + 1 .. Len(blocks')
        PROVE  /\ blocks'[b].code = <<>> /\ JumpsTo(b) = {}
               /\ \E d \in 0 .. 2 :
                    Missing(b, d)' /\ InDegree(blocks'[b].label) = IF b \in ins.targets THEN d + 1 ELSE d
    <3>1. JumpsTo(b) = {} /\ b \notin BlockId
      BY FreshBlocks
    <3>2. CASE b = Len(blocks) + 3
      <4>1. Debt(fr, b) = 2 /\ InDegree(blocks'[b].label) = 2 /\ b \notin ins.targets
        <5>1. b # Len(blocks) + 1 /\ b # Len(blocks) + 2
          BY <1>0, <3>2
        <5> QED
          BY <2>1, <2>2, <2>3, <3>2, <5>1 DEF Debt, InDegree
      <4>2. PICK d \in 0 .. 2 : d = 2
        OBVIOUS
      <4> QED
        BY <2>3, <2>6, <3>1, <3>2, <4>1, <4>2
    <3>3. CASE b \in {Len(blocks) + 1, Len(blocks) + 2}
      <4>1. Debt(fr, b) = 0 /\ InDegree(blocks'[b].label) = 1 /\ b \in ins.targets
        <5>1. b # Len(blocks) + 3
          BY <1>0, <3>3
        <5> QED
          BY <2>1, <2>2, <2>3, <3>3, <5>1 DEF Debt, InDegree
      <4>2. PICK d \in 0 .. 2 : d = 0
        OBVIOUS
      <4>3. Missing(b, d)' /\ blocks'[b].code = <<>>
        BY <2>3, <2>6, <3>1, <3>3, <4>1, <4>2
      <4>4. InDegree(blocks'[b].label) = d + 1
        BY <4>1, <4>2
      <4> QED
        BY <3>1, <4>1, <4>3, <4>4
    <3> QED
      BY <2>5, <3>2, <3>3
  <2>8. \A b \in BlockId : b \notin ins.targets
    BY <1>0, <2>1
  <2> QED
    BY <2>1, <2>4, <2>6, <2>7, <2>8, JumpPays
<1> QED
  BY <1>2, <1>3

LEMMA JumpCloses ==
  ASSUME CGInv, ReachInv, JumpInv, ClosesLoop \/ EndsThen \/ EndsElse
  PROVE  JumpInv'
<1>0. Len(stack) \in Nat /\ Len(blocks) \in Nat /\ <<>> \in Seq(BlockType) /\ Len(<<>>) = 0
  BY Basics
<1>1. ASSUME InFunction, NEW b \in Own(Top), NEW d, Missing(b, d)
      PROVE  d = Debt(Top, b)
  <2>1. \A k \in 1 .. Len(stack) : Debt(stack[k], b) = 0 \/ k = Len(stack)
    <3>1. \A k \in 1 .. Len(stack) : k \in 1 .. Len(stack) - 1 \/ k = Len(stack)
      BY <1>0
    <3> QED
      BY <1>1, <3>1, DebtsOwned
  <2>2. Len(stack) \in 1 .. Len(stack) /\ Top = stack[Len(stack)]
    BY <1>1, TopOwns
  <2> QED
    BY <1>1, <2>1, <2>2 DEF Missing
<1>2. ASSUME NEW ins \in Instr, NEW set, Grows(ins, <<>>, set), ins.targets \subseteq Own(Top),
             Pops \/ (\E fr \in FrameType : Swaps(fr)),
             \A b : b \in ins.targets <=> Debt(Top, b) # 0,
             \A b \in ins.targets : Debt(Top, b) \in {1, 2},
             Pops => \A b \in ins.targets : Debt(Top, b) = 1,
             \A fr : Swaps(fr) => /\ \A b : b \notin ins.targets => Debt(fr, b) = 0
                                  /\ \A b \in ins.targets : Debt(Top, b) = 2 /\ Debt(fr, b) = 1
      PROVE  JumpInv'
  <2>1. /\ InFunction /\ Len(blocks) + 1 .. Len(blocks') = {}
    <3>1. Len(blocks') = Len(blocks) + Len(<<>>)
      BY <1>2 DEF Grows, Appends
    <3> QED
      BY <1>0, <1>2, <3>1 DEF Grows
  <2>2. PICK n \in 1 .. Len(stack) : n = Len(stack) - 1
    <3>1. Len(stack) >= 2
      BY <2>1, TopOwns
    <3>2. Len(stack) - 1 \in 1 .. Len(stack)
      BY <1>0, <3>1
    <3> QED
      BY <3>2
  <2>6. /\ SameFrames(n) /\ Len(stack') \in Nat /\ Len(stack') >= n
        /\ \A k \in n + 1 .. Len(stack) : stack[k] = Top
    <3>1. SameFrames(n) /\ Len(stack') \in Nat /\ Len(stack') >= n
      BY <1>0, <1>2, <2>2 DEF Pops, Swaps
    <3>2. \A k \in n + 1 .. Len(stack) : k = Len(stack)
      BY <1>0, <2>2
    <3> QED
      BY <3>1, <3>2 DEF Top
  <2>7. Pops => Len(stack') = n /\ n + 1 .. Len(stack') = {}
    BY <1>0, <2>2 DEF Pops
  <2>8. ASSUME NEW fr, Swaps(fr)
        PROVE  /\ Len(stack') = n + 1 /\ stack'[n + 1] = fr
               /\ \A k \in n + 1 .. Len(stack') : stack'[k] = fr
    <3>1. Len(stack') = n + 1 /\ n + 1 = Len(stack) /\ stack'[Len(stack)] = fr
      BY <1>0, <2>2, <2>8 DEF Swaps
    <3>2. \A k \in n + 1 .. Len(stack') : k = Len(stack)
      BY <1>0, <3>1
    <3> QED
      BY <3>1, <3>2
  <2>3. ASSUME NEW b \in BlockId, NEW d \in 0 .. 2, Missing(b, d), b \notin ins.targets
        PROVE  Missing(b, d)'
    <3>1. Debt(Top, b) = 0
      BY <1>2, <2>3
    <3>2. \A k \in n + 1 .. Len(stack') : Debt(stack'[k], b) = 0
      BY <1>2, <2>3, <2>7, <2>8
    <3> QED
      BY <2>3, <2>6, <3>1, <3>2, MissingMoves
  <2>4. ASSUME NEW b \in BlockId, NEW d \in 0 .. 2, Missing(b, d), b \in ins.targets,
               NEW m, m = d - 1
        PROVE  d > 0 /\ Missing(b, m)'
    <3>1. d = Debt(Top, b) /\ \A k \in 1 .. n : Debt(stack[k], b) = 0
      BY <1>1, <1>2, <2>1, <2>2, <2>4, DebtsOwned
    <3>2. CASE Pops
      <4>1. d = 1 /\ m = 0
        BY <1>2, <2>4, <3>1, <3>2
      <4> QED
        BY <2>6, <2>7, <3>1, <3>2, <4>1, MissingMoves
    <3>3. ASSUME NEW fr, Swaps(fr) PROVE d > 0 /\ Missing(b, m)'
      <4>1. Debt(Top, b) = 2 /\ Debt(fr, b) = 1
        <5>1. \A c \in ins.targets : Debt(Top, c) = 2 /\ Debt(fr, c) = 1
          BY <1>2, <3>3
        <5> QED
          BY <2>4, <5>1
      <4>2. d = 2 /\ m = 1 /\ Debt(stack'[n + 1], b) = m /\ m # 0
        BY <2>4, <2>8, <3>1, <3>3, <4>1
      <4> QED
        BY <2>6, <2>8, <3>3, <4>2, MissingMoves
    <3> QED
      BY <1>2, <3>2, <3>3
  <2>5. \A b \in BlockId : \A d \in 0 .. 2 : Missing(b, d) =>
          IF b \in ins.targets THEN d > 0 /\ \A m : m = d - 1 => Missing(b, m)'
          ELSE Missing(b, d)'
    BY <2>3, <2>4
  <2> QED
    BY <1>0, <1>2, <2>1, <2>5, JumpPays
<1>3. \A fr \in FrameType : ~(Pops /\ Swaps(fr))
  BY <1>0 DEF Pops, Swaps
<1>4. CASE ClosesLoop
  <2>1. PICK ins \in Instr : ins.targets = {Top.first, Top.next} /\ Grows(ins, <<>>, {})
    BY <1>4, ClosesLoopShape
  <2>2. Pops /\ Top.kind = "while" /\ \A fr : ~Swaps(fr)
    <3>1. Pops /\ Top.kind = "while"
      BY <1>4, ClosesLoopShape DEF ClosesLoop
    <3> QED
      BY <1>0, <3>1 DEF Pops, Swaps
  <2>3. /\ ins.targets = Own(Top)
        /\ \A b : Debt(Top, b) = IF b \in ins.targets THEN 1 ELSE 0
    BY <2>1, <2>2 DEF Own, Debt
  <2> QED
    BY <1>2, <2>1, <2>2, <2>3
<1>5. CASE EndsThen
  <2>1. Top.kind = "then" /\ Own(Top) = {Top.first, Top.next} /\ Continues(Top.first)
    BY <1>5, ThenEnded
  <2>2. PICK fr \in FrameType : fr.kind = "else" /\ fr.next = Top.next /\ Swaps(fr)
    BY <1>5, ThenEnded
  <2>3. PICK ins \in Instr : ins.targets = {Top.next} /\ Grows(ins, <<>>, {Top.first})
    BY <2>1, BranchEnded, ContinuesShape
  <2>4. /\ \A b : Debt(Top, b) = IF b \in ins.targets THEN 2 ELSE 0
        /\ \A b : Debt(fr, b) = IF b \in ins.targets THEN 1 ELSE 0
    BY <2>1, <2>2, <2>3 DEF Debt
  <2>5. \A g : Swaps(g) => g = fr
    BY <2>2 DEF Swaps
  <2>6. ~Pops /\ ins.targets \subseteq Own(Top)
    BY <1>3, <2>1, <2>2, <2>3
  <2> QED
    BY <1>2, <2>2, <2>3, <2>4, <2>5, <2>6
<1>6. CASE EndsElse
  <2>1. Top.kind = "else" /\ Own(Top) = {Top.next} /\ Continues(Top.next) /\ stack' = Pop
    BY <1>6 DEF EndsElse, Own
  <2>2. Pops /\ \A fr : ~Swaps(fr)
    <3>1. Pops
      BY <2>1, BranchEnded, StackMoves
    <3> QED
      BY <1>0, <3>1 DEF Pops, Swaps
  <2>3. PICK ins \in Instr : ins.targets = {Top.next} /\ Grows(ins, <<>>, {Top.next})
    BY <2>1, BranchEnded, ContinuesShape
  <2>4. /\ ins.targets = Own(Top)
        /\ \A b : Debt(Top, b) = IF b \in ins.targets THEN 1 ELSE 0
    BY <2>1, <2>3 DEF Debt
  <2> QED
    BY <1>2, <2>2, <2>3, <2>4
<1> QED
  BY <1>4, <1>5, <1>6

LEMMA JumpNext ==
  ASSUME CGInv, ReachInv, JumpInv, Effect
  PROVE  JumpInv'
<1>0. /\ Len(stack) \in Nat /\ Len(blocks) \in Nat /\ Len(stack) \in 1 .. Len(stack)
      /\ Top = stack[Len(stack)] /\ <<>> \in Seq(BlockType) /\ Len(<<>>) = 0
      /\ Len(stack) + 1 .. Len(stack) = {}
  BY Basics DEF Top
<1>1. \A b \in Len(blocks) + 1 .. Len(blocks') : JumpsTo(b) = {} /\ b \notin BlockId
  BY FreshBlocks
<1>2. \/ Keeps
      \/ \E fr : Pushes(fr) /\ fr.kind \notin {"while", "then", "else"}
      \/ Pops /\ Top.kind \notin {"while", "then", "else"}
      \/ \E fr : Swaps(fr) /\ {Top.kind, fr.kind} \cap {"while", "then", "else"} = {}
      => \A b : \A d : Missing(b, d) => Missing(b, d)'
  <2>1. \A fr, b : fr.kind \notin {"while", "then", "else"} => Debt(fr, b) = 0
    BY DEF Debt
  <2>2. CASE Keeps
    <3>1. /\ Len(stack') \in Nat /\ Len(stack') >= Len(stack) /\ SameFrames(Len(stack))
          /\ Len(stack) + 1 .. Len(stack') = {}
      BY <1>0, <2>2 DEF Keeps
    <3> QED
      BY <1>0, <3>1, MissingMoves
  <2>3. ASSUME NEW fr, Pushes(fr), fr.kind \notin {"while", "then", "else"}
        PROVE  \A b : \A d : Missing(b, d) => Missing(b, d)'
    <3>1. /\ Len(stack') \in Nat /\ Len(stack') >= Len(stack) /\ SameFrames(Len(stack))
          /\ \A k \in Len(stack) + 1 .. Len(stack') : stack'[k] = fr
      BY <1>0, <2>3 DEF Pushes
    <3> QED
      BY <1>0, <2>1, <2>3, <3>1, MissingMoves
  <2>4. ASSUME Pops \/ (\E fr : Swaps(fr) /\ fr.kind \notin {"while", "then", "else"}),
               Top.kind \notin {"while", "then", "else"}
        PROVE  \A b : \A d : Missing(b, d) => Missing(b, d)'
    <3>1. /\ Len(stack') \in Nat /\ Len(stack') >= Len(stack) - 1 /\ SameFrames(Len(stack) - 1)
          /\ Len(stack) - 1 \in 1 .. Len(stack)
          /\ \A k \in (Len(stack) - 1) + 1 .. Len(stack) : stack[k] = Top
      BY <1>0, <2>4 DEF Pops, Swaps
    <3>2. \A k \in (Len(stack) - 1) + 1 .. Len(stack') : stack'[k].kind \notin {"while", "then", "else"}
      BY <1>0, <2>4 DEF Pops, Swaps
    <3> QED
      BY <2>1, <2>4, <3>1, <3>2, MissingMoves
  <2> QED
    BY <2>2, <2>3, <2>4
<1>3. ASSUME UNCHANGED blocks, \A b : \A d : Missing(b, d) => Missing(b, d)' PROVE JumpInv'
  <2>1. BlocksKept({}) /\ Len(blocks) + 1 .. Len(blocks') = {}
    BY <1>0, <1>3, KeptByGrowth
  <2> QED
    BY <1>3, <2>1, NoJumpPaid
<1>4. CASE Elsewhere
  <2>1. \A b : \A d : Missing(b, d) => Missing(b, d)'
    BY <1>4 DEF Elsewhere, Missing
  <2> QED
    BY <1>3, <1>4, <2>1 DEF Elsewhere
<1>5. CASE Moves
  <2>1. /\ Frame("block", TRUE, 0, 0, <<>>).kind = "block"
        /\ Frame("func", TRUE, 0, 0, <<>>).kind = "func"
    BY DEF Frame
  <2> QED
    BY <1>2, <1>3, <1>5, <2>1, MovesShape DEF Moves
<1>6. CASE Leaves
  <2>1. Pops /\ Top.kind = "func"
    BY <1>6, Basics, StackMoves DEF Leaves
  <2> QED
    BY <1>2, <1>3, <1>6, <2>1 DEF Leaves
<1>7. CASE Enters
  <2>1. PICK f \in Function : /\ blocks' = Append(blocks, NewBlock(f, "entry", TRUE))
                              /\ stack' = Append(stack, Frame("params", FALSE, 0, 0, <<>>))
    BY <1>7 DEF Enters
  <2>2. NewBlock(f, "entry", TRUE).code = <<>> /\ NewBlock(f, "entry", TRUE).label = "entry"
    BY DEF NewBlock
  <2>3. /\ BlocksKept({}) /\ \A b \in BlockId : blocks'[b] = blocks[b]
        /\ \A b \in Len(blocks) + 1 .. Len(blocks') :
             blocks'[b].code = <<>> /\ blocks'[b].label = "entry"
    <3>1. \A b \in Len(blocks) + 1 .. Len(blocks) + 1 : b = Len(blocks) + 1
      BY <1>0
    <3>2. /\ Len(blocks') = Len(blocks) + 1
          /\ blocks'[Len(blocks) + 1] = NewBlock(f, "entry", TRUE)
          /\ BlocksKept({}) /\ \A b \in BlockId : blocks'[b] = blocks[b]
      BY <2>1, FunctionEntered
    <3> QED
      BY <2>2, <3>1, <3>2
  <2>4. \A b : \A d : Missing(b, d) => Missing(b, d)'
    <3>1. Frame("params", FALSE, 0, 0, <<>>) \in FrameType
      <4>1. 0 \in 0 .. MaxBlocks /\ <<>> \in Seq(Leaf)
        BY CodeGenAssumption
      <4> QED
        BY <4>1 DEF Frame, FrameType
    <3>2. /\ Pushes(Frame("params", FALSE, 0, 0, <<>>))
          /\ Frame("params", FALSE, 0, 0, <<>>).kind = "params"
      BY <2>1, <3>1, StackMoves DEF Frame
    <3> QED
      BY <1>2, <3>2
  <2> QED
    BY <1>1, <2>3, <2>4, NoJumpPaid
<1>8. ASSUME NEW ins, NEW set, Grows(ins, <<>>, set)
      PROVE  Len(blocks) + 1 .. Len(blocks') = {}
  <2>1. Len(blocks') = Len(blocks) + Len(<<>>)
    BY <1>8 DEF Grows, Appends
  <2> QED
    BY <1>0, <2>1
<1>9. CASE Writes
  <2>1. Keeps /\ \E ins \in Instr : ins.op \notin Jumps /\ Grows(ins, <<>>, {})
    BY <1>9, WritesShape
  <2>2. PICK ins \in Instr : ins.targets = {} /\ Grows(ins, <<>>, {})
    BY <2>1 DEF Grows, Fit
  <2> QED
    BY <1>0, <1>2, <1>8, <2>1, <2>2, JumpPays
<1>10. CASE OpensLoop \/ OpensIf
  BY <1>10, JumpOpens
<1>11. CASE ClosesLoop \/ EndsThen \/ EndsElse
  BY <1>11, JumpCloses
<1> QED
  BY <1>4, <1>5, <1>6, <1>7, <1>9, <1>10, <1>11 DEF Effect

(* Every block is jumped to as often as its role asks, from its own function *)
(* only, however the visits that write those jumps are nested; while they    *)
(* are open exactly the jumps still to come are missing.                     *)
THEOREM EveryJumpWritten == CGSpec => []JumpsComplete
<1>1. CGInit => ReachInv /\ JumpInv
  <2>1. CGInit => BlockId = {}
    BY DEF CGInit, BlockId
  <2> QED
    BY <2>1 DEF ReachInv, JumpInv
<1>2. CGInv /\ ReachInv /\ JumpInv /\ [CGNext]_vars => ReachInv' /\ JumpInv'
  BY StepEffect, ReachNext, JumpNext
<1>3. ASSUME CGInv, ReachInv, JumpInv PROVE JumpsComplete
  <2>a. ASSUME NEW b \in BlockId, NEW jump \in JumpsTo(b)
        PROVE  blocks[jump[1]].fn = blocks[b].fn
    <3>1. PICK i \in BlockId : \E j \in DOMAIN blocks[i].code :
            b \in blocks[i].code[j].targets /\ jump = <<i, j>>
      BY InJumpsTo
    <3>2. blocks[i].code \in Seq(Instr)
      <4>1. blocks[i] \in BlockType
        BY <1>3, Basics DEF BlockId
      <4> QED
        BY <4>1 DEF BlockType
    <3>3. PICK j \in 1 .. Len(blocks[i].code) :
            b \in blocks[i].code[j].targets /\ jump = <<i, j>>
      BY <3>1, <3>2
    <3>4. Reaches(blocks[i].code[j], blocks[i].fn)
      BY <1>3, <3>3 DEF ReachInv
    <3> QED
      BY <3>3, <3>4 DEF Reaches
  <2> SUFFICES ASSUME NEW b \in BlockId
               PROVE  Cardinality(JumpsTo(b)) + Owed(b) = InDegree(blocks[b].label)
    BY <2>a DEF JumpsComplete
  <2> DEFINE frames == {k \in DOMAIN stack :
                          \/ stack[k].kind = "while" /\ b \in {stack[k].first, stack[k].next}
                          \/ stack[k].kind \in {"then", "else"} /\ b = stack[k].next}
             twice == {k \in frames : stack[k].kind = "then"}
  <2>1. DOMAIN stack = 1 .. Len(stack)
    <3>1. stack \in Seq(FrameType)
      BY <1>3, Basics
    <3> QED
      BY <3>1
  <2>2. /\ \A k : k \in frames <=> k \in 1 .. Len(stack) /\ Debt(stack[k], b) # 0
        /\ \A k : k \in twice <=> k \in 1 .. Len(stack) /\ Debt(stack[k], b) = 2
    BY <2>1 DEF Debt
  <2>3. Owed(b) = Cardinality(frames) + Cardinality(twice)
    BY DEF Owed
  <2> HIDE DEF frames, twice
  <2>4. PICK d \in 0 .. 2 : Missing(b, d) /\ Cardinality(JumpsTo(b)) + d = InDegree(blocks[b].label)
    BY <1>3 DEF JumpInv
  <2>5. Cardinality(frames) + Cardinality(twice) = d
    <3>1. CASE d = 0
      <4>1. frames = {} /\ twice = {}
        BY <2>2, <2>4, <3>1 DEF Missing
      <4> QED
        BY <3>1, <4>1, FS_EmptySet
    <3>2. CASE d # 0
      <4>1. PICK k \in 1 .. Len(stack) : Debt(stack[k], b) = d
        BY <2>4, <3>2 DEF Missing
      <4>2. \A l \in 1 .. Len(stack) : l # k => Debt(stack[l], b) = 0
        <5>1. b \in Own(stack[k])
          BY <1>3, <3>2, <4>1, DebtsOwned
        <5>2. \A l \in 1 .. Len(stack) : l # k => b \notin Own(stack[l])
          BY <1>3, <5>1 DEF CGInv, FramesInv
        <5> QED
          BY <1>3, <5>2, DebtsOwned
      <4>3. frames = {k}
        BY <2>2, <3>2, <4>1, <4>2
      <4>4. twice = IF d = 2 THEN {k} ELSE {}
        BY <2>2, <4>1, <4>2
      <4>5. Cardinality({k}) = 1 /\ Cardinality({}) = 0
        BY FS_EmptySet, FS_Singleton
      <4>6. Cardinality(twice) = IF d = 2 THEN 1 ELSE 0
        BY <4>4, <4>5
      <4> QED
        BY <3>2, <4>3, <4>5, <4>6
    <3> QED
      BY <3>1, <3>2
  <2> QED
    BY <2>3, <2>4, <2>5
<1> QED
  BY <1>1, <1>2, <1>3, CGInvHolds, PTL DEF CGSpec
=============================================================================
