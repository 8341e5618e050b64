---------------------------- MODULE MCLLVMCodeGen ----------------------------
(* Model-checking instances of LLVMCodeGen.                                  *)
EXTENDS LLVMCodeGen, TLC

(* LLVM makes "f1" of the second "f".                                        *)
Numbered == [n \in Name |-> IF n = "f" THEN {"f1"} \cap Name ELSE {}]

(* For control flow: calls, as conditions too.                               *)
Calls == {<<[kind |-> "call", name |-> "f"]>>}
(* For names: a number, or a name read.                                      *)
OneLeaf == {<<>>, <<[kind |-> "name", name |-> "f"]>>}

(* Three definitions in all: two functions and a variable, or one and two.   *)
ThreeDefinitions ==
  Len(storage) + Cardinality({f \in Function : fnName[f] # Unbound}) <= 3

Interchangeable == Permutations(Function)
=============================================================================
