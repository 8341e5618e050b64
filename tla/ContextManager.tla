--------------------------- MODULE ContextManager ---------------------------
(* The symbol table of the code generator (ContextManager.cpp, .h): a list   *)
(* of maps from names to (value, type), innermost scope last, and beside it  *)
(* the stack of functions the scopes belong to.  A definition creates        *)
(* storage: a module variable when only the outermost scope is open, an      *)
(* alloca at the front of the entry block of the innermost function          *)
(* otherwise.  A value (llvm::Value pointer) is modelled by the number of the   *)
(* storage it denotes; integers stored or sized are abstracted.              *)
EXTENDS Naturals, Sequences

CONSTANTS Name,         \* identifiers
          Function,     \* the llvm::Function objects
          NullFunction, \* the nullptr the constructor passes to enterBlock
          Unbound,      \* a name a map does not hold
          MaxDepth,     \* bound on the number of open scopes
          MaxStorage    \* bound on the number of definitions

ASSUME ContextAssumption == /\ NullFunction \notin Function
                            /\ MaxDepth \in Nat /\ MaxStorage \in Nat

VARIABLES symTable,     \* _sym_table
          func,         \* _func, top last
          storage,      \* every variable created so far, in creation order
          entry         \* what the definitions put in front of f's entry block

cmVars == <<symTable, func, storage, entry>>

StorageId == 1 .. MaxStorage
ElemType == {"Constant", "Int", "Pointer", "Array"}
Binding  == [value : StorageId, type : ElemType]
Owner    == Function \cup {NullFunction}
Storage  == [owner : Owner, kind : {"word", "pointer", "array"},
             readonly : BOOLEAN, init : {"none", "zero", "given"}]
ASSUME UnboundAssumption == Unbound \notin Binding
EntryOp  == [op : {"alloca", "init"}, of : StorageId]

(* The scope table the names are read from: outermost map first.             *)
NoBindings == [n \in Name |-> Unbound]
Holders(table, n) == {i \in 1 .. Len(table) : table[i][n] # Unbound}
(* Mutant: the search starts at the outermost map.                           *)
OutermostFirst(S) == CHOOSE i \in S : \A j \in S : i <= j
Innermost(S) == CHOOSE i \in S : \A j \in S : j <= i

(* The search of get and getType, from the last map to the first.            *)
LookupIn(table, n) == IF Holders(table, n) = {} THEN Unbound
                      ELSE table[Innermost(Holders(table, n))][n]
lookup(n)   == LookupIn(symTable, n)
get(n)      == IF lookup(n) = Unbound THEN 0 ELSE lookup(n).value
getType(n)  == IF lookup(n) = Unbound THEN "Error" ELSE lookup(n).type

AtModuleLevel == Len(symTable) = 1
CurrentFunction == func[Len(func)]
-----------------------------------------------------------------------------
(* Scopes                                                                    *)
CMInit == /\ symTable = <<NoBindings>>
          /\ func = <<NullFunction>>
          /\ storage = <<>>
          /\ entry = [f \in Function |-> <<>>]

enterBlock(f) == /\ Len(symTable) < MaxDepth
                 /\ symTable' = Append(symTable, NoBindings)
                 /\ func' = Append(func, f)
                 /\ UNCHANGED <<storage, entry>>

(* Mutant: the function stack is not popped.                                 *)
exitBlockKeepsFunction ==
  /\ Len(symTable) > 1
  /\ symTable' = SubSeq(symTable, 1, Len(symTable) - 1)
  /\ UNCHANGED <<func, storage, entry>>

(* Mutant: one map for all scopes, names stay when a scope is left.          *)
exitBlockKeepsNames ==
  /\ Len(symTable) > 1
  /\ symTable' = [SubSeq(symTable, 1, Len(symTable) - 1)
                    EXCEPT ![Len(symTable) - 1] = [n \in Name |-> lookup(n)]]
  /\ func' = SubSeq(func, 1, Len(func) - 1)
  /\ UNCHANGED <<storage, entry>>

(* The constructor's scope stays open: no caller closes more than it opened. *)
exitBlock == /\ Len(symTable) > 1
             /\ symTable' = SubSeq(symTable, 1, Len(symTable) - 1)
             /\ func' = SubSeq(func, 1, Len(func) - 1)
             /\ UNCHANGED <<storage, entry>>
-----------------------------------------------------------------------------
(* Definitions.  Only module variables are marked constant or given their    *)
(* value in place; a local gets an alloca and, if it has a scalar value, a   *)
(* store right behind it, both in front of all that the entry block holds.   *)
NewStorage == Len(storage) + 1

AllocateGlobal(kind, readonly, init) ==
  /\ AtModuleLevel
  /\ storage' = Append(storage, [owner |-> NullFunction, kind |-> kind,
                                 readonly |-> readonly, init |-> init])
  /\ UNCHANGED entry

(* Mutants: the alloca goes to the outermost function; the store comes       *)
(* before the alloca.                                                        *)
AllocateInOutermost(kind, stored) ==
  LET f == func[2] IN
  /\ ~AtModuleLevel
  /\ storage' = Append(storage, [owner |-> f, kind |-> kind,
                                 readonly |-> FALSE, init |-> "none"])
  /\ entry' = [entry EXCEPT ![f] = <<[op |-> "alloca", of |-> NewStorage]>> \o @]
AllocateOrdered(kind, stored, front(_, _, _)) ==
  LET alloca == <<[op |-> "alloca", of |-> NewStorage]>>
      store  == IF stored THEN <<[op |-> "init", of |-> NewStorage]>> ELSE <<>>
  IN /\ ~AtModuleLevel
     /\ storage' = Append(storage, [owner |-> CurrentFunction, kind |-> kind,
                                    readonly |-> FALSE, init |-> "none"])
     /\ entry' = [entry EXCEPT ![CurrentFunction] = front(alloca, store, @)]
StoreThenAlloca(kind, stored) ==
  AllocateOrdered(kind, stored, LAMBDA a, s, old : s \o a \o old)

AllocateLocal(kind, stored) ==
  LET alloca == <<[op |-> "alloca", of |-> NewStorage]>>
      store  == IF stored THEN <<[op |-> "init", of |-> NewStorage]>> ELSE <<>>
  IN /\ ~AtModuleLevel
     /\ storage' = Append(storage, [owner |-> CurrentFunction, kind |-> kind,
                                    readonly |-> FALSE, init |-> "none"])
     /\ entry' = [entry EXCEPT ![CurrentFunction] = alloca \o store \o @]

Bind(n, type) ==
  /\ Len(storage) < MaxStorage
  /\ symTable' = [symTable EXCEPT ![Len(symTable)] =
                    [@ EXCEPT ![n] = [value |-> NewStorage, type |-> type]]]
  /\ UNCHANGED func

defConstant(n) ==
  /\ Bind(n, "Constant")
  /\ \/ AllocateGlobal("word", TRUE, "given")
     \/ AllocateLocal("word", TRUE)

(* Mutant: a name visible from outside is not given storage of its own.      *)
defVariableReuses(n) ==
  /\ Len(storage) < MaxStorage
  /\ symTable' = [symTable EXCEPT ![Len(symTable)] = [@ EXCEPT ![n] =
       IF lookup(n) = Unbound THEN [value |-> NewStorage, type |-> "Int"]
       ELSE lookup(n)]]
  /\ UNCHANGED func
  /\ \/ AllocateGlobal("word", FALSE, "zero")
     \/ AllocateLocal("word", FALSE)

defVariable(n) ==
  /\ Bind(n, "Int")
  /\ \/ AllocateGlobal("word", FALSE, "zero")
     \/ AllocateLocal("word", FALSE)

defVariableInit(n) ==
  /\ Bind(n, "Int")
  /\ \/ AllocateGlobal("word", FALSE, "given")
     \/ AllocateLocal("word", TRUE)

(* Called for the parameters of an entered function only (visitParam).       *)
defPointer(n) == /\ Bind(n, "Pointer")
                 /\ AllocateLocal("pointer", FALSE)

defArray(n) ==
  /\ Bind(n, "Array")
  /\ \/ AllocateGlobal("array", FALSE, "zero")
     \/ AllocateLocal("array", FALSE)

(* The branch for locals does not look at the values.                        *)
defArrayInit(n) ==
  /\ Bind(n, "Array")
  /\ \/ AllocateGlobal("array", FALSE, "given")
     \/ AllocateLocal("array", FALSE)

Define(n) == \/ defConstant(n) \/ defVariable(n) \/ defVariableInit(n)
             \/ defPointer(n)  \/ defArray(n)    \/ defArrayInit(n)

CMNext == \/ \E f \in Function : enterBlock(f)
          \/ exitBlock
          \/ \E n \in Name : Define(n)

CMSpec == CMInit /\ [][CMNext]_cmVars
-----------------------------------------------------------------------------
(* Properties                                                                *)

(* The shape of the four variables.                                          *)
CMTypeOK ==
  /\ symTable \in Seq([Name -> Binding \cup {Unbound}])
  /\ func \in Seq(Owner)
  /\ storage \in Seq(Storage)
  /\ entry \in [Function -> Seq(EntryOp)]

(* The two stacks move together, and only the constructor's scope is the     *)
(* module's: otherwise a local would be allocated through a null function or *)
(* in the wrong one, or a global would become a local.                       *)
ScopesMatchFunctions ==
  /\ Len(func) = Len(symTable)
  /\ Len(symTable) >= 1
  /\ \A i \in 1 .. Len(func) : func[i] = NullFunction <=> i = 1

KindOf(type) == IF type = "Array" THEN "array"
                ELSE IF type = "Pointer" THEN "pointer" ELSE "word"

(* A name bound in a scope stands for storage of the function that scope     *)
(* belongs to, of the kind its type promises to the code that reads it       *)
(* (visitLVal chooses load or address computation by getType).               *)
BindingsOwned ==
  \A i \in 1 .. Len(symTable), n \in Name :
    LET b == symTable[i][n] IN
    b # Unbound =>
      /\ b.value \in 1 .. Len(storage)
      /\ storage[b.value].owner = func[i]
      /\ storage[b.value].kind = KindOf(b.type)

(* No two visible or shadowed declarations share storage.                    *)
NoAliasing ==
  \A i, j \in 1 .. Len(symTable), m, n \in Name :
    /\ symTable[i][m] # Unbound
    /\ symTable[j][n] # Unbound
    /\ symTable[i][m].value = symTable[j][n].value
    => i = j /\ m = n

(* Each local has exactly one alloca, in its own function, and an initial    *)
(* store never runs before the alloca it writes to although every new        *)
(* definition is put in front of the older ones.                             *)
AllocaFirst ==
  \A s \in 1 .. Len(storage), f \in Function :
    LET Places(kind) ==
          {i \in 1 .. Len(entry[f]) : entry[f][i] = [op |-> kind, of |-> s]}
    IN /\ (storage[s].owner = f) = (\E i \in 1 .. Len(entry[f]) :
                                      Places("alloca") = {i})
       /\ \A i \in Places("init") : \E j \in Places("alloca") : j < i

(* A definition gives storage to one name and takes effect at once, whatever *)
(* the name meant before; no other name changes its meaning.                 *)
DefinitionsTakeEffect ==
  [][storage' # storage =>
       \E n \in Name : /\ get(n)' = Len(storage')
                       /\ \A m \in Name \ {n} : lookup(m)' = lookup(m)]_cmVars

(* The maps and the search implement lexical scoping: what the search finds  *)
(* through the first i maps is the i-th environment of ScopedEnv.            *)
EnvironmentsOf(table) ==
  [i \in 1 .. Len(table) |->
     [n \in Name |-> LookupIn(SubSeq(table, 1, i), n)]]

Scoping == INSTANCE ScopedEnv WITH Entry <- Binding, Absent <- Unbound,
                                   env <- EnvironmentsOf(symTable)
ImplementsScoping == Scoping!Spec
=============================================================================
