--------------------------- MODULE PointerAnalysis ---------------------------
(***************************************************************************)
(* PointerAnalysisPass: which pointers of a function may be the same, as far as  *)
(* LLVM's alias analysis and a common source pointer tell.                       *)
(***************************************************************************)
EXTENDS ValueIR

VARIABLE FuncPAResults   \* [Fun -> set of pairs of pointers]

MaxPointers == 1000

(* The source of a pointer: up through casts, loads and getelementptrs, to the one    *)
(* pointer that is none of them.                                                 *)
Upward(v) ==
  IF \/ Is(v, {"gep"})
     \/ Is(v, {"cast", "load"}) /\ Arg(v, 1) \in prog.pointer /\ Instruction(Arg(v, 1))
  THEN {Arg(v, 1)} ELSE {}
SourcePointer(p) ==
  {v \in Closure({p}, Len(prog.op), [w \in Value |-> Upward(w)]) : Upward(v) = {}}

(* The pointers that instructions of f load from, store to or pass on.           *)
Addresses(f) ==
  {Arg(v, 1) : v \in Of(f, {"load"})} \cup {Arg(v, 2) : v \in Of(f, {"store"})}
    \cup UNION {Range(prog.op[v].args) \cap prog.pointer : v \in Of(f, {"call"})}

Alias(p, q) ==
  \/ {p, q} \in prog.must
  \/ {p, q} \in prog.may /\ SourcePointer(p) = SourcePointer(q)

AliasPointers(f) ==
  IF Cardinality(Addresses(f)) > MaxPointers THEN {}
  ELSE {e \in Addresses(f) \X Addresses(f) : e[1] # e[2] /\ Alias(e[1], e[2])}

DetectAliasPointers(f) ==
  FuncPAResults' = [FuncPAResults EXCEPT ![f] = AliasPointers(f)]
=============================================================================
