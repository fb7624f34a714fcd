------------------------------- MODULE ValueIR -------------------------------
(***************************************************************************)
(* The program as the search for missing checks sees it.  Values (instructions, *)
(* parameters, constants, globals) are numbers, and so are the blocks of all     *)
(* functions.  A record of Programs:                                           *)
(*   op[v]     the value: kind, block (0 outside of blocks) and operands; a call   *)
(*             also has the function it names (NoFun: none) and Ctx->Callees of    *)
(*             it in the order of the set, a comparison its predicate            *)
(*   owner, succ   of a block: its function, the blocks behind it                *)
(*   fn[f]     a function: parameters, entry block (0: only declared), whether    *)
(*             its address is taken, whether it is unified and small enough to be  *)
(*             looked at, whether its calls are passed over (an intrinsic or one    *)
(*             of six names), its checks: Ctx->CheckInstSets                      *)
(*   order     the functions of the modules, in order                           *)
(*   pointer   the values of pointer type                                       *)
(*   must, may   what LLVM's alias analysis says of two pointers, in any order    *)
(* The operands are <<pointer>> of a load, <<value, pointer>> of a store, the base *)
(* of a gep, the two results of a select, the size of an alloca.                 *)
(***************************************************************************)
EXTENDS Integers, Sequences, FiniteSets, FiniteSetsExt, Functions, Bags

CONSTANTS Fun, NoFun, Programs

VARIABLE prog   \* never changes

Kind == {"argument", "constant", "global", "alloca", "load", "store", "gep", "phi", "select", "cast",
         "binary", "cmp", "switch", "return", "call"}
Predicate == {"eq", "ne", "gt", "ge", "lt", "le", "float"}

ValueRecord == [kind : Kind, block : Nat, args : Seq(Nat), pred : Predicate,
                callee : Fun \cup {NoFun}, callees : Seq(Fun)]
FunRecord == [params : Seq(Nat), entry : Nat, taken : BOOLEAN, analysed : BOOLEAN, ignored : BOOLEAN,
              checks : SUBSET Nat]

ASSUME NullAssumption == NoFun \notin Fun
ASSUME NameAssumption == \A f \in Fun : f \notin Nat
ASSUME ProgramsAssumption ==
  Programs \subseteq [op : Seq(ValueRecord), owner : Seq(Fun), succ : Seq(SUBSET Nat),
                      fn : [Fun -> FunRecord], order : Seq(Fun), pointer : SUBSET Nat,
                      must : SUBSET SUBSET Nat, may : SUBSET SUBSET Nat]

(* What is reached from the members of S by next; there are at most bound of them.  *)
Closure(S, bound, next) ==
  LET c[n \in 0 .. bound] == IF n = 0 THEN S ELSE UNION {{x} \cup next[x] : x \in c[n - 1]} IN
  c[bound]
Reach(succ, b) == Closure({b}, Len(succ), succ)

(* What LLVM's verifier guarantees: a constant, a global and a parameter are outside of   *)
(* blocks; operands are values; what uses an instruction is behind it, what uses a        *)
(* parameter is in its function, in blocks behind the entry (code that cannot be reached  *)
(* may use anything, and is left out).  A function with a body that is called through a    *)
(* pointer has as many parameters as it is given: calls of variadic functions are only    *)
(* taken in where they are direct.                                                     *)
Outside == {"constant", "global", "argument"}
WellFormed(p) ==
  LET value == DOMAIN p.op
      block == DOMAIN p.succ
      users(v) == {u \in value : v \in Range(p.op[u].args)} IN
  /\ p.order # <<>> /\ DOMAIN p.owner = block
  /\ \A b \in block : p.succ[b] \subseteq {c \in block : p.owner[c] = p.owner[b]}
  /\ \A v \in value :
       LET o == p.op[v] IN
       /\ IF o.kind \in Outside THEN o.block = 0 /\ o.args = <<>> ELSE o.block \in block
       /\ Range(o.args) \subseteq value
       /\ o.kind \in {"load", "gep", "cast"} => o.args # <<>>
       /\ o.kind \in {"store", "cmp"} => Len(o.args) = 2
       /\ o.kind = "argument" => \E f \in Fun : v \in Range(p.fn[f].params)
       /\ o.kind \notin Outside => \A u \in users(v) : p.op[u].block \in Reach(p.succ, o.block)
       /\ o.kind = "call" /\ o.callee = NoFun =>
            \A f \in Range(o.callees) : p.fn[f].entry # 0 => Len(o.args) <= Len(p.fn[f].params)
  /\ \A f \in Fun :
       /\ p.fn[f].checks \subseteq value /\ p.fn[f].entry \in block \cup {0}
       /\ \A v \in Range(p.fn[f].params) :
            /\ v \in value /\ p.op[v].kind = "argument"
            /\ \A u \in users(v) : p.owner[p.op[u].block] = f /\ p.op[u].block \in Reach(p.succ, p.fn[f].entry)

ASSUME WellFormedAssumption == \A p \in Programs : WellFormed(p)

Value == DOMAIN prog.op
Block == DOMAIN prog.succ
Is(v, kinds) == prog.op[v].kind \in kinds
Arg(v, n) == prog.op[v].args[n]
Home(v) == prog.op[v].block
Instruction(v) == Home(v) # 0
FunOf(v) == prog.owner[Home(v)]
Of(f, kinds) == {v \in Value : Is(v, kinds) /\ Instruction(v) /\ FunOf(v) = f}

Users(v) == {u \in Value : v \in Range(prog.op[u].args)}
ArgNo(u, v) == Min({n \in DOMAIN prog.op[u].args : Arg(u, n) = v}) - 1
ParamNo(f, v) == Min({n \in DOMAIN prog.fn[f].params : prog.fn[f].params[n] = v})

(* collectSuccReachBlocks, collectPredReachBlocks.                            *)
SuccReach(b) == Reach(prog.succ, b)
PredReach(b) == {x \in Block : b \in SuccReach(x)}
=============================================================================
