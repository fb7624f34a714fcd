-------------------------------- MODULE FlowIR --------------------------------
(***************************************************************************)
(* The part of a function's LLVM code that SecurityChecksPass looks at when  *)
(* it asks where a returned value comes from.  A record of Bodies is one      *)
(* function of the blocks 1..N:                                              *)
(*   succ[b]   the successors of b's terminator, by index;                    *)
(*   test[b]   the operands of the condition that terminator tests, {} when   *)
(*             the condition is no instruction;                              *)
(*   home[i]   the block of instruction i;                                   *)
(*   op[i]     what i does;                                                  *)
(*   stores    the store instructions; a cell is a pointer, as an SSA value;  *)
(*   returns   the return instructions that return a value, in order;        *)
(*   pointer   the function returns a pointer;                               *)
(*   handlers  the blocks that call one of ErrorHandleFuncs.                  *)
(***************************************************************************)
EXTENDS ErrFlags, Naturals, Sequences

CONSTANTS N,       \* the number of basic blocks
          Instr,   \* the instructions that compute a value
          Cell,    \* the pointers
          Bodies   \* the functions under analysis

Block == 1 .. N

(* Constants: a negative number above -4096 or an encoded errno, or an        *)
(* expression with one in it; a null pointer; any other.                      *)
Const == {"errno", "null", "constant"}
Value == Instr \cup Const \cup {"argument"}
Site == Block \X Value    \* a value, and the block that supplies it

(* What is known of a call: called through a pointer; ERR_PTR or PTR_ERR by    *)
(* name; no body known for the callee; what mayReturnErr says of the first.    *)
Callee == {"indirect", "errPtr", "unresolved", "mayErr", "noErr"}

(* A unary operation is one of UnaryInstruction, or a getelementptr.          *)
Op == [kind : {"load"}, cell : Cell]
        \cup [kind : {"phi"}, from : SUBSET Site]
        \cup [kind : {"unary"}, operand : Value]
        \cup [kind : {"select"}, yes : Value, no : Value]
        \cup [kind : {"call"}, callee : Callee]
        \cup [kind : {"binary", "other"}]

Store == [block : Block, value : Value, cell : Cell]

ASSUME NAssumption == N \in Nat \ {0}

ASSUME InstrAssumption == Instr \cap (Const \cup {"argument"}) = {}

ASSUME BodiesAssumption ==
  Bodies \subseteq [succ : [Block -> Seq(Block)], test : [Block -> SUBSET Instr],
                    home : [Instr -> Block], op : [Instr -> Op],
                    stores : SUBSET Store, returns : Seq(Site),
                    pointer : BOOLEAN, handlers : SUBSET Block]

-----------------------------------------------------------------------------
IsConstant(v) == v \in Const

IsValueErrno(f, v) == v = "errno" \/ (v = "null" /\ f.pointer)

(* The values a load, a phi or a unary instruction may pass on.               *)
Sites(f, i) ==
  LET op == f.op[i] IN
  CASE op.kind = "load"  -> {<<s.block, s.value>> : s \in {t \in f.stores : t.cell = op.cell}}
    [] op.kind = "phi"   -> op.from
    [] op.kind = "unary" -> {<<f.home[i], op.operand>>}

(* findSameVariablesFrom: the loads of v from the cells it is stored to, and   *)
(* of those loads.                                                            *)
SameVariables(f, v) ==
  LET reloads(x) == {i \in Instr : f.op[i].kind = "load"
                                   /\ \E s \in f.stores : s.value = x /\ s.cell = f.op[i].cell}
      closed == {S \in SUBSET Instr : v \in S /\ \A x \in S : reloads(x) \subseteq S} IN
  {i \in Instr : \A S \in closed : i \in S}

-----------------------------------------------------------------------------
(* What checkErrValueFlow is to find, as a graph on values: the marks a value *)
(* calls for, and the values it leads to.                                    *)
SiteFlag(f, v) == IF IsValueErrno(f, v) THEN "Must_Return_Err" ELSE "May_Return_Err"

OneErrno(f, i) ==
  /\ f.op[i].kind = "select"
  /\ IsValueErrno(f, f.op[i].yes) <=> ~IsValueErrno(f, f.op[i].no)

(* The branch that follows a call is taken to test its result, and its first    *)
(* edge to be the one of the error.                                          *)
TestsResult(f, i) ==
  LET b == f.home[i] IN
  f.op[i].callee = "mayErr" /\ Len(f.succ[b]) > 1 /\ f.test[b] \cap SameVariables(f, i) # {}

Marks(f, i) ==
  LET b == f.home[i]
      op == f.op[i] IN
  CASE op.kind \in {"load", "phi", "unary"} ->
         {<<s[1], SiteFlag(f, s[2])>> : s \in {t \in Sites(f, i) : IsConstant(t[2])}}
    [] op.kind = "select" ->
         IF OneErrno(f, i) THEN {<<b, "May_Return_Err">>}
         ELSE IF IsValueErrno(f, op.yes) THEN {<<b, "Must_Return_Err">>}
         ELSE {}
    [] op.kind = "call" ->
         {<<b, "Must_Return_Err">> : x \in {op.callee} \cap {"errPtr"}}
           \cup {<<b, "May_Return_Err">> : x \in {op.callee} \cap {"mayErr", "noErr"}}
           \cup {<<s, "Must_Return_Err">> : s \in {t \in Block : TestsResult(f, i)
                                                                /\ t = f.succ[b][1]}}
    [] op.kind = "binary" -> {<<b, "May_Return_Err">>}
    [] OTHER -> {}

Feeds(f, i) ==
  LET op == f.op[i] IN
  CASE op.kind \in {"load", "phi", "unary"} -> {s[2] : s \in Sites(f, i)} \ Const
    [] op.kind = "select" -> {op.yes, op.no} \ Const
    [] OTHER -> {}

(* The instructions a returned value may come from.                           *)
Origins(f) ==
  LET closed == {S \in SUBSET Instr :
                   /\ \A k \in DOMAIN f.returns : f.returns[k][2] \in Instr => f.returns[k][2] \in S
                   /\ \A i \in S : Feeds(f, i) \cap Instr \subseteq S} IN
  {i \in Instr : \A S \in closed : i \in S}

ReturnMarks(f) == UNION {Marks(f, i) : i \in Origins(f)}
=============================================================================
