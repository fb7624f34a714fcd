---------------------------- MODULE MCErrValueFlow ----------------------------
(***************************************************************************)
(* The functions on which TLC runs ErrValueFlow: block 1 branches to 2 and 3,  *)
(* 2 goes on to 3.  Instruction i1 is in block 1, i2 in block 2.              *)
(***************************************************************************)
EXTENDS ErrValueFlow, FiniteSets

CONSTANTS i1, i2, p

Home == [i \in Instr |-> IF i = i1 THEN 1 ELSE 2]

Ops(kinds, values) ==
  {o \in [kind : {"load"}, cell : Cell]
           \cup [kind : {"phi"}, from : {{<<1, v>>, <<2, w>>} : v, w \in values}]
           \cup [kind : {"unary"}, operand : values]
           \cup [kind : {"select"}, yes : values, no : values]
           \cup [kind : {"call"}, callee : Callee]
           \cup [kind : {"binary", "other"}] : o.kind \in kinds}

StoresUpTo(n, values) ==
  {S \in SUBSET [block : {1, 2}, value : values, cell : Cell] : Cardinality(S) <= n}

ReturnsUpTo(n, values) == UNION {[1 .. k -> {2} \X values] : k \in 0 .. n}

Family(kinds, values, stores, returns, tested, pointers) ==
  [succ : {<< <<2, 3>>, <<3>>, <<>> >>},
   test : {[b \in Block |-> IF b = 1 THEN T ELSE {}] : T \in tested},
   home : {Home}, op : [Instr -> Ops(kinds, values)],
   stores : stores, returns : returns, pointer : pointers, handlers : {{2}}]

(* All operations, one stored value.                                         *)
AllKinds ==
  LET values == {i1, i2, "errno", "constant"} IN
  Family({"load", "phi", "unary", "select", "call", "binary", "other"}, values,
         {{}} \cup {{[block |-> 2, value |-> v, cell |-> p]} : v \in values},
         {<< <<2, v>> >> : v \in {i1, i2, "errno"}}, {{}, {i1}}, {FALSE})

(* Values in cycles, asked for by two returns.                                *)
SharedReturns ==
  Family({"phi", "unary"}, {i1, i2, "errno"}, {{}}, ReturnsUpTo(2, {i1, i2, "errno"}), {{}}, {FALSE})

(* Results that are stored and loaded again, and null.                        *)
StoredResults ==
  Family({"load", "call", "unary"}, {i1, i2, "null", "constant"}, StoresUpTo(2, {i1, "null"}),
         ReturnsUpTo(1, {i1, i2}), {{i1}, {i2}}, {FALSE, TRUE})

MCBodies == AllKinds \cup SharedReturns \cup StoredResults
=============================================================================
