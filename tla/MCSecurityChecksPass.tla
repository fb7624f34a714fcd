-------------------------- MODULE MCSecurityChecksPass --------------------------
(***************************************************************************)
(* The programs on which TLC runs SecurityChecksPass: function f is the blocks   *)
(* 1, 2, 3 with a branch in 1, function g the blocks 4, 5, 6 with a branch in 4.  *)
(* Instructions i1 and i2 belong to f, j1 to g; p is a global variable.          *)
(***************************************************************************)
EXTENDS SecurityChecksPass, TLC

CONSTANTS f, g, i1, i2, j1, p

Owner == [b \in Block |-> IF b <= 3 THEN f ELSE g]
Home == [i \in Instr |-> CASE i = i1 -> 2 [] i = i2 -> 3 [] i = j1 -> 5]
Succ == << <<2, 3>>, <<3>>, <<>>, <<5, 6>>, <<6>>, <<>> >>

Choose(v, w) == [kind |-> "select", yes |-> v, no |-> w]
Load == [kind |-> "load", cell |-> p]
Op(i) ==
  CASE i = i1 -> {Choose("errno", "constant"), [kind |-> "call", callee |-> "mayErr"]}
    [] i = i2 -> {Load, Choose("errno", i1), [kind |-> "phi", from |-> {<<1, "errno">>, <<2, i1>>}]}
    [] i = j1 -> {Load, Choose("null", "constant")}

(* What is stored in p: an error code, or the values of f and of g.               *)
Stored == {[block |-> 4, value |-> "errno", cell |-> p], [block |-> 2, value |-> i1, cell |-> p],
           [block |-> 5, value |-> j1, cell |-> p]}

MCPrograms ==
  [succ : {Succ}, test : {[b \in Block |-> {}]}, home : {Home}, owner : {Owner},
   op : {o \in [Instr -> UNION {Op(i) : i \in Instr}] : \A i \in Instr : o[i] \in Op(i)},
   stores : {S \in SUBSET Stored : Cardinality(S) <= 2},
   returns : {[k \in Fun |-> IF k = f THEN << <<3, i2>> >> ELSE << <<6, j1>> >>]},
   pointer : {[k \in Fun |-> k = h] : h \in Fun},
   handlers : {{}, {2}, {5}},
   cond : {[b \in Block |-> b]},
   selectCond : {(i1 :> 2) @@ (i2 :> 1) @@ (j1 :> 5)},
   order : {<<f, g>>, <<g, f>>}, runs : {1, 2}]
=============================================================================
