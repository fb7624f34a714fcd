---------------------------- MODULE MCMayReturnErr ----------------------------
(* The functions on which TLC runs MayReturnErr: up to two instructions in f1, up  *)
(* to one in the others.                                                         *)
EXTENDS MayReturnErr

CONSTANTS f1, f2, f3

MCInstr == [kind : {"store"}, errno : BOOLEAN]
             \cup [kind : {"call"}, pointer : {FALSE}, direct : {TRUE}, errPtr : {FALSE},
                   callee : {f2, f3}]
             \cup [kind : {"call"}, pointer : {FALSE}, direct : {FALSE}, errPtr : {FALSE},
                   callee : {f2}]
             \cup {[kind |-> "call", pointer |-> TRUE, direct |-> FALSE, errPtr |-> FALSE,
                    callee |-> NoFunc],
                   [kind |-> "call", pointer |-> FALSE, direct |-> TRUE, errPtr |-> TRUE,
                    callee |-> NoFunc]}
             \cup [kind : {"return"}, callee : {f3, NoFunc}]

Short == UNION {[1 .. n -> MCInstr] : n \in 0 .. 2}
One == UNION {[1 .. n -> MCInstr] : n \in 0 .. 1}

MCCode == {c \in [Func -> Short] : c[f2] \in One /\ c[f3] \in One}
=============================================================================
