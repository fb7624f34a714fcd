----------------------------- MODULE MarkEdges -----------------------------
(***************************************************************************)
(* SecurityChecksPass::identifySecurityChecks for one function, from the     *)
(* moment bbErrMap is filled: markAllEdgesErrFlag with the four worklist     *)
(* procedures it calls, and the loop that turns branches with differently    *)
(* marked edges into security checks.  The program is sequential; pc names    *)
(* the loop it is in:                                                        *)
(*   "block"    the loop over the function's blocks                          *)
(*   "handle"   recurMarkEdgesToErrHandle       (EB, PB; todo: In(TB))       *)
(*   "return"   the test for a return flag that follows it                   *)
(*   "preds"    the loop over the block's predecessors  (outer)              *)
(*   "toBlock"  recurMarkEdgesToBlock           (EEP, PE)                    *)
(*   "raise"      its loop over predecessors                (todo)           *)
(*   "toReturn"   its call of recurMarkEdgesToErrReturn     (EB, PB; todo)   *)
(*   "succs"    the loop over the block's successors    (outer)              *)
(*   "fromBlock" recurMarkEdgesFromBlock        (EEP, PE)                    *)
(*   "merge"      its loop over predecessors                (todo)           *)
(*   "spread"     its loop over successors                  (todo)           *)
(*   "identify" the loop over the branches, then "done".                     *)
(* The variables have the names of the C++ locals they stand for.  successors*)
(* are visited by index; predecessors in any order, LLVM's use-list order    *)
(* being an accident of how the module was built.                            *)
(***************************************************************************)
EXTENDS CFG

VARIABLES
  fn,        \* the function; never changes
  edgeErr,   \* edgeErrMap, {} for the edges it has no entry for
  pc,
  cur,       \* the block of the "block" and "identify" loops
  outer,     \* arcs still to visit in "preds" or "succs"
  todo,      \* arcs still to visit in the inner loop
  EB, PB,    \* worklist of blocks, blocks already taken from it
  EEP, PE,   \* worklist of edges with a flag, edges already taken from it
  at,        \* TEP.first, the edge recurMarkEdgesFromBlock is working on
  IntFlag,   \* the flag integrated from its incoming edges
  checks     \* SCSet

control == <<pc, cur, outer, todo, EB, PB, EEP, PE, at, IntFlag>>
vars == <<fn, edgeErr, control, checks>>

EdgeFlag == [edge : Edge, flag : SUBSET Flag]
SecurityCheck == [cond : Block, branch : Block]

PC == {"block", "handle", "return", "preds", "toBlock", "raise", "toReturn",
       "succs", "fromBlock", "merge", "spread", "identify", "done"}

TypeOK ==
  /\ fn \in Functions
  /\ edgeErr \in [Edge -> SUBSET Flag]
  /\ pc \in PC
  /\ cur \in 1 .. N + 1
  /\ pc \notin {"block", "identify", "done"} => cur \in Block
  /\ outer \subseteq Arcs(fn)
  /\ todo \subseteq Arcs(fn)
  /\ EB \in Seq(Block)
  /\ PB \subseteq Block
  /\ EEP \in Seq(EdgeFlag)
  /\ PE \subseteq Edge
  /\ at \in Edge
  /\ IntFlag \in SUBSET Flag
  /\ checks \subseteq SecurityCheck

Init ==
  /\ fn \in Functions
  /\ edgeErr = [e \in Edge |-> {}]
  /\ pc = "block"
  /\ cur = 1
  /\ outer = {} /\ todo = {}
  /\ EB = <<>> /\ PB = {}
  /\ EEP = <<>> /\ PE = {}
  /\ at = <<1, 1>>
  /\ IntFlag = {}
  /\ checks = {}

-----------------------------------------------------------------------------
(* The arc a loop over successors visits next.                              *)
Lowest(S) == {a \in S : \A c \in S : a[2] <= c[2]}

(* edgeErrMap after updateReturnFlag, updateHandleFlag on the entry of e.    *)
WithReturn(e, flag) == [edgeErr EXCEPT ![e] = UpdateReturnFlag(@, flag)]
WithHandle(e, flag) == [edgeErr EXCEPT ![e] = UpdateHandleFlag(@, flag)]

-----------------------------------------------------------------------------
(* markAllEdgesErrFlag: the loop over the blocks.                           *)

(* Mutant: `continue` skips the increment.                                    *)
NoErrorInBlock_Stuck ==
  /\ pc = "block" /\ cur \in Block
  /\ fn.bbErr[cur] = {}
  /\ UNCHANGED vars

(* bbErrMap has no entry for the block.                                     *)
NoErrorInBlock ==
  /\ pc = "block" /\ cur \in Block
  /\ fn.bbErr[cur] = {}
  /\ cur' = cur + 1
  /\ UNCHANGED <<fn, edgeErr, pc, outer, todo, EB, PB, EEP, PE, at, IntFlag, checks>>

CallToErrHandle ==
  /\ pc = "block" /\ cur \in Block
  /\ Handled(fn.bbErr[cur])
  /\ pc' = "handle"
  /\ EB' = <<cur>> /\ PB' = {}
  /\ UNCHANGED <<fn, edgeErr, cur, outer, todo, EEP, PE, at, IntFlag, checks>>

NoErrHandle ==
  /\ pc = "block" /\ cur \in Block
  /\ fn.bbErr[cur] # {} /\ ~Handled(fn.bbErr[cur])
  /\ pc' = "return"
  /\ UNCHANGED <<fn, edgeErr, cur, outer, todo, EB, PB, EEP, PE, at, IntFlag, checks>>

(* Mutant: the test forgets May_Return_Err.                                   *)
NoReturnFlag_MustOnly ==
  /\ pc = "return"
  /\ ~Must(fn.bbErr[cur])
  /\ pc' = "block" /\ cur' = cur + 1
  /\ UNCHANGED <<fn, edgeErr, outer, todo, EB, PB, EEP, PE, at, IntFlag, checks>>

NoReturnFlag ==
  /\ pc = "return"
  /\ Returns(fn.bbErr[cur]) = {}
  /\ pc' = "block" /\ cur' = cur + 1
  /\ UNCHANGED <<fn, edgeErr, outer, todo, EB, PB, EEP, PE, at, IntFlag, checks>>

StartPreds ==
  /\ pc = "return"
  /\ Returns(fn.bbErr[cur]) # {}
  /\ pc' = "preds" /\ outer' = In(fn, cur)
  /\ UNCHANGED <<fn, edgeErr, cur, todo, EB, PB, EEP, PE, at, IntFlag, checks>>

(* One turn of the loop over predecessors: mark the edge, then call          *)
(* recurMarkEdgesToBlock on it.                                              *)
MarkPred ==
  /\ pc = "preds"
  /\ \E a \in outer :
       LET e == EdgeOf(fn, a) IN
       /\ edgeErr' = WithReturn(e, fn.bbErr[cur])
       /\ EEP' = <<[edge |-> e, flag |-> fn.bbErr[cur]]>> /\ PE' = {}
       /\ outer' = outer \ {a}
  /\ pc' = "toBlock"
  /\ UNCHANGED <<fn, cur, todo, EB, PB, at, IntFlag, checks>>

StartSuccs ==
  /\ pc = "preds" /\ outer = {}
  /\ pc' = "succs" /\ outer' = Out(fn, cur)
  /\ UNCHANGED <<fn, edgeErr, cur, todo, EB, PB, EEP, PE, at, IntFlag, checks>>

(* One turn of the loop over successors.  recurMarkEdgesFromBlock returns at  *)
(* once when the block the edge enters has a return flag of its own.          *)
MarkSucc ==
  /\ pc = "succs"
  /\ \E a \in Lowest(outer) :
       LET e == EdgeOf(fn, a) IN
       /\ edgeErr' = WithReturn(e, fn.bbErr[cur])
       /\ outer' = outer \ {a}
       /\ IF Returns(fn.bbErr[e[2]]) # {}
          THEN UNCHANGED <<pc, EEP, PE>>
          ELSE /\ pc' = "fromBlock"
               /\ EEP' = <<[edge |-> e, flag |-> fn.bbErr[cur]]>> /\ PE' = {}
  /\ UNCHANGED <<fn, cur, todo, EB, PB, at, IntFlag, checks>>

(* Mutant: the iterator is advanced in the body too.                          *)
NextBlock_Twice ==
  /\ pc = "succs" /\ outer = {}
  /\ pc' = "block" /\ cur' = cur + 2
  /\ UNCHANGED <<fn, edgeErr, outer, todo, EB, PB, EEP, PE, at, IntFlag, checks>>

NextBlock ==
  /\ pc = "succs" /\ outer = {}
  /\ pc' = "block" /\ cur' = cur + 1
  /\ UNCHANGED <<fn, edgeErr, outer, todo, EB, PB, EEP, PE, at, IntFlag, checks>>

(* Mutant: the last block is left out.                                        *)
StartIdentify_Early ==
  /\ pc = "block" /\ cur = N
  /\ pc' = "identify" /\ cur' = 1
  /\ UNCHANGED <<fn, edgeErr, outer, todo, EB, PB, EEP, PE, at, IntFlag, checks>>

StartIdentify ==
  /\ pc = "block" /\ cur = N + 1
  /\ pc' = "identify" /\ cur' = 1
  /\ UNCHANGED <<fn, edgeErr, outer, todo, EB, PB, EEP, PE, at, IntFlag, checks>>

-----------------------------------------------------------------------------
(* recurMarkEdgesToErrHandle, and recurMarkEdgesToErrReturn with the flag      *)
(* May_Return_Err, the only one it is called with.  Both take a block from     *)
(* the front of EB, skip it when seen, and visit its incoming edges.           *)
TakeBlock ==
  /\ pc \in {"handle", "toReturn"} /\ todo = {} /\ EB # <<>>
  /\ EB' = Tail(EB)
  /\ PB' = PB \cup {Head(EB)}
  /\ todo' = IF Head(EB) \in PB THEN {} ELSE In(fn, Head(EB))
  /\ UNCHANGED <<fn, edgeErr, pc, cur, outer, EEP, PE, at, IntFlag, checks>>

(* Mutants: branches are followed; no block is.                               *)
MarkHandle_PastBranch ==
  /\ pc = "handle"
  /\ \E a \in todo :
       LET e == EdgeOf(fn, a) IN
       /\ todo' = todo \ {a}
       /\ edgeErr' = WithHandle(e, {"Must_Handle_Err"})
       /\ EB' = IF Handled(edgeErr[e]) THEN EB ELSE Append(EB, a[1])
  /\ UNCHANGED <<fn, pc, cur, outer, PB, EEP, PE, at, IntFlag, checks>>

MarkHandle_Direct ==
  /\ pc = "handle"
  /\ \E a \in todo :
       /\ todo' = todo \ {a}
       /\ edgeErr' = WithHandle(EdgeOf(fn, a), {"Must_Handle_Err"})
  /\ UNCHANGED <<fn, pc, cur, outer, EB, PB, EEP, PE, at, IntFlag, checks>>

(* An edge that is marked already is not followed; one that leaves a branch   *)
(* is marked, and followed no further.                                        *)
MarkHandle ==
  /\ pc = "handle"
  /\ \E a \in todo :
       LET e == EdgeOf(fn, a) IN
       /\ todo' = todo \ {a}
       /\ edgeErr' = IF Handled(edgeErr[e]) THEN edgeErr
                     ELSE WithHandle(e, {"Must_Handle_Err"})
       /\ EB' = IF Handled(edgeErr[e]) \/ NumSuccessors(fn, a[1]) > 1 THEN EB
                ELSE Append(EB, a[1])
  /\ UNCHANGED <<fn, pc, cur, outer, PB, EEP, PE, at, IntFlag, checks>>

(* Mutant: the walk is made with Must_Return_Err.                             *)
MarkReturn_Must ==
  /\ pc = "toReturn"
  /\ \E a \in todo :
       LET e == EdgeOf(fn, a) IN
       /\ todo' = todo \ {a}
       /\ IF Returns(edgeErr[e]) = {"Must_Return_Err"}
          THEN UNCHANGED <<edgeErr, EB>>
          ELSE /\ edgeErr' = WithReturn(e, {"Must_Return_Err"})
               /\ EB' = Append(EB, a[1])
  /\ UNCHANGED <<fn, pc, cur, outer, PB, EEP, PE, at, IntFlag, checks>>

MarkReturn ==
  /\ pc = "toReturn"
  /\ \E a \in todo :
       LET e == EdgeOf(fn, a) IN
       /\ todo' = todo \ {a}
       /\ IF Returns(edgeErr[e]) = {"May_Return_Err"}
          THEN UNCHANGED <<edgeErr, EB>>
          ELSE /\ edgeErr' = WithReturn(e, {"May_Return_Err"})
               /\ EB' = Append(EB, a[1])
  /\ UNCHANGED <<fn, pc, cur, outer, PB, EEP, PE, at, IntFlag, checks>>

ReturnFromBlocks ==
  /\ pc \in {"handle", "toReturn"} /\ todo = {} /\ EB = <<>>
  /\ pc' = IF pc = "handle" THEN "return" ELSE "toBlock"
  /\ UNCHANGED <<fn, edgeErr, cur, outer, todo, EB, PB, EEP, PE, at, IntFlag, checks>>

-----------------------------------------------------------------------------
(* recurMarkEdgesToBlock.                                                    *)
FlagsBeside(e) ==
  {edgeErr[d] : d \in {EdgeOf(fn, a) : a \in Out(fn, e[1])} \ {e}}

AllMust(e) == \A flag \in FlagsBeside(e) : Must(flag) /\ ~May(flag)
AllZero(e) == \A flag \in FlagsBeside(e) : ~Must(flag)

(* Takes the front of EEP.  What happens to the edges into the block it        *)
(* leaves is decided by its flag and by those of the block's other edges.      *)
TakeToBlock ==
  /\ pc = "toBlock" /\ EEP # <<>>
  /\ LET e == Head(EEP).edge
         flag == Head(EEP).flag
         stop == e \in PE \/ In(fn, e[1]) = {} \/ Returns(flag) = {} IN
     /\ EEP' = Tail(EEP)
     /\ PE' = PE \cup {e}
     /\ \/ /\ stop \/ (~May(flag) /\ AllZero(e) /\ ~AllMust(e))
           /\ UNCHANGED <<pc, todo, EB, PB>>
        \/ /\ ~stop
           /\ May(flag) \/ (~AllZero(e) /\ ~AllMust(e))
           /\ pc' = "toReturn"
           /\ EB' = <<e[1]>> /\ PB' = {}
           /\ UNCHANGED todo
        \/ /\ ~stop /\ ~May(flag) /\ AllMust(e)
           /\ pc' = "raise"
           /\ todo' = In(fn, e[1])
           /\ UNCHANGED <<EB, PB>>
  /\ UNCHANGED <<fn, edgeErr, cur, outer, at, IntFlag, checks>>

RaiseMust ==
  /\ pc = "raise"
  /\ \E a \in todo :
       LET e == EdgeOf(fn, a)
           flag == {"Must_Return_Err"} IN
       /\ todo' = todo \ {a}
       /\ IF Must(edgeErr[e])
          THEN UNCHANGED <<edgeErr, EEP>>
          ELSE /\ edgeErr' = WithReturn(e, flag)
               /\ EEP' = Append(EEP, [edge |-> e, flag |-> flag])
  /\ UNCHANGED <<fn, pc, cur, outer, EB, PB, PE, at, IntFlag, checks>>

EndRaise ==
  /\ pc = "raise" /\ todo = {}
  /\ pc' = "toBlock"
  /\ UNCHANGED <<fn, edgeErr, cur, outer, todo, EB, PB, EEP, PE, at, IntFlag, checks>>

ReturnFromToBlock ==
  /\ pc = "toBlock" /\ EEP = <<>>
  /\ pc' = "preds"
  /\ UNCHANGED <<fn, edgeErr, cur, outer, todo, EB, PB, EEP, PE, at, IntFlag, checks>>

-----------------------------------------------------------------------------
(* recurMarkEdgesFromBlock.                                                  *)
TakeFromBlock ==
  /\ pc = "fromBlock" /\ EEP # <<>>
  /\ LET e == Head(EEP).edge IN
     /\ EEP' = Tail(EEP)
     /\ PE' = PE \cup {e}
     /\ IF e \in PE \/ NumSuccessors(fn, e[2]) = 0
        THEN UNCHANGED <<pc, todo, at, IntFlag>>
        ELSE /\ pc' = "merge"
             /\ at' = e
             /\ IntFlag' = Head(EEP).flag
             /\ todo' = {a \in In(fn, e[2]) : a[1] # e[1]}
  /\ UNCHANGED <<fn, edgeErr, cur, outer, EB, PB, checks>>

MergePred ==
  /\ pc = "merge"
  /\ \E a \in todo :
       /\ todo' = todo \ {a}
       /\ IntFlag' = MergeFlag(IntFlag, edgeErr[EdgeOf(fn, a)])
  /\ UNCHANGED <<fn, edgeErr, pc, cur, outer, EB, PB, EEP, PE, at, checks>>

StartSpread ==
  /\ pc = "merge" /\ todo = {}
  /\ pc' = "spread" /\ todo' = Out(fn, at[2])
  /\ UNCHANGED <<fn, edgeErr, cur, outer, EB, PB, EEP, PE, at, IntFlag, checks>>

Spread ==
  /\ pc = "spread"
  /\ \E a \in Lowest(todo) :
       LET e == EdgeOf(fn, a) IN
       /\ todo' = todo \ {a}
       /\ IF Returns(edgeErr[e]) = Returns(IntFlag)
          THEN UNCHANGED <<edgeErr, EEP>>
          ELSE /\ edgeErr' = WithReturn(e, IntFlag)
               /\ EEP' = Append(EEP, [edge |-> e, flag |-> IntFlag])
  /\ UNCHANGED <<fn, pc, cur, outer, EB, PB, PE, at, IntFlag, checks>>

EndSpread ==
  /\ pc = "spread" /\ todo = {}
  /\ pc' = "fromBlock"
  /\ UNCHANGED <<fn, edgeErr, cur, outer, todo, EB, PB, EEP, PE, at, IntFlag, checks>>

ReturnFromFromBlock ==
  /\ pc = "fromBlock" /\ EEP = <<>>
  /\ pc' = "succs"
  /\ UNCHANGED <<fn, edgeErr, cur, outer, todo, EB, PB, EEP, PE, at, IntFlag, checks>>

-----------------------------------------------------------------------------
(* identifySecurityChecks, the part about branches and switches.  A branch is   *)
(* a check when its edges disagree on Must_Return_Err or on Must_Handle_Err;    *)
(* addSecurityCheck keeps one check per condition.                             *)
SuccFlags(b) == {edgeErr[EdgeOf(fn, a)] : a \in Out(fn, b)}

(* Mutants: the handle half is forgotten; the whole flags are compared.       *)
Disagree_ReturnOnly(flags) == {Must(flag) : flag \in flags} = BOOLEAN
Disagree_AnyFlag(flags) == \E f1, f2 \in flags : f1 # f2

Disagree(flags) ==
  \/ {Must(flag) : flag \in flags} = BOOLEAN
  \/ {Handled(flag) : flag \in flags} = BOOLEAN

(* Mutant: checks are compared as objects.                                    *)
AddSecurityCheck_Twice(sc) == checks \cup {sc}

AddSecurityCheck(sc) ==
  IF \E c \in checks : c.cond = sc.cond THEN checks ELSE checks \cup {sc}

IdentifyBranch ==
  /\ pc = "identify" /\ cur \in Block
  /\ checks' = IF NumSuccessors(fn, cur) >= 2 /\ Disagree(SuccFlags(cur))
               THEN AddSecurityCheck([cond |-> fn.cond[cur], branch |-> cur])
               ELSE checks
  /\ cur' = cur + 1
  /\ UNCHANGED <<fn, edgeErr, pc, outer, todo, EB, PB, EEP, PE, at, IntFlag>>

Finish ==
  /\ pc = "identify" /\ cur = N + 1
  /\ pc' = "done"
  /\ UNCHANGED <<fn, edgeErr, cur, outer, todo, EB, PB, EEP, PE, at, IntFlag, checks>>

Done == pc = "done" /\ UNCHANGED vars

-----------------------------------------------------------------------------
MarkBlocks ==
  \/ NoErrorInBlock \/ CallToErrHandle \/ NoErrHandle \/ NoReturnFlag
  \/ StartPreds \/ MarkPred \/ StartSuccs \/ MarkSucc \/ NextBlock \/ StartIdentify

ToHandleOrReturn == TakeBlock \/ MarkHandle \/ MarkReturn \/ ReturnFromBlocks

ToBlock == TakeToBlock \/ RaiseMust \/ EndRaise \/ ReturnFromToBlock

FromBlock ==
  TakeFromBlock \/ MergePred \/ StartSpread \/ Spread \/ EndSpread \/ ReturnFromFromBlock

Identify == IdentifyBranch \/ Finish

Next == MarkBlocks \/ ToHandleOrReturn \/ ToBlock \/ FromBlock \/ Identify \/ Done

Spec == Init /\ [][Next]_vars /\ WF_vars(Next)
-----------------------------------------------------------------------------
(* Properties.                                                               *)

MustBlocks == {b \in Block : Must(fn.bbErr[b])}
Marked == {e \in Edge : Handled(edgeErr[e])}

(* An edge is marked Must_Handle_Err only if it leads to an error handler      *)
(* without a further branch, at every moment of the marking and for every      *)
(* visiting order (recurMarkEdgesToErrHandle stops at branches).               *)
HandleSound == Marked \subseteq HandleEdges(fn)

(* When checks are identified no such edge has been missed: neither the test   *)
(* for marked edges nor PB, shared over no two handlers, cuts a walk short.    *)
HandleExact == pc \in {"identify", "done"} => Marked = HandleEdges(fn)

(* Every edge into and out of a block that sets the return value carries a     *)
(* return flag when checks are identified, whatever the marking of the other    *)
(* blocks did to it since.                                                     *)
ErrBlocksFenced ==
  pc \in {"identify", "done"} =>
    \A e \in EdgesOf(fn) :
      Returns(fn.bbErr[e[1]]) \cup Returns(fn.bbErr[e[2]]) # {} => Returns(edgeErr[e]) # {}

(* A Must_Return_Err is only on an edge that can reach, or be reached from, a    *)
(* block that must return an error: merging flags, and raising all predecessors,  *)
(* put none elsewhere.                                                          *)
MustHasOrigin ==
  LET ahead == Ahead(fn, MustBlocks)
      behind == Behind(fn, MustBlocks) IN
  \A e \in Edge : Must(edgeErr[e]) => e[1] \in ahead \/ e[2] \in behind

(* A branch one of whose edges leads straight to an error handler while another   *)
(* does not is reported: its condition is in SCSet.                               *)
HandlerGuardsFound ==
  pc = "done" =>
    LET straight == HandleEdges(fn)
        other == EdgesOf(fn) \ straight IN
    \A d \in straight : \A e \in other :
      d[1] = e[1] => \E c \in checks : c.cond = fn.cond[d[1]]

(* A check was reported for a reason: its branch separates edges that lead straight *)
(* to an error handler from others, or lies ahead of or behind a block that must   *)
(* return an error.                                                             *)
ChecksHaveCause ==
  checks # {} =>
    LET straight == HandleEdges(fn)
        other == EdgesOf(fn) \ straight
        near == Ahead(fn, MustBlocks) \cup Behind(fn, MustBlocks) IN
    \A c \in checks :
      \/ c.branch \in near
      \/ \E d \in straight : \E e \in other : d[1] = c.branch /\ e[1] = c.branch

(* SCSet has one check per condition, although two branches may test the same       *)
(* value (addSecurityCheck compares conditions, SecurityCheck sets do not).        *)
OneCheckPerCondition == \A c, d \in checks : c.cond = d.cond => c = d

(* No step takes a mark back: an edge with a return flag keeps one (the flag may      *)
(* change), and Must_Handle_Err stays.                                              *)
MarksKept ==
  [][\A e \in Edge : /\ Returns(edgeErr[e]) # {} => Returns(edgeErr'[e]) # {}
                     /\ Handled(edgeErr[e]) => Handled(edgeErr'[e])]_vars

(* The worklists empty, on every control-flow graph, loops included.                  *)
Termination == <>(pc = "done")

(* What the handle half promises, without blocks, queues and orders.                  *)
Abstract == INSTANCE HandleClosure WITH
  marked <- Marked, finished <- pc \in {"identify", "done"}

ImplementsHandleClosure == Abstract!Spec
=============================================================================
