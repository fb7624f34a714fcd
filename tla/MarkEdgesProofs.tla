-------------------------- MODULE MarkEdgesProofs --------------------------
(***************************************************************************)
(* Proofs about MarkEdges, for every number of blocks, every flow graph and   *)
(* every assignment of flags to its blocks: which edges lead to a handler, the  *)
(* return marks around the blocks that set the return value, the checks         *)
(* identified from the marks, and where marks and checks come from.            *)
(***************************************************************************)
EXTENDS MarkEdges, SequenceTheorems, TLAPS

-----------------------------------------------------------------------------
(* Flow graphs.                                                              *)

LEMMA FunctionFacts ==
  ASSUME NEW f \in Functions
  PROVE  /\ f.succ \in [Block -> Seq(Block)]
         /\ f.bbErr \in [Block -> SUBSET Flag]
         /\ f.cond \in [Block -> Block]
  BY FunctionsAssumption

LEMMA ArcFacts ==
  ASSUME NEW f \in Functions, NEW a \in Arcs(f)
  PROVE  /\ a[1] \in Block /\ a[2] \in 1 .. Len(f.succ[a[1]])
         /\ Dst(f, a) \in Block
         /\ EdgeOf(f, a) \in Edge /\ EdgeOf(f, a) \in EdgesOf(f)
         /\ EdgeOf(f, a)[1] = a[1] /\ EdgeOf(f, a)[2] = Dst(f, a)
         /\ a \in In(f, Dst(f, a))
         /\ NumSuccessors(f, a[1]) \in Nat /\ NumSuccessors(f, a[1]) >= 1
<1>1. PICK b \in Block : a \in Out(f, b)
  BY DEF Arcs
<1>2. PICK i \in DOMAIN f.succ[b] : a = <<b, i>>
  BY <1>1 DEF Out
<1>3. f.succ[b] \in Seq(Block)
  BY FunctionFacts
<1>4. Len(f.succ[b]) \in Nat /\ DOMAIN f.succ[b] = 1 .. Len(f.succ[b])
  BY <1>3, LenProperties
<1>5. a[1] = b /\ a[2] = i /\ i \in 1 .. Len(f.succ[b])
  BY <1>2, <1>4
<1>6. f.succ[b][i] \in Block
  BY <1>3, <1>5, ElementOfSeq
<1>7. Dst(f, a) \in Block /\ EdgeOf(f, a) = <<b, Dst(f, a)>>
  BY <1>5, <1>6 DEF Dst, EdgeOf
<1>8. NumSuccessors(f, b) \in Nat /\ NumSuccessors(f, b) >= 1
  BY <1>4, <1>5 DEF NumSuccessors
<1> QED
  BY <1>5, <1>7, <1>8 DEF Edge, EdgesOf, In

LEMMA InOutArcs ==
  ASSUME NEW f \in Functions, NEW b \in Block
  PROVE  In(f, b) \subseteq Arcs(f) /\ Out(f, b) \subseteq Arcs(f)
  BY DEF In, Arcs

-----------------------------------------------------------------------------
(* The operators on flags.                                                   *)

LEMMA FlagTypes ==
  ASSUME NEW x \in SUBSET Flag, NEW y \in SUBSET Flag
  PROVE  /\ UpdateReturnFlag(x, y) \in SUBSET Flag
         /\ UpdateHandleFlag(x, y) \in SUBSET Flag
         /\ MergeFlag(x, y) \in SUBSET Flag
<1>1. MergeReturn(x, y) \in SUBSET Flag /\ MergeHandle(x, y) \in SUBSET Flag
  BY DEF MergeReturn, MergeHandle, Flag, Returns, Handles, ReturnMask, HandleMask
<1> QED
  BY <1>1 DEF UpdateReturnFlag, UpdateHandleFlag, MergeFlag, Returns, Handles

(* updateReturnFlag leaves the handle half alone and never clears the other.  *)
LEMMA ReturnUpdate ==
  ASSUME NEW x \in SUBSET Flag, NEW y \in SUBSET Flag
  PROVE  /\ Handled(UpdateReturnFlag(x, y)) <=> Handled(x)
         /\ Returns(x) # {} => Returns(UpdateReturnFlag(x, y)) # {}
  BY DEF Handled, UpdateReturnFlag, Returns, Handles, ReturnMask, HandleMask

(* updateHandleFlag sets the handle half and leaves the return half alone.    *)
LEMMA HandleUpdate ==
  ASSUME NEW x \in SUBSET Flag
  PROVE  /\ Handled(UpdateHandleFlag(x, {"Must_Handle_Err"}))
         /\ Returns(UpdateHandleFlag(x, {"Must_Handle_Err"})) = Returns(x)
  BY DEF Handled, UpdateHandleFlag, Returns, Handles, ReturnMask, HandleMask

LEMMA WithReturnFacts ==
  ASSUME edgeErr \in [Edge -> SUBSET Flag], NEW e \in Edge, NEW flag \in SUBSET Flag
  PROVE  /\ WithReturn(e, flag) \in [Edge -> SUBSET Flag]
         /\ \A d \in Edge : /\ Handled(WithReturn(e, flag)[d]) <=> Handled(edgeErr[d])
                            /\ Returns(edgeErr[d]) # {} => Returns(WithReturn(e, flag)[d]) # {}
<1>1. UpdateReturnFlag(edgeErr[e], flag) \in SUBSET Flag
  BY FlagTypes
<1>2. \A d \in Edge : WithReturn(e, flag)[d] =
                        IF d = e THEN UpdateReturnFlag(edgeErr[e], flag) ELSE edgeErr[d]
  BY DEF WithReturn
<1>3. WithReturn(e, flag) \in [Edge -> SUBSET Flag]
  BY <1>1 DEF WithReturn
<1>4. ASSUME NEW d \in Edge
      PROVE  /\ Handled(WithReturn(e, flag)[d]) <=> Handled(edgeErr[d])
             /\ Returns(edgeErr[d]) # {} => Returns(WithReturn(e, flag)[d]) # {}
  <2>1. CASE d = e
    BY <1>2, <2>1, ReturnUpdate
  <2>2. CASE d # e
    BY <1>2, <2>2
  <2> QED
    BY <2>1, <2>2
<1> QED
  BY <1>3, <1>4

LEMMA WithHandleFacts ==
  ASSUME edgeErr \in [Edge -> SUBSET Flag], NEW e \in Edge
  PROVE  /\ WithHandle(e, {"Must_Handle_Err"}) \in [Edge -> SUBSET Flag]
         /\ \A d \in Edge :
              /\ Handled(WithHandle(e, {"Must_Handle_Err"})[d]) <=> (d = e \/ Handled(edgeErr[d]))
              /\ Returns(WithHandle(e, {"Must_Handle_Err"})[d]) = Returns(edgeErr[d])
<1> DEFINE flag == {"Must_Handle_Err"}
<1>1. UpdateHandleFlag(edgeErr[e], flag) \in SUBSET Flag
  <2>1. flag \in SUBSET Flag
    BY DEF Flag
  <2> QED
    BY <2>1, FlagTypes
<1>2. \A d \in Edge : WithHandle(e, flag)[d] =
                        IF d = e THEN UpdateHandleFlag(edgeErr[e], flag) ELSE edgeErr[d]
  BY DEF WithHandle
<1>3. WithHandle(e, flag) \in [Edge -> SUBSET Flag]
  BY <1>1 DEF WithHandle
<1>4. /\ Handled(UpdateHandleFlag(edgeErr[e], flag))
      /\ Returns(UpdateHandleFlag(edgeErr[e], flag)) = Returns(edgeErr[e])
  BY HandleUpdate
<1> QED
  BY <1>2, <1>3, <1>4

-----------------------------------------------------------------------------
(* Type correctness.                                                         *)

(* What the steps of the loops need of the types.                             *)
LEMMA StepTypes ==
  ASSUME TypeOK
  PROVE  /\ cur \in Block => fn.bbErr[cur] \in SUBSET Flag
         /\ cur \in Block => cur \in 1 .. N + 1 /\ cur + 1 \in 1 .. N + 1
         /\ 1 \in 1 .. N + 1
         /\ pc \notin {"block", "identify", "done"} => cur \in Block
         /\ \A b \in Block : In(fn, b) \subseteq Arcs(fn) /\ Out(fn, b) \subseteq Arcs(fn)
         /\ \A a \in Arcs(fn) : /\ a[1] \in Block
                               /\ EdgeOf(fn, a) \in Edge
                               /\ edgeErr[EdgeOf(fn, a)] \in SUBSET Flag
<1>1. fn \in Functions /\ edgeErr \in [Edge -> SUBSET Flag]
  BY DEF TypeOK
<1>2. cur \in Block => fn.bbErr[cur] \in SUBSET Flag
  <2>1. fn.bbErr \in [Block -> SUBSET Flag]
    BY <1>1, FunctionFacts
  <2> QED
    BY <2>1
<1>3. cur \in Block => cur \in 1 .. N + 1 /\ cur + 1 \in 1 .. N + 1
  BY NAssumption DEF Block
<1>4. 1 \in 1 .. N + 1
  BY NAssumption
<1>5. pc \notin {"block", "identify", "done"} => cur \in Block
  BY DEF TypeOK
<1>6. \A b \in Block : In(fn, b) \subseteq Arcs(fn) /\ Out(fn, b) \subseteq Arcs(fn)
  BY <1>1, InOutArcs
<1>7. ASSUME NEW a \in Arcs(fn)
      PROVE  a[1] \in Block /\ EdgeOf(fn, a) \in Edge /\ edgeErr[EdgeOf(fn, a)] \in SUBSET Flag
  <2>1. a[1] \in Block /\ EdgeOf(fn, a) \in Edge
    BY <1>1, ArcFacts
  <2> QED
    BY <1>1, <2>1
<1> QED
  BY <1>2, <1>3, <1>4, <1>5, <1>6, <1>7

(* A worklist of edges, before and after an entry is taken from it.            *)
LEMMA EdgeQueue ==
  ASSUME NEW Q \in Seq(EdgeFlag), Q # <<>>
  PROVE  /\ Tail(Q) \in Seq(EdgeFlag)
         /\ Head(Q).edge \in Edge /\ Head(Q).flag \in SUBSET Flag
         /\ Head(Q).edge[1] \in Block /\ Head(Q).edge[2] \in Block
<1>1. Head(Q) \in EdgeFlag /\ Tail(Q) \in Seq(EdgeFlag)
  BY HeadTailProperties
<1>2. Head(Q).edge \in Edge /\ Head(Q).flag \in SUBSET Flag
  BY <1>1 DEF EdgeFlag
<1> QED
  BY <1>1, <1>2 DEF Edge

LEMMA QueueEntry ==
  ASSUME NEW e \in Edge, NEW flag \in SUBSET Flag
  PROVE  /\ <<[edge |-> e, flag |-> flag]>> \in Seq(EdgeFlag)
         /\ \A Q \in Seq(EdgeFlag) : Append(Q, [edge |-> e, flag |-> flag]) \in Seq(EdgeFlag)
<1>1. [edge |-> e, flag |-> flag] \in EdgeFlag
  BY DEF EdgeFlag
<1> QED
  BY <1>1, AppendProperties

LEMMA InitTypeOK == Init => TypeOK
<1>1. ASSUME Init
      PROVE  TypeOK
  <2>1. cur \in Block /\ cur \in 1 .. N + 1
    BY <1>1, NAssumption DEF Init, Block
  <2>2. edgeErr \in [Edge -> SUBSET Flag]
    BY <1>1 DEF Init
  <2>3. at \in Edge
    <3>1. at = <<cur, cur>>
      BY <1>1 DEF Init
    <3> QED
      BY <2>1, <3>1 DEF Edge
  <2>4. EB \in Seq(Block) /\ EEP \in Seq(EdgeFlag)
    BY <1>1 DEF Init
  <2> QED
    BY <1>1, <2>1, <2>2, <2>3, <2>4 DEF Init, TypeOK, PC
<1> QED
  BY <1>1

LEMMA MarkBlocksTypeOK ==
  ASSUME TypeOK, MarkBlocks
  PROVE  TypeOK'
<1> USE DEF TypeOK, PC
<1>1. CASE NoErrorInBlock
  BY <1>1, StepTypes DEF NoErrorInBlock
<1>2. CASE CallToErrHandle
  BY <1>2, StepTypes DEF CallToErrHandle
<1>3. CASE NoErrHandle
  BY <1>3, StepTypes DEF NoErrHandle
<1>4. CASE NoReturnFlag
  BY <1>4, StepTypes DEF NoReturnFlag
<1>5. CASE StartPreds
  BY <1>5, StepTypes DEF StartPreds
<1>6. CASE MarkPred
  <2>1. PICK a \in outer : MarkPred!2!(a)
    BY <1>6 DEF MarkPred
  <2>2. a \in Arcs(fn) /\ EdgeOf(fn, a) \in Edge
    BY StepTypes
  <2>3. cur \in Block /\ fn.bbErr[cur] \in SUBSET Flag
    BY <1>6, StepTypes DEF MarkPred
  <2>4. edgeErr' \in [Edge -> SUBSET Flag]
    BY <2>1, <2>2, <2>3, WithReturnFacts
  <2>5. EEP' \in Seq(EdgeFlag)
    BY <2>1, <2>2, <2>3, QueueEntry
  <2> QED
    BY <1>6, <2>1, <2>3, <2>4, <2>5 DEF MarkPred
<1>7. CASE StartSuccs
  BY <1>7, StepTypes DEF StartSuccs
<1>8. CASE MarkSucc
  <2>1. PICK a \in Lowest(outer) : MarkSucc!2!(a)
    BY <1>8 DEF MarkSucc
  <2>2. a \in outer /\ a \in Arcs(fn) /\ EdgeOf(fn, a) \in Edge
    <3>1. a \in outer
      BY DEF Lowest
    <3> QED
      BY <3>1, StepTypes
  <2>3. cur \in Block /\ fn.bbErr[cur] \in SUBSET Flag
    BY <1>8, StepTypes DEF MarkSucc
  <2>4. edgeErr' \in [Edge -> SUBSET Flag]
    BY <2>1, <2>2, <2>3, WithReturnFacts
  <2>5. EEP' \in Seq(EdgeFlag) /\ PE' \subseteq Edge /\ pc' \in PC /\ outer' \subseteq Arcs(fn)
    BY <1>8, <2>1, <2>2, <2>3, QueueEntry, ZenonT(60) DEF MarkSucc
  <2> QED
    BY <1>8, <2>1, <2>3, <2>4, <2>5 DEF MarkSucc
<1>9. CASE NextBlock
  BY <1>9, StepTypes DEF NextBlock
<1>10. CASE StartIdentify
  BY <1>10, StepTypes DEF StartIdentify
<1> QED
  BY <1>1, <1>2, <1>3, <1>4, <1>5, <1>6, <1>7, <1>8, <1>9, <1>10 DEF MarkBlocks

LEMMA ToHandleOrReturnTypeOK ==
  ASSUME TypeOK, ToHandleOrReturn
  PROVE  TypeOK'
<1> USE DEF TypeOK, PC
<1>1. CASE TakeBlock
  <2>1. Head(EB) \in Block /\ Tail(EB) \in Seq(Block)
    BY <1>1, HeadTailProperties DEF TakeBlock
  <2>2. In(fn, Head(EB)) \subseteq Arcs(fn)
    BY <2>1, StepTypes
  <2>3. todo' \subseteq Arcs(fn)
    BY <1>1, <2>2 DEF TakeBlock
  <2> QED
    BY <1>1, <2>1, <2>3 DEF TakeBlock
<1>2. CASE MarkHandle
  <2>1. PICK a \in todo : MarkHandle!2!(a)
    BY <1>2 DEF MarkHandle
  <2>2. a \in Arcs(fn) /\ EdgeOf(fn, a) \in Edge /\ a[1] \in Block
    BY StepTypes
  <2>3. WithHandle(EdgeOf(fn, a), {"Must_Handle_Err"}) \in [Edge -> SUBSET Flag]
    BY <2>2, WithHandleFacts
  <2>4. edgeErr' \in [Edge -> SUBSET Flag]
    BY <2>1, <2>3
  <2>5. Append(EB, a[1]) \in Seq(Block)
    BY <2>2, AppendProperties
  <2>6. EB' \in Seq(Block)
    BY <2>1, <2>5
  <2> QED
    BY <1>2, <2>1, <2>4, <2>6 DEF MarkHandle
<1>3. CASE MarkReturn
  <2>1. PICK a \in todo : MarkReturn!2!(a)
    BY <1>3 DEF MarkReturn
  <2>2. a \in Arcs(fn) /\ EdgeOf(fn, a) \in Edge /\ a[1] \in Block
    BY StepTypes
  <2>3. WithReturn(EdgeOf(fn, a), {"May_Return_Err"}) \in [Edge -> SUBSET Flag]
    <3>1. {"May_Return_Err"} \in SUBSET Flag
      BY DEF Flag
    <3> QED
      BY <2>2, <3>1, WithReturnFacts
  <2>4. Append(EB, a[1]) \in Seq(Block)
    BY <2>2, AppendProperties
  <2>5. edgeErr' \in [Edge -> SUBSET Flag] /\ EB' \in Seq(Block)
    BY <2>1, <2>3, <2>4
  <2> QED
    BY <1>3, <2>1, <2>5 DEF MarkReturn
<1>4. CASE ReturnFromBlocks
  BY <1>4, StepTypes DEF ReturnFromBlocks
<1> QED
  BY <1>1, <1>2, <1>3, <1>4 DEF ToHandleOrReturn

LEMMA ToBlockTypeOK ==
  ASSUME TypeOK, ToBlock
  PROVE  TypeOK'
<1> USE DEF TypeOK, PC
<1>1. CASE TakeToBlock
  <2> DEFINE e == Head(EEP).edge
  <2>1. Tail(EEP) \in Seq(EdgeFlag) /\ e \in Edge /\ e[1] \in Block
    BY <1>1, EdgeQueue DEF TakeToBlock
  <2>2. EEP' = Tail(EEP) /\ PE' = PE \cup {e}
    BY <1>1 DEF TakeToBlock
  <2>3. \/ UNCHANGED <<pc, todo, EB, PB>>
        \/ pc' = "toReturn" /\ EB' = <<e[1]>> /\ PB' = {} /\ UNCHANGED todo
        \/ pc' = "raise" /\ todo' = In(fn, e[1]) /\ UNCHANGED <<EB, PB>>
    BY <1>1 DEF TakeToBlock
  <2>4. UNCHANGED <<fn, edgeErr, cur, outer, at, IntFlag, checks>>
    BY <1>1 DEF TakeToBlock
  <2>5. In(fn, e[1]) \subseteq Arcs(fn) /\ cur \in Block
    BY <1>1, <2>1, StepTypes DEF TakeToBlock
  <2> HIDE DEF e
  <2>6. <<e[1]>> \in Seq(Block)
    BY <2>1
  <2>7. EB' \in Seq(Block) /\ PB' \subseteq Block
    BY <2>3, <2>6
  <2>8. pc' \in PC /\ todo' \subseteq Arcs(fn)
    BY <2>3, <2>5
  <2> QED
    BY <2>1, <2>2, <2>4, <2>5, <2>7, <2>8
<1>2. CASE RaiseMust
  <2>1. PICK a \in todo : RaiseMust!2!(a)
    BY <1>2 DEF RaiseMust
  <2>2. a \in Arcs(fn) /\ EdgeOf(fn, a) \in Edge /\ {"Must_Return_Err"} \in SUBSET Flag
    BY StepTypes DEF Flag
  <2>3. WithReturn(EdgeOf(fn, a), {"Must_Return_Err"}) \in [Edge -> SUBSET Flag]
    BY <2>2, WithReturnFacts
  <2>4. Append(EEP, [edge |-> EdgeOf(fn, a), flag |-> {"Must_Return_Err"}]) \in Seq(EdgeFlag)
    BY <2>2, QueueEntry
  <2>5. edgeErr' \in [Edge -> SUBSET Flag] /\ EEP' \in Seq(EdgeFlag)
    BY <2>1, <2>3, <2>4
  <2> QED
    BY <1>2, <2>1, <2>5 DEF RaiseMust
<1>3. CASE EndRaise
  BY <1>3, StepTypes DEF EndRaise
<1>4. CASE ReturnFromToBlock
  BY <1>4, StepTypes DEF ReturnFromToBlock
<1> QED
  BY <1>1, <1>2, <1>3, <1>4 DEF ToBlock

LEMMA FromBlockTypeOK ==
  ASSUME TypeOK, FromBlock
  PROVE  TypeOK'
<1> USE DEF TypeOK, PC
<1>1. CASE TakeFromBlock
  <2> DEFINE e == Head(EEP).edge
  <2>1. /\ Tail(EEP) \in Seq(EdgeFlag) /\ e \in Edge /\ e[2] \in Block
        /\ Head(EEP).flag \in SUBSET Flag
    BY <1>1, EdgeQueue DEF TakeFromBlock
  <2>2. EEP' = Tail(EEP) /\ PE' = PE \cup {e}
    BY <1>1 DEF TakeFromBlock
  <2>3. \/ UNCHANGED <<pc, todo, at, IntFlag>>
        \/ /\ pc' = "merge" /\ at' = e /\ IntFlag' = Head(EEP).flag
           /\ todo' = {a \in In(fn, e[2]) : a[1] # e[1]}
    BY <1>1 DEF TakeFromBlock
  <2>4. UNCHANGED <<fn, edgeErr, cur, outer, EB, PB, checks>>
    BY <1>1 DEF TakeFromBlock
  <2>5. In(fn, e[2]) \subseteq Arcs(fn) /\ cur \in Block
    BY <1>1, <2>1, StepTypes DEF TakeFromBlock
  <2> HIDE DEF e
  <2>6. pc' \in PC /\ at' \in Edge /\ IntFlag' \in SUBSET Flag /\ todo' \subseteq Arcs(fn)
    BY <2>1, <2>3, <2>5
  <2> QED
    BY <2>1, <2>2, <2>4, <2>5, <2>6
<1>2. CASE MergePred
  <2>1. PICK a \in todo : MergePred!2!(a)
    BY <1>2 DEF MergePred
  <2>2. edgeErr[EdgeOf(fn, a)] \in SUBSET Flag
    BY StepTypes
  <2>3. IntFlag' \in SUBSET Flag
    BY <2>1, <2>2, FlagTypes
  <2> QED
    BY <1>2, <2>1, <2>3 DEF MergePred
<1>3. CASE StartSpread
  <2>1. at[2] \in Block
    BY DEF Edge
  <2>2. Out(fn, at[2]) \subseteq Arcs(fn)
    BY <2>1, StepTypes
  <2> QED
    BY <1>3, <2>2 DEF StartSpread
<1>4. CASE Spread
  <2>1. PICK a \in Lowest(todo) : Spread!2!(a)
    BY <1>4 DEF Spread
  <2>2. a \in todo
    BY DEF Lowest
  <2>3. a \in Arcs(fn) /\ EdgeOf(fn, a) \in Edge
    BY <2>2, StepTypes
  <2>4. WithReturn(EdgeOf(fn, a), IntFlag) \in [Edge -> SUBSET Flag]
    BY <2>3, WithReturnFacts
  <2>5. Append(EEP, [edge |-> EdgeOf(fn, a), flag |-> IntFlag]) \in Seq(EdgeFlag)
    BY <2>3, QueueEntry
  <2>6. edgeErr' \in [Edge -> SUBSET Flag] /\ EEP' \in Seq(EdgeFlag)
    BY <2>1, <2>4, <2>5
  <2> QED
    BY <1>4, <2>1, <2>6 DEF Spread
<1>5. CASE EndSpread
  BY <1>5, StepTypes DEF EndSpread
<1>6. CASE ReturnFromFromBlock
  BY <1>6, StepTypes DEF ReturnFromFromBlock
<1> QED
  BY <1>1, <1>2, <1>3, <1>4, <1>5, <1>6 DEF FromBlock

LEMMA IdentifyTypeOK ==
  ASSUME TypeOK, Identify
  PROVE  TypeOK'
<1> USE DEF TypeOK, PC
<1>1. CASE IdentifyBranch
  <2>1. cur \in Block /\ cur' \in 1 .. N + 1
    BY <1>1, StepTypes DEF IdentifyBranch
  <2>2. [cond |-> fn.cond[cur], branch |-> cur] \in SecurityCheck
    <3>1. fn.cond \in [Block -> Block]
      BY FunctionFacts
    <3> QED
      BY <2>1, <3>1 DEF SecurityCheck
  <2>3. checks' \subseteq SecurityCheck
    BY <1>1, <2>2 DEF IdentifyBranch, AddSecurityCheck
  <2> QED
    BY <1>1, <2>1, <2>3 DEF IdentifyBranch
<1>2. CASE Finish
  BY <1>2 DEF Finish
<1> QED
  BY <1>1, <1>2 DEF Identify

LEMMA NextTypeOK == TypeOK /\ [Next]_vars => TypeOK'
<1> SUFFICES ASSUME TypeOK, [Next]_vars
             PROVE  TypeOK'
  OBVIOUS
<1>1. CASE UNCHANGED vars
  BY <1>1 DEF TypeOK, vars, control
<1>2. CASE Done
  BY <1>2 DEF Done, TypeOK, vars, control
<1> QED
  BY <1>1, <1>2, MarkBlocksTypeOK, ToHandleOrReturnTypeOK, ToBlockTypeOK, FromBlockTypeOK,
     IdentifyTypeOK DEF Next

(* Every variable keeps its type: no loop runs past the blocks, no queue holds  *)
(* what is not a block or a marked edge.                                       *)
THEOREM TypeCorrect == Spec => []TypeOK
  BY InitTypeOK, NextTypeOK, PTL DEF Spec

-----------------------------------------------------------------------------
(* The inductive invariant of the handle half.                                *)

(* All edges into b are marked.                                               *)
Settled(b) == \A a \in In(fn, b) : Handled(edgeErr[EdgeOf(fn, a)])

(* The walk under way has taken b, or will.                                   *)
Queued(b) == pc = "handle" /\ (b \in PB \/ \E k \in DOMAIN EB : EB[k] = b)

(* The loop over the blocks has come to b.                                    *)
Passed(b) == pc \in {"identify", "done"} \/ b < cur \/ (b = cur /\ pc # "block")

InnerLoopsEmpty == pc \notin {"handle", "raise", "toReturn", "merge", "spread"} => todo = {}

(* What the walk has in hand leads to a handler.                              *)
WalkSound ==
  pc = "handle" =>
    /\ \A k \in DOMAIN EB : EB[k] \in HandledBlocks(fn)
    /\ \A a \in todo : Dst(fn, a) \in HandledBlocks(fn)

(* The edges into a taken block are marked or about to be visited.            *)
WalkThorough ==
  pc = "handle" =>
    \A b \in PB : \A a \in In(fn, b) : Handled(edgeErr[EdgeOf(fn, a)]) \/ a \in todo

(* A mark on the only edge out of a block has been, or will be, passed on:    *)
(* this is why a walk may stop at an edge an earlier walk has marked.         *)
MarksPassedOn ==
  \A a \in Arcs(fn) :
    NumSuccessors(fn, a[1]) = 1 /\ Handled(edgeErr[EdgeOf(fn, a)])
      => Settled(a[1]) \/ Queued(a[1])

HandlersServed == \A b \in HandlersIn(fn) : Passed(b) => Settled(b) \/ Queued(b)

HandleInv ==
  /\ InnerLoopsEmpty
  /\ HandleSound
  /\ WalkSound
  /\ WalkThorough
  /\ MarksPassedOn
  /\ HandlersServed

-----------------------------------------------------------------------------
(* HandledBlocks is the least closed set.                                     *)

LEMMA HandledBlocksLeast ==
  ASSUME NEW f \in Functions, NEW S \in SUBSET Block, HandledClosed(f, S)
  PROVE  HandledBlocks(f) \subseteq S
  BY DEF HandledBlocks

LEMMA HandledBlocksClosed ==
  ASSUME NEW f \in Functions
  PROVE  HandledClosed(f, HandledBlocks(f))
<1>1. HandlersIn(f) \subseteq HandledBlocks(f)
  BY DEF HandledBlocks, HandledClosed, HandlersIn
<1>2. ASSUME NEW p \in Block, NumSuccessors(f, p) = 1, f.succ[p][1] \in HandledBlocks(f)
      PROVE  p \in HandledBlocks(f)
  <2>1. ASSUME NEW S \in SUBSET Block, HandledClosed(f, S)
        PROVE  p \in S
    <3>1. f.succ[p][1] \in S
      BY <1>2, <2>1, HandledBlocksLeast
    <3> QED
      BY <1>2, <2>1, <3>1 DEF HandledClosed
  <2> QED
    BY <2>1 DEF HandledBlocks
<1> QED
  BY <1>1, <1>2 DEF HandledClosed

(* The source of an arc that is the only one of its block, and enters a        *)
(* handled block, is handled.                                                 *)
LEMMA HandledBefore ==
  ASSUME NEW f \in Functions, NEW a \in Arcs(f),
         NumSuccessors(f, a[1]) = 1, Dst(f, a) \in HandledBlocks(f)
  PROVE  a[1] \in HandledBlocks(f)
<1>1. a[1] \in Block /\ a[2] \in 1 .. Len(f.succ[a[1]])
  BY ArcFacts
<1>2. a[2] = 1
  BY <1>1 DEF NumSuccessors
<1>3. f.succ[a[1]][1] \in HandledBlocks(f)
  BY <1>2 DEF Dst
<1> QED
  BY <1>1, <1>3, HandledBlocksClosed DEF HandledClosed

(* With every handler passed and no walk under way, the marks are complete:    *)
(* the settled blocks are a closed set.                                       *)
LEMMA Complete ==
  ASSUME TypeOK, HandleInv, pc # "handle", \A b \in Block : Passed(b)
  PROVE  Marked = HandleEdges(fn)
<1> DEFINE S == {b \in Block : Settled(b)}
<1>1. fn \in Functions
  BY DEF TypeOK
<1>2. \A b \in Block : ~Queued(b)
  BY DEF Queued
<1>3. HandlersIn(fn) \subseteq S
  <2>1. HandlersIn(fn) \subseteq Block
    BY DEF HandlersIn
  <2> QED
    BY <1>2, <2>1 DEF HandleInv, HandlersServed
<1>4. ASSUME NEW p \in Block, NumSuccessors(fn, p) = 1, fn.succ[p][1] \in S
      PROVE  p \in S
  <2> DEFINE a == <<p, 1>>
  <2>1. a \in Arcs(fn)
    <3>1. fn.succ[p] \in Seq(Block)
      BY <1>1, FunctionFacts
    <3>2. 1 \in DOMAIN fn.succ[p]
      BY <1>4, <3>1, LenProperties DEF NumSuccessors
    <3>3. a \in Out(fn, p)
      BY <3>2 DEF Out
    <3> QED
      BY <3>3 DEF Arcs
  <2>2. a \in In(fn, fn.succ[p][1])
    BY <2>1 DEF In, Dst
  <2>3. Handled(edgeErr[EdgeOf(fn, a)])
    BY <1>4, <2>2 DEF Settled
  <2>4. a[1] = p
    OBVIOUS
  <2> HIDE DEF a
  <2> QED
    BY <1>2, <1>4, <2>1, <2>3, <2>4 DEF HandleInv, MarksPassedOn
<1>5. HandledClosed(fn, S)
  BY <1>3, <1>4 DEF HandledClosed
<1>6. HandledBlocks(fn) \subseteq S
  BY <1>1, <1>5, HandledBlocksLeast
<1>7. ASSUME NEW e \in HandleEdges(fn)
      PROVE  e \in Marked
  <2>1. e \in EdgesOf(fn) /\ e[2] \in S
    BY <1>6 DEF HandleEdges
  <2>2. PICK a \in Arcs(fn) : e = EdgeOf(fn, a)
    BY <2>1 DEF EdgesOf
  <2>3. e \in Edge /\ a \in In(fn, e[2])
    BY <1>1, <2>2, ArcFacts
  <2>4. Handled(edgeErr[e])
    BY <2>1, <2>2, <2>3 DEF Settled
  <2> QED
    BY <2>3, <2>4 DEF Marked
<1> QED
  BY <1>7 DEF HandleInv, HandleSound

-----------------------------------------------------------------------------
(* Steps that set no handle mark.                                             *)

SameMarks == \A e \in Edge : Handled(edgeErr'[e]) <=> Handled(edgeErr[e])
KeepsReturns == \A e \in Edge : Returns(edgeErr[e]) # {} => Returns(edgeErr'[e]) # {}

NonePassed == \A b \in HandlersIn(fn) : Passed(b)' => Passed(b)

QuietStep ==
  /\ fn' = fn
  /\ pc # "handle" /\ pc' # "handle"
  /\ InnerLoopsEmpty'
  /\ SameMarks /\ KeepsReturns
  /\ NonePassed

LEMMA SameFlags ==
  ASSUME edgeErr' = edgeErr
  PROVE  SameMarks /\ KeepsReturns
  BY DEF SameMarks, KeepsReturns

LEMMA ReturnWritten ==
  ASSUME TypeOK, NEW a \in Arcs(fn), NEW flag \in SUBSET Flag,
         edgeErr' = WithReturn(EdgeOf(fn, a), flag)
  PROVE  SameMarks /\ KeepsReturns
<1>1. EdgeOf(fn, a) \in Edge /\ edgeErr \in [Edge -> SUBSET Flag]
  BY StepTypes DEF TypeOK
<1> QED
  BY <1>1, WithReturnFacts DEF SameMarks, KeepsReturns

(* Inside the body of the loop over the blocks, cur has been passed, and an    *)
(* iteration that ends passes no other block.                                 *)
LEMMA SamePassed ==
  ASSUME TypeOK, pc \notin {"block", "identify", "done"},
         pc' \notin {"identify", "done"},
         cur' = cur \/ (cur' = cur + 1 /\ pc' = "block")
  PROVE  NonePassed
<1>1. cur \in Int
  BY NAssumption DEF TypeOK, Block
<1>2. ASSUME NEW b \in HandlersIn(fn), Passed(b)'
      PROVE  Passed(b)
  <2>1. b \in Int
    BY NAssumption DEF HandlersIn, Block
  <2>2. b < cur' \/ (b = cur' /\ pc' # "block")
    BY <1>2 DEF Passed
  <2>3. b < cur \/ b = cur
    BY <1>1, <2>1, <2>2
  <2> QED
    BY <2>3 DEF Passed
<1> QED
  BY <1>2 DEF NonePassed

LEMMA SkippedBlock ==
  ASSUME TypeOK, pc = "block", cur \in Block, ~Handled(fn.bbErr[cur]),
         \/ cur' = cur + 1 /\ pc' = "block"
         \/ cur' = cur /\ pc' = "return"
  PROVE  NonePassed
<1>1. cur \in Int
  BY NAssumption DEF TypeOK, Block
<1>2. ASSUME NEW b \in HandlersIn(fn), Passed(b)'
      PROVE  Passed(b)
  <2>1. b \in Int /\ b # cur
    BY NAssumption DEF HandlersIn, Block
  <2>2. b < cur' \/ (b = cur' /\ pc' # "block")
    BY <1>2 DEF Passed
  <2>3. b < cur
    BY <1>1, <2>1, <2>2
  <2> QED
    BY <2>3 DEF Passed
<1> QED
  BY <1>2 DEF NonePassed

LEMMA QuietMarkBlocks ==
  ASSUME TypeOK, InnerLoopsEmpty, MarkBlocks, ~CallToErrHandle
  PROVE  QuietStep
<1>1. CASE NoErrorInBlock
  <2>1. ~Handled(fn.bbErr[cur])
    BY <1>1 DEF NoErrorInBlock, Handled
  <2>2. NonePassed
    BY <1>1, <2>1, SkippedBlock DEF NoErrorInBlock
  <2> QED
    BY <1>1, <2>2, SameFlags DEF NoErrorInBlock, QuietStep, InnerLoopsEmpty
<1>2. CASE NoErrHandle
  <2>1. NonePassed
    BY <1>2, SkippedBlock DEF NoErrHandle
  <2> QED
    BY <1>2, <2>1, SameFlags DEF NoErrHandle, QuietStep, InnerLoopsEmpty
<1>3. CASE NoReturnFlag
  BY <1>3, SamePassed, SameFlags DEF NoReturnFlag, QuietStep, InnerLoopsEmpty
<1>4. CASE StartPreds
  BY <1>4, SamePassed, SameFlags DEF StartPreds, QuietStep, InnerLoopsEmpty
<1>5. CASE MarkPred
  <2>1. PICK a \in outer : edgeErr' = WithReturn(EdgeOf(fn, a), fn.bbErr[cur])
    BY <1>5 DEF MarkPred
  <2>2. a \in Arcs(fn) /\ fn.bbErr[cur] \in SUBSET Flag
    BY <1>5, StepTypes DEF MarkPred, TypeOK
  <2>3. SameMarks /\ KeepsReturns
    BY <2>1, <2>2, ReturnWritten
  <2> QED
    BY <1>5, <2>3, SamePassed DEF MarkPred, QuietStep, InnerLoopsEmpty
<1>6. CASE StartSuccs
  BY <1>6, SamePassed, SameFlags DEF StartSuccs, QuietStep, InnerLoopsEmpty
<1>7. CASE MarkSucc
  <2>1. PICK a \in Lowest(outer) : MarkSucc!2!(a)
    BY <1>7 DEF MarkSucc
  <2>2. a \in Arcs(fn) /\ fn.bbErr[cur] \in SUBSET Flag
    BY <1>7, StepTypes DEF MarkSucc, TypeOK, Lowest
  <2>3. SameMarks /\ KeepsReturns
    BY <2>1, <2>2, ReturnWritten
  <2>4. pc = "succs" /\ pc' \in {"succs", "fromBlock"} /\ UNCHANGED <<fn, cur, todo>>
    BY <1>7, <2>1 DEF MarkSucc
  <2> QED
    BY <2>3, <2>4, SamePassed DEF QuietStep, InnerLoopsEmpty
<1>8. CASE NextBlock
  BY <1>8, SamePassed, SameFlags DEF NextBlock, QuietStep, InnerLoopsEmpty
<1>9. CASE StartIdentify
  <2>1. NonePassed
    BY <1>9, NAssumption DEF StartIdentify, NonePassed, Passed, HandlersIn, Block
  <2> QED
    BY <1>9, <2>1, SameFlags DEF StartIdentify, QuietStep, InnerLoopsEmpty
<1> QED
  BY <1>1, <1>2, <1>3, <1>4, <1>5, <1>6, <1>7, <1>8, <1>9 DEF MarkBlocks

LEMMA QuietToReturn ==
  ASSUME TypeOK, InnerLoopsEmpty, ToHandleOrReturn, pc # "handle"
  PROVE  QuietStep
<1>1. CASE TakeBlock
  <2>1. pc = "toReturn"
    BY <1>1 DEF TakeBlock
  <2> QED
    BY <1>1, <2>1, SamePassed, SameFlags DEF TakeBlock, QuietStep, InnerLoopsEmpty
<1>2. CASE MarkHandle
  BY <1>2 DEF MarkHandle
<1>3. CASE MarkReturn
  <2>1. PICK a \in todo : MarkReturn!2!(a)
    BY <1>3 DEF MarkReturn
  <2>2. a \in Arcs(fn) /\ {"May_Return_Err"} \in SUBSET Flag
    BY DEF TypeOK, Flag
  <2>3. SameMarks /\ KeepsReturns
    <3>1. CASE UNCHANGED <<edgeErr, EB>>
      BY <3>1, SameFlags
    <3>2. CASE edgeErr' = WithReturn(EdgeOf(fn, a), {"May_Return_Err"})
      BY <2>2, <3>2, ReturnWritten
    <3> QED
      BY <2>1, <3>1, <3>2
  <2>4. pc = "toReturn" /\ UNCHANGED <<fn, pc, cur>>
    BY <1>3 DEF MarkReturn
  <2> QED
    BY <2>3, <2>4, SamePassed DEF QuietStep, InnerLoopsEmpty
<1>4. CASE ReturnFromBlocks
  <2>1. pc = "toReturn" /\ pc' = "toBlock"
    BY <1>4 DEF ReturnFromBlocks
  <2> QED
    BY <1>4, <2>1, SamePassed, SameFlags DEF ReturnFromBlocks, QuietStep, InnerLoopsEmpty
<1> QED
  BY <1>1, <1>2, <1>3, <1>4 DEF ToHandleOrReturn

LEMMA QuietToBlock ==
  ASSUME TypeOK, InnerLoopsEmpty, ToBlock
  PROVE  QuietStep
<1>1. CASE TakeToBlock
  <2>1. /\ pc = "toBlock" /\ UNCHANGED <<fn, edgeErr, cur>>
        /\ pc' \in {"toBlock", "toReturn", "raise"}
        /\ pc' = "toBlock" => todo' = todo
    <3>1. pc = "toBlock" /\ UNCHANGED <<fn, edgeErr, cur>>
      BY <1>1 DEF TakeToBlock
    <3>2. \/ UNCHANGED <<pc, todo, EB, PB>>
          \/ pc' = "toReturn" /\ UNCHANGED todo
          \/ pc' = "raise"
      BY <1>1 DEF TakeToBlock
    <3> QED
      BY <3>1, <3>2
  <2> QED
    BY <2>1, SamePassed, SameFlags DEF QuietStep, InnerLoopsEmpty
<1>2. CASE RaiseMust
  <2>1. PICK a \in todo : RaiseMust!2!(a)
    BY <1>2 DEF RaiseMust
  <2>2. a \in Arcs(fn) /\ {"Must_Return_Err"} \in SUBSET Flag
    BY DEF TypeOK, Flag
  <2>3. SameMarks /\ KeepsReturns
    <3>1. CASE UNCHANGED <<edgeErr, EEP>>
      BY <3>1, SameFlags
    <3>2. CASE edgeErr' = WithReturn(EdgeOf(fn, a), {"Must_Return_Err"})
      BY <2>2, <3>2, ReturnWritten
    <3> QED
      BY <2>1, <3>1, <3>2
  <2>4. pc = "raise" /\ UNCHANGED <<fn, pc, cur>>
    BY <1>2 DEF RaiseMust
  <2> QED
    BY <2>3, <2>4, SamePassed DEF QuietStep, InnerLoopsEmpty
<1>3. CASE EndRaise
  BY <1>3, SamePassed, SameFlags DEF EndRaise, QuietStep, InnerLoopsEmpty
<1>4. CASE ReturnFromToBlock
  BY <1>4, SamePassed, SameFlags DEF ReturnFromToBlock, QuietStep, InnerLoopsEmpty
<1> QED
  BY <1>1, <1>2, <1>3, <1>4 DEF ToBlock

LEMMA QuietFromBlock ==
  ASSUME TypeOK, InnerLoopsEmpty, FromBlock
  PROVE  QuietStep
<1>1. CASE TakeFromBlock
  <2>1. /\ pc = "fromBlock" /\ UNCHANGED <<fn, edgeErr, cur>>
        /\ UNCHANGED <<pc, todo>> \/ pc' = "merge"
    BY <1>1 DEF TakeFromBlock
  <2> QED
    BY <2>1, SamePassed, SameFlags DEF QuietStep, InnerLoopsEmpty
<1>2. CASE MergePred
  BY <1>2, SamePassed, SameFlags DEF MergePred, QuietStep, InnerLoopsEmpty
<1>3. CASE StartSpread
  BY <1>3, SamePassed, SameFlags DEF StartSpread, QuietStep, InnerLoopsEmpty
<1>4. CASE Spread
  <2>1. PICK a \in Lowest(todo) : Spread!2!(a)
    BY <1>4 DEF Spread
  <2>2. a \in Arcs(fn) /\ IntFlag \in SUBSET Flag
    BY DEF TypeOK, Lowest
  <2>3. SameMarks /\ KeepsReturns
    <3>1. CASE UNCHANGED <<edgeErr, EEP>>
      BY <3>1, SameFlags
    <3>2. CASE edgeErr' = WithReturn(EdgeOf(fn, a), IntFlag)
      BY <2>2, <3>2, ReturnWritten
    <3> QED
      BY <2>1, <3>1, <3>2
  <2>4. pc = "spread" /\ UNCHANGED <<fn, pc, cur>>
    BY <1>4 DEF Spread
  <2> QED
    BY <2>3, <2>4, SamePassed DEF QuietStep, InnerLoopsEmpty
<1>5. CASE EndSpread
  BY <1>5, SamePassed, SameFlags DEF EndSpread, QuietStep, InnerLoopsEmpty
<1>6. CASE ReturnFromFromBlock
  BY <1>6, SamePassed, SameFlags DEF ReturnFromFromBlock, QuietStep, InnerLoopsEmpty
<1> QED
  BY <1>1, <1>2, <1>3, <1>4, <1>5, <1>6 DEF FromBlock

LEMMA QuietIdentify ==
  ASSUME TypeOK, InnerLoopsEmpty, Identify
  PROVE  QuietStep
<1>1. pc = "identify" /\ pc' \in {"identify", "done"} /\ UNCHANGED <<fn, edgeErr, todo>>
  BY DEF Identify, IdentifyBranch, Finish
<1>2. NonePassed
  BY <1>1 DEF NonePassed, Passed
<1> QED
  BY <1>1, <1>2, SameFlags DEF QuietStep, InnerLoopsEmpty

-----------------------------------------------------------------------------
(* Preservation of the invariant.                                             *)

LEMMA SettledKept ==
  ASSUME TypeOK, fn' = fn, NEW b \in Block, Settled(b),
         \A e \in Edge : Handled(edgeErr[e]) => Handled(edgeErr'[e])
  PROVE  Settled(b)'
<1>1. \A a \in In(fn, b) : EdgeOf(fn, a) \in Edge
  BY StepTypes
<1> QED
  BY <1>1 DEF Settled

(* MarksPassedOn and HandlersServed after a step that marks nothing: it is     *)
(* enough that it drops no block the walk still needs.                        *)
LEMMA ServedKept ==
  ASSUME TypeOK, MarksPassedOn, HandlersServed, fn' = fn, SameMarks,
         \A b \in Block : Queued(b) => Settled(b)' \/ Queued(b)',
         \A b \in HandlersIn(fn) : Passed(b)' => Passed(b) \/ Queued(b)'
  PROVE  MarksPassedOn' /\ HandlersServed'
<1>1. \A b \in Block : Settled(b) => Settled(b)'
  BY SettledKept DEF SameMarks
<1>2. ASSUME NEW a \in Arcs(fn), NumSuccessors(fn, a[1]) = 1,
             Handled(edgeErr'[EdgeOf(fn, a)])
      PROVE  Settled(a[1])' \/ Queued(a[1])'
  <2>1. a[1] \in Block /\ Handled(edgeErr[EdgeOf(fn, a)])
    BY <1>2, StepTypes DEF SameMarks
  <2>2. Settled(a[1]) \/ Queued(a[1])
    BY <1>2, <2>1 DEF MarksPassedOn
  <2> QED
    BY <1>1, <2>1, <2>2
<1>3. MarksPassedOn'
  BY <1>2 DEF MarksPassedOn
<1>4. ASSUME NEW b \in HandlersIn(fn), Passed(b)'
      PROVE  Settled(b)' \/ Queued(b)'
  <2>1. b \in Block
    BY DEF HandlersIn
  <2>2. Settled(b) \/ Queued(b) \/ Queued(b)'
    BY <1>4 DEF HandlersServed
  <2> QED
    BY <1>1, <2>1, <2>2
<1>5. HandlersServed'
  BY <1>4 DEF HandlersServed
<1> QED
  BY <1>3, <1>5

LEMMA SoundKept ==
  ASSUME HandleSound, fn' = fn, SameMarks
  PROVE  HandleSound'
<1>1. Marked' = Marked
  BY DEF Marked, SameMarks
<1> QED
  BY <1>1 DEF HandleSound

LEMMA QuietHandleInv ==
  ASSUME TypeOK, HandleInv, QuietStep
  PROVE  HandleInv'
<1>1. InnerLoopsEmpty' /\ WalkSound' /\ WalkThorough'
  BY DEF QuietStep, WalkSound, WalkThorough
<1>2. HandleSound'
  BY SoundKept DEF HandleInv, QuietStep
<1>3. \A b \in Block : ~Queued(b)
  BY DEF Queued, QuietStep
<1>4. MarksPassedOn' /\ HandlersServed'
  BY <1>3, ServedKept DEF HandleInv, QuietStep, NonePassed
<1> QED
  BY <1>1, <1>2, <1>4 DEF HandleInv

(* A walk starts from a handler.                                              *)
LEMMA CallHandleInv ==
  ASSUME TypeOK, HandleInv, CallToErrHandle
  PROVE  HandleInv' /\ KeepsReturns
<1>1. /\ pc = "block" /\ pc' = "handle" /\ EB' = <<cur>> /\ PB' = {} /\ cur \in Block
      /\ UNCHANGED <<fn, edgeErr, cur, todo>> /\ Handled(fn.bbErr[cur])
  BY DEF CallToErrHandle
<1>2. todo' = {} /\ InnerLoopsEmpty'
  BY <1>1 DEF HandleInv, InnerLoopsEmpty
<1>3. SameMarks /\ KeepsReturns
  BY <1>1, SameFlags
<1>4. HandleSound'
  BY <1>1, <1>3, SoundKept DEF HandleInv
<1>5. cur \in HandledBlocks(fn)
  BY <1>1, HandledBlocksClosed DEF HandledClosed, HandlersIn, TypeOK
<1>6. WalkSound' /\ WalkThorough'
  BY <1>1, <1>2, <1>5 DEF WalkSound, WalkThorough
<1>7. \A b \in Block : ~Queued(b)
  BY <1>1 DEF Queued
<1>8. Queued(cur)'
  <2>1. 1 \in DOMAIN EB' /\ EB'[1] = cur'
    BY <1>1
  <2> QED
    BY <1>1, <2>1 DEF Queued
<1>9. \A b \in HandlersIn(fn) : Passed(b)' => Passed(b) \/ b = cur
  BY <1>1 DEF Passed
<1>10. MarksPassedOn' /\ HandlersServed'
  <2>1. \A b \in HandlersIn(fn) : Passed(b)' => Passed(b) \/ Queued(b)'
    BY <1>1, <1>8, <1>9 DEF Queued
  <2> QED
    BY <1>1, <1>3, <1>7, <2>1, ServedKept DEF HandleInv
<1> QED
  BY <1>2, <1>3, <1>4, <1>6, <1>10 DEF HandleInv

LEMMA TakeHandleInv ==
  ASSUME TypeOK, HandleInv, TakeBlock, pc = "handle"
  PROVE  HandleInv' /\ KeepsReturns
<1> DEFINE b0 == Head(EB)
<1>1. /\ pc' = "handle" /\ todo = {} /\ EB # <<>> /\ EB' = Tail(EB) /\ PB' = PB \cup {b0}
      /\ todo' = (IF b0 \in PB THEN {} ELSE In(fn, b0))
      /\ UNCHANGED <<fn, edgeErr, cur>>
  BY DEF TakeBlock
<1>2. EB \in Seq(Block) /\ PB \subseteq Block /\ fn \in Functions
  BY DEF TypeOK
<1>3. /\ b0 \in Block /\ Len(EB) \in Nat \ {0} /\ b0 = EB[1] /\ 1 \in DOMAIN EB
      /\ DOMAIN EB = 1 .. Len(EB) /\ DOMAIN EB' = 1 .. Len(EB) - 1
      /\ \A k \in 1 .. Len(EB) - 1 : EB'[k] = EB[k + 1]
  BY <1>1, <1>2, HeadTailProperties, LenProperties
<1> HIDE DEF b0
<1>4. SameMarks /\ KeepsReturns
  BY <1>1, SameFlags
<1>5. HandleSound'
  BY <1>1, <1>4, SoundKept DEF HandleInv
<1>6. InnerLoopsEmpty'
  BY <1>1 DEF InnerLoopsEmpty
<1>7. WalkSound'
  <2>1. \A k \in DOMAIN EB : EB[k] \in HandledBlocks(fn)
    BY DEF HandleInv, WalkSound
  <2>2. \A k \in DOMAIN EB' : EB'[k] \in HandledBlocks(fn)
    BY <1>3, <2>1
  <2>3. \A a \in todo' : Dst(fn, a) \in HandledBlocks(fn)
    <3>1. b0 \in HandledBlocks(fn)
      BY <1>3, <2>1
    <3> QED
      BY <1>1, <3>1 DEF In
  <2> QED
    BY <1>1, <2>2, <2>3 DEF WalkSound
<1>8. WalkThorough'
  <2>1. ASSUME NEW b \in PB', NEW a \in In(fn, b)
        PROVE  Handled(edgeErr[EdgeOf(fn, a)]) \/ a \in todo'
    <3>1. CASE b \in PB
      BY <1>1, <3>1 DEF HandleInv, WalkThorough
    <3>2. CASE b \notin PB
      BY <1>1, <3>2
    <3> QED
      BY <3>1, <3>2
  <2> QED
    BY <1>1, <2>1 DEF WalkThorough
<1>9. MarksPassedOn' /\ HandlersServed'
  <2>1. ASSUME NEW b \in Block, Queued(b)
        PROVE  Queued(b)'
    <3>1. CASE b \in PB'
      BY <1>1, <3>1 DEF Queued
    <3>2. CASE b \notin PB'
      <4>1. PICK k \in DOMAIN EB : EB[k] = b
        BY <1>1, <2>1, <3>2 DEF Queued
      <4>2. k # 1
        BY <1>1, <1>3, <3>2, <4>1
      <4>3. k - 1 \in DOMAIN EB' /\ EB'[k - 1] = EB[k]
        BY <1>3, <4>1, <4>2
      <4> QED
        BY <1>1, <4>1, <4>3 DEF Queued
    <3> QED
      BY <3>1, <3>2
  <2>2. \A b \in HandlersIn(fn) : Passed(b)' => Passed(b)
    BY <1>1 DEF Passed
  <2> QED
    BY <1>1, <1>4, <2>1, <2>2, ServedKept DEF HandleInv
<1> QED
  BY <1>4, <1>5, <1>6, <1>7, <1>8, <1>9 DEF HandleInv

(* A walk ends with every block it has taken settled.                          *)
LEMMA ReturnHandleInv ==
  ASSUME TypeOK, HandleInv, ReturnFromBlocks, pc = "handle"
  PROVE  HandleInv' /\ KeepsReturns
<1>1. /\ pc' = "return" /\ todo = {} /\ EB = <<>>
      /\ UNCHANGED <<fn, edgeErr, cur, todo>>
  BY DEF ReturnFromBlocks
<1>2. SameMarks /\ KeepsReturns
  BY <1>1, SameFlags
<1>3. HandleSound'
  BY <1>1, <1>2, SoundKept DEF HandleInv
<1>4. InnerLoopsEmpty' /\ WalkSound' /\ WalkThorough'
  BY <1>1 DEF InnerLoopsEmpty, WalkSound, WalkThorough
<1>5. ASSUME NEW b \in Block, Queued(b)
      PROVE  Settled(b)'
  <2>1. b \in PB
    BY <1>1, <1>5 DEF Queued
  <2>2. Settled(b)
    BY <1>1, <2>1 DEF HandleInv, WalkThorough, Settled
  <2> QED
    BY <1>1, <1>2, <2>2, SettledKept DEF SameMarks
<1>6. \A b \in HandlersIn(fn) : Passed(b)' => Passed(b)
  BY <1>1 DEF Passed
<1>7. MarksPassedOn' /\ HandlersServed'
  BY <1>1, <1>2, <1>5, <1>6, ServedKept DEF HandleInv
<1> QED
  BY <1>2, <1>3, <1>4, <1>7 DEF HandleInv

-----------------------------------------------------------------------------
(* The step that marks.                                                       *)

MarksMore(e) ==
  \A d \in Edge : /\ Handled(edgeErr'[d]) <=> (d = e \/ Handled(edgeErr[d]))
                  /\ Returns(edgeErr'[d]) = Returns(edgeErr[d])

(* It visits an arc whose edge leads to a handler, which is marked afterwards,  *)
(* and enqueues the block the arc leaves if the arc is its only one.            *)
LEMMA MarkHandleStep ==
  ASSUME TypeOK, HandleInv, MarkHandle,
         NEW a \in todo, MarkHandle!2!(a)
  PROVE  /\ a \in Arcs(fn) /\ a[1] \in Block
         /\ EdgeOf(fn, a) \in HandleEdges(fn) /\ EdgeOf(fn, a) \in Edge
         /\ pc = "handle" /\ pc' = "handle" /\ fn' = fn /\ cur' = cur /\ PB' = PB
         /\ todo' = todo \ {a}
         /\ MarksMore(EdgeOf(fn, a))
         /\ \A k \in DOMAIN EB : k \in DOMAIN EB' /\ EB'[k] = EB[k]
         /\ \A k \in DOMAIN EB' : EB'[k] \in HandledBlocks(fn)
         /\ ~Handled(edgeErr[EdgeOf(fn, a)]) /\ NumSuccessors(fn, a[1]) = 1
              => \E k \in DOMAIN EB' : EB'[k] = a[1]
<1> DEFINE e == EdgeOf(fn, a)
<1>1. pc = "handle" /\ UNCHANGED <<fn, pc, cur, PB>>
  BY DEF MarkHandle
<1>2. fn \in Functions /\ edgeErr \in [Edge -> SUBSET Flag] /\ EB \in Seq(Block)
  BY DEF TypeOK
<1>3. a \in Arcs(fn)
  BY DEF TypeOK
<1>4. /\ a[1] \in Block /\ e \in Edge /\ e \in EdgesOf(fn) /\ e[2] = Dst(fn, a)
      /\ NumSuccessors(fn, a[1]) \in Nat /\ NumSuccessors(fn, a[1]) >= 1
  BY <1>2, <1>3, ArcFacts
<1>5. /\ Dst(fn, a) \in HandledBlocks(fn)
      /\ \A k \in DOMAIN EB : EB[k] \in HandledBlocks(fn)
  BY <1>1 DEF HandleInv, WalkSound
<1>6. e \in HandleEdges(fn)
  BY <1>4, <1>5 DEF HandleEdges
<1> HIDE DEF e
<1>7. /\ todo' = todo \ {a}
      /\ edgeErr' = IF Handled(edgeErr[e]) THEN edgeErr
                    ELSE WithHandle(e, {"Must_Handle_Err"})
      /\ EB' = IF Handled(edgeErr[e]) \/ NumSuccessors(fn, a[1]) > 1 THEN EB
               ELSE Append(EB, a[1])
  BY DEF e
<1>8. MarksMore(e)
  <2>1. CASE Handled(edgeErr[e])
    BY <1>7, <2>1, Zenon DEF MarksMore
  <2>2. CASE ~Handled(edgeErr[e])
    <3>1. edgeErr' = WithHandle(e, {"Must_Handle_Err"})
      BY <1>7, <2>2
    <3> QED
      BY <1>2, <1>4, <3>1, WithHandleFacts DEF MarksMore
  <2> QED
    BY <2>1, <2>2
<1>9. /\ \A k \in DOMAIN EB : k \in DOMAIN EB' /\ EB'[k] = EB[k]
      /\ \A k \in DOMAIN EB' : EB'[k] \in HandledBlocks(fn)
      /\ ~Handled(edgeErr[e]) /\ NumSuccessors(fn, a[1]) = 1
              => \E k \in DOMAIN EB' : EB'[k] = a[1]
  <2>1. CASE Handled(edgeErr[e]) \/ NumSuccessors(fn, a[1]) > 1
    <3>1. EB' = EB
      BY <1>7, <2>1
    <3> QED
      BY <1>4, <1>5, <2>1, <3>1
  <2>2. CASE ~Handled(edgeErr[e]) /\ ~(NumSuccessors(fn, a[1]) > 1)
    <3>1. EB' = Append(EB, a[1])
      BY <1>7, <2>2
    <3>2. a[1] \in HandledBlocks(fn)
      <4>1. NumSuccessors(fn, a[1]) = 1
        BY <1>4, <2>2
      <4> QED
        BY <1>2, <1>3, <1>5, <4>1, HandledBefore
    <3>3. /\ Len(EB) \in Nat /\ DOMAIN EB = 1 .. Len(EB) /\ DOMAIN EB' = 1 .. Len(EB) + 1
          /\ \A k \in 1 .. Len(EB) : EB'[k] = EB[k]
          /\ EB'[Len(EB) + 1] = a[1]
      BY <1>2, <1>4, <3>1, AppendProperties, LenProperties
    <3>4. Len(EB) + 1 \in DOMAIN EB'
      BY <3>3
    <3>5. \A k \in DOMAIN EB' : k \in DOMAIN EB \/ k = Len(EB) + 1
      BY <3>3
    <3> QED
      BY <1>5, <3>2, <3>3, <3>4, <3>5
  <2> QED
    BY <2>1, <2>2
<1> QED
  BY <1>1, <1>3, <1>4, <1>6, <1>7, <1>8, <1>9 DEF e

LEMMA MarkHandleInv ==
  ASSUME TypeOK, HandleInv, MarkHandle
  PROVE  HandleInv' /\ KeepsReturns
<1>1. PICK a \in todo : MarkHandle!2!(a)
  BY DEF MarkHandle
<1> DEFINE e == EdgeOf(fn, a)
<1>2. /\ a \in Arcs(fn) /\ a[1] \in Block /\ e \in HandleEdges(fn) /\ e \in Edge
      /\ pc = "handle" /\ pc' = "handle" /\ fn' = fn /\ cur' = cur /\ PB' = PB
      /\ todo' = todo \ {a}
      /\ MarksMore(e)
  BY <1>1, MarkHandleStep
<1>3. /\ \A k \in DOMAIN EB : k \in DOMAIN EB' /\ EB'[k] = EB[k]
      /\ \A k \in DOMAIN EB' : EB'[k] \in HandledBlocks(fn)
      /\ ~Handled(edgeErr[e]) /\ NumSuccessors(fn, a[1]) = 1
              => \E k \in DOMAIN EB' : EB'[k] = a[1]
  BY <1>1, MarkHandleStep
<1>4. \A c \in Arcs(fn) : EdgeOf(fn, c) = e => c[1] = a[1]
  BY DEF EdgeOf
<1> HIDE DEF e
<1>5. InnerLoopsEmpty' /\ KeepsReturns
  BY <1>2 DEF InnerLoopsEmpty, KeepsReturns, MarksMore
<1>6. HandleSound'
  BY <1>2 DEF HandleInv, HandleSound, Marked, MarksMore
<1>7. WalkSound'
  BY <1>2, <1>3 DEF HandleInv, WalkSound
<1>8. WalkThorough'
  <2>1. ASSUME NEW b \in PB, NEW c \in In(fn, b)
        PROVE  Handled(edgeErr'[EdgeOf(fn, c)]) \/ c \in todo'
    <3>1. EdgeOf(fn, c) \in Edge
      BY StepTypes DEF TypeOK
    <3>2. Handled(edgeErr[EdgeOf(fn, c)]) \/ c \in todo
      BY <1>2 DEF HandleInv, WalkThorough
    <3>3. c = a => EdgeOf(fn, c) = e
      BY DEF e
    <3> QED
      BY <1>2, <3>1, <3>2, <3>3 DEF MarksMore
  <2> QED
    BY <1>2, <2>1 DEF WalkThorough
<1>9. \A b \in Block : Settled(b) \/ Queued(b) => Settled(b)' \/ Queued(b)'
  <2>1. \A b \in Block : Settled(b) => Settled(b)'
    BY <1>2, SettledKept DEF MarksMore
  <2>2. \A b \in Block : Queued(b) => Queued(b)'
    BY <1>2, <1>3 DEF Queued
  <2> QED
    BY <2>1, <2>2
<1>10. MarksPassedOn'
  <2>1. ASSUME NEW c \in Arcs(fn), NumSuccessors(fn, c[1]) = 1,
               Handled(edgeErr'[EdgeOf(fn, c)])
        PROVE  Settled(c[1])' \/ Queued(c[1])'
    <3>1. c[1] \in Block /\ EdgeOf(fn, c) \in Edge
      BY StepTypes
    <3>2. CASE Handled(edgeErr[EdgeOf(fn, c)])
      <4>1. Settled(c[1]) \/ Queued(c[1])
        BY <2>1, <3>2 DEF HandleInv, MarksPassedOn
      <4> QED
        BY <1>9, <3>1, <4>1
    <3>3. CASE ~Handled(edgeErr[EdgeOf(fn, c)])
      <4>1. EdgeOf(fn, c) = e
        BY <1>2, <2>1, <3>1, <3>3 DEF MarksMore
      <4>2. c[1] = a[1] /\ ~Handled(edgeErr[e])
        BY <1>4, <3>3, <4>1
      <4>3. \E k \in DOMAIN EB' : EB'[k] = c[1]
        BY <1>3, <2>1, <4>2
      <4> QED
        BY <1>2, <4>3 DEF Queued
    <3> QED
      BY <3>2, <3>3
  <2> QED
    BY <1>2, <2>1 DEF MarksPassedOn
<1>11. HandlersServed'
  <2>1. \A b \in HandlersIn(fn) : b \in Block /\ (Passed(b)' => Passed(b))
    BY <1>2 DEF Passed, HandlersIn
  <2> QED
    BY <1>2, <1>9, <2>1 DEF HandleInv, HandlersServed
<1> QED
  BY <1>5, <1>6, <1>7, <1>8, <1>10, <1>11 DEF HandleInv

-----------------------------------------------------------------------------
(* The invariant of the handle half, and what follows from it.                *)

LEMMA InitHandleInv == Init => HandleInv
<1> SUFFICES ASSUME Init
             PROVE  HandleInv
  OBVIOUS
<1>1. pc = "block" /\ todo = {} /\ cur = 1 /\ \A e \in Edge : edgeErr[e] = {}
  BY DEF Init
<1>2. \A e \in Edge : ~Handled(edgeErr[e])
  BY <1>1 DEF Handled
<1>3. InnerLoopsEmpty /\ WalkSound /\ WalkThorough
  BY <1>1 DEF InnerLoopsEmpty, WalkSound, WalkThorough
<1>4. HandleSound
  BY <1>2 DEF HandleSound, Marked
<1>5. MarksPassedOn
  <2>1. \A a \in Arcs(fn) : EdgeOf(fn, a) \in Edge
    BY ArcFacts DEF Init
  <2> QED
    BY <1>2, <2>1 DEF MarksPassedOn
<1>6. HandlersServed
  BY <1>1, NAssumption DEF HandlersServed, HandlersIn, Passed, Block
<1> QED
  BY <1>3, <1>4, <1>5, <1>6 DEF HandleInv

(* A step of Next is quiet, or one of the four the invariant is about.         *)
LEMMA StepCases ==
  ASSUME TypeOK, InnerLoopsEmpty, Next
  PROVE  \/ QuietStep
         \/ CallToErrHandle
         \/ TakeBlock /\ pc = "handle"
         \/ MarkHandle
         \/ ReturnFromBlocks /\ pc = "handle"
         \/ UNCHANGED vars
<1>1. CASE ToHandleOrReturn
  <2>1. MarkReturn => pc # "handle"
    BY DEF MarkReturn
  <2> QED
    BY <1>1, <2>1, QuietToReturn DEF ToHandleOrReturn
<1>2. CASE Done
  BY <1>2 DEF Done
<1> QED
  BY <1>1, <1>2, QuietMarkBlocks, QuietToBlock, QuietFromBlock, QuietIdentify DEF Next

LEMMA NextHandleInv ==
  ASSUME TypeOK, HandleInv, [Next]_vars
  PROVE  HandleInv' /\ KeepsReturns
<1>1. CASE UNCHANGED vars
  <2>1. UNCHANGED <<fn, edgeErr, pc, cur, todo, EB, PB>>
    BY <1>1 DEF vars, control
  <2>2. KeepsReturns
    BY <2>1, SameFlags
  <2>3. HandleInv'
    BY <2>1 DEF HandleInv, InnerLoopsEmpty, HandleSound, Marked, WalkSound, WalkThorough,
                MarksPassedOn, HandlersServed, Settled, Queued, Passed
  <2> QED
    BY <2>2, <2>3
<1>2. CASE QuietStep
  BY <1>2, QuietHandleInv DEF QuietStep
<1> QED
  BY <1>1, <1>2, StepCases, CallHandleInv, TakeHandleInv, MarkHandleInv, ReturnHandleInv
     DEF HandleInv

IInv == TypeOK /\ HandleInv

LEMMA Inductive == Spec => []IInv
<1>1. Init => IInv
  BY InitTypeOK, InitHandleInv DEF IInv
<1>2. IInv /\ [Next]_vars => IInv'
  BY NextTypeOK, NextHandleInv DEF IInv
<1> QED
  BY <1>1, <1>2, PTL DEF Spec

(* In every flow graph, and whatever the order in which predecessors are         *)
(* visited, recurMarkEdgesToErrHandle marks only edges that lead to a handler     *)
(* without a further branch.                                                     *)
THEOREM HandleSoundHolds == Spec => []HandleSound
<1>1. IInv => HandleSound
  BY DEF IInv, HandleInv
<1> QED
  BY <1>1, Inductive, PTL

LEMMA ExactFromInv == IInv => HandleExact
<1> SUFFICES ASSUME IInv, pc \in {"identify", "done"}
             PROVE  Marked = HandleEdges(fn)
  BY DEF HandleExact
<1>1. pc # "handle" /\ \A b \in Block : Passed(b)
  BY DEF Passed
<1> QED
  BY <1>1, Complete DEF IInv

(* In every flow graph it has marked all of them when the checks are identified,  *)
(* although a walk stops at the edges and the blocks it has seen.                *)
THEOREM HandleExactHolds == Spec => []HandleExact
  BY ExactFromInv, Inductive, PTL

(* A step adds to the marked edges, and leaves the function alone.               *)
LEMMA MarkedGrows ==
  ASSUME IInv, [Next]_vars
  PROVE  /\ fn' = fn
         /\ \/ SameMarks
            \/ pc = "handle" /\ pc' = "handle" /\ \E e \in HandleEdges(fn) : MarksMore(e)
<1>1. CASE UNCHANGED vars
  <2>1. fn' = fn /\ edgeErr' = edgeErr
    BY <1>1 DEF vars
  <2> QED
    BY <2>1, SameFlags
<1>2. CASE CallToErrHandle \/ TakeBlock \/ ReturnFromBlocks
  <2>1. fn' = fn /\ edgeErr' = edgeErr
    BY <1>2 DEF CallToErrHandle, TakeBlock, ReturnFromBlocks
  <2> QED
    BY <2>1, SameFlags
<1>3. CASE QuietStep
  BY <1>3 DEF QuietStep
<1>4. CASE MarkHandle
  <2>1. PICK a \in todo : MarkHandle!2!(a)
    BY <1>4 DEF MarkHandle
  <2>2. /\ EdgeOf(fn, a) \in HandleEdges(fn) /\ MarksMore(EdgeOf(fn, a))
        /\ fn' = fn /\ pc = "handle" /\ pc' = "handle"
    BY <1>4, <2>1, MarkHandleStep DEF IInv
  <2> QED
    BY <2>2
<1> QED
  BY <1>1, <1>2, <1>3, <1>4, StepCases DEF IInv, HandleInv

(* No step of any of the loops takes a mark back.                                 *)
THEOREM MarksKeptHolds == Spec => MarksKept
<1>1. IInv /\ [Next]_vars =>
        [\A e \in Edge : /\ Returns(edgeErr[e]) # {} => Returns(edgeErr'[e]) # {}
                         /\ Handled(edgeErr[e]) => Handled(edgeErr'[e])]_vars
  <2> SUFFICES ASSUME IInv, [Next]_vars
               PROVE  \A e \in Edge : /\ Returns(edgeErr[e]) # {} => Returns(edgeErr'[e]) # {}
                                      /\ Handled(edgeErr[e]) => Handled(edgeErr'[e])
    OBVIOUS
  <2>1. KeepsReturns
    BY NextHandleInv DEF IInv
  <2>2. \A e \in Edge : Handled(edgeErr[e]) => Handled(edgeErr'[e])
    BY MarkedGrows DEF SameMarks, MarksMore
  <2> QED
    BY <2>1, <2>2 DEF KeepsReturns
<1> QED
  BY <1>1, Inductive, PTL DEF Spec, MarksKept

-----------------------------------------------------------------------------
(* The marking implements HandleClosure.                                        *)

LEMMA InitRefines == Init => Abstract!Init
<1> SUFFICES ASSUME Init
             PROVE  Abstract!Init
  OBVIOUS
<1>1. fn \in Functions /\ pc = "block" /\ \A e \in Edge : edgeErr[e] = {}
  BY DEF Init
<1>2. Marked = {}
  BY <1>1 DEF Marked, Handled
<1> QED
  BY <1>1, <1>2 DEF Abstract!Init

LEMMA SameEdges == Abstract!HandleEdges(fn) = HandleEdges(fn)
<1>1. /\ \A b \in Block : Abstract!NumSuccessors(fn, b) = NumSuccessors(fn, b)
      /\ Abstract!HandlersIn(fn) = HandlersIn(fn)
      /\ Abstract!Block = Block
      /\ Abstract!EdgesOf(fn) = EdgesOf(fn)
  BY DEF Abstract!NumSuccessors, NumSuccessors, Abstract!HandlersIn, HandlersIn,
         Abstract!Handled, Handled, Abstract!Block, Block,
         Abstract!EdgesOf, EdgesOf, Abstract!EdgeOf, EdgeOf, Abstract!Dst, Dst,
         Abstract!Arcs, Arcs, Abstract!Out, Out
<1>2. \A S : Abstract!HandledClosed(fn, S) <=> HandledClosed(fn, S)
  BY <1>1 DEF Abstract!HandledClosed, HandledClosed
<1>3. Abstract!HandledBlocks(fn) = HandledBlocks(fn)
  BY <1>1, <1>2 DEF Abstract!HandledBlocks, HandledBlocks
<1> QED
  BY <1>1, <1>3 DEF Abstract!HandleEdges, HandleEdges

LEMMA SamePhase ==
  ASSUME TypeOK, [Next]_vars, ~StartIdentify
  PROVE  pc \in {"identify", "done"} <=> pc' \in {"identify", "done"}
<1>1. CASE MarkBlocks
  BY <1>1 DEF MarkBlocks, NoErrorInBlock, CallToErrHandle, NoErrHandle, NoReturnFlag,
              StartPreds, MarkPred, StartSuccs, MarkSucc, NextBlock
<1>2. CASE ToHandleOrReturn
  BY <1>2 DEF ToHandleOrReturn, TakeBlock, MarkHandle, MarkReturn, ReturnFromBlocks
<1>3. CASE ToBlock
  BY <1>3 DEF ToBlock, TakeToBlock, RaiseMust, EndRaise, ReturnFromToBlock
<1>4. CASE FromBlock
  BY <1>4 DEF FromBlock, TakeFromBlock, MergePred, StartSpread, Spread, EndSpread,
              ReturnFromFromBlock
<1>5. CASE Identify
  BY <1>5 DEF Identify, IdentifyBranch, Finish
<1>6. CASE Done \/ UNCHANGED vars
  BY <1>6 DEF Done, vars, control
<1> QED
  BY <1>1, <1>2, <1>3, <1>4, <1>5, <1>6 DEF Next

LEMMA NextRefines == IInv /\ [Next]_vars => [Abstract!Next]_(Abstract!vars)
<1> SUFFICES ASSUME IInv, [Next]_vars
             PROVE  [Abstract!Next]_(Abstract!vars)
  OBVIOUS
<1>1. fn' = fn
  BY MarkedGrows
<1>2. CASE pc = "handle" /\ pc' = "handle" /\ \E e \in HandleEdges(fn) : MarksMore(e)
  <2>1. PICK e \in HandleEdges(fn) : MarksMore(e)
    BY <1>2
  <2>2. e \in Edge
    <3>1. PICK a \in Arcs(fn) : e = EdgeOf(fn, a)
      BY DEF HandleEdges, EdgesOf
    <3> QED
      BY <3>1, ArcFacts DEF IInv, TypeOK
  <2>3. Marked' = Marked \cup {e}
    BY <2>1, <2>2 DEF Marked, MarksMore
  <2>4. CASE e \in Marked
    <3>1. Marked' = Marked
      BY <2>3, <2>4
    <3> QED
      BY <1>1, <1>2, <3>1 DEF Abstract!vars
  <2>5. CASE e \notin Marked
    <3>1. Abstract!Mark
      BY <1>1, <1>2, <2>3, <2>5, SameEdges DEF Abstract!Mark
    <3> QED
      BY <3>1 DEF Abstract!Next
  <2> QED
    BY <2>4, <2>5
<1>3. CASE SameMarks
  <2>1. Marked' = Marked
    BY <1>3 DEF Marked, SameMarks
  <2>2. CASE StartIdentify
    <3>1. pc = "block" /\ pc' = "identify" /\ cur = N + 1
      BY <2>2 DEF StartIdentify
    <3>2. pc # "handle" /\ \A b \in Block : Passed(b)
      BY <3>1, NAssumption DEF Passed, Block
    <3>3. Marked = HandleEdges(fn)
      BY <3>2, Complete DEF IInv
    <3> QED
      BY <1>1, <2>1, <3>1, <3>3, SameEdges DEF Abstract!Next, Abstract!Finish
  <2>3. CASE ~StartIdentify
    <3>1. pc \in {"identify", "done"} <=> pc' \in {"identify", "done"}
      BY <2>3, SamePhase DEF IInv
    <3> QED
      BY <1>1, <2>1, <3>1 DEF Abstract!vars
  <2> QED
    BY <2>2, <2>3
<1> QED
  BY <1>2, <1>3, MarkedGrows

(* recurMarkEdgesToErrHandle and the loop over the blocks behave like one           *)
(* nondeterministic marking of HandleEdges: every step marks one more of them, is    *)
(* the hand-over with all of them marked, or changes neither.                       *)
THEOREM HandleRefinement == Spec => Abstract!Init /\ [][Abstract!Next]_(Abstract!vars)
  BY Inductive, InitRefines, NextRefines, PTL DEF Spec

-----------------------------------------------------------------------------
(* The return marks around a block.                                          *)

Flagged(a) == Returns(edgeErr[EdgeOf(fn, a)]) # {}
ReturnBlock(b) == Returns(fn.bbErr[b]) # {}

(* The loop over the predecessors and what it calls; that over the successors. *)
PredLoop == {"preds", "toBlock", "raise", "toReturn"}
SuccLoop == {"succs", "fromBlock", "merge", "spread"}

Closed(b) == pc \in {"identify", "done"} \/ b < cur

FenceInv ==
  /\ pc \in PredLoop \cup SuccLoop => ReturnBlock(cur)
  /\ pc \in PredLoop => \A a \in In(fn, cur) : Flagged(a) \/ a \in outer
  /\ pc \in SuccLoop => /\ \A a \in In(fn, cur) : Flagged(a)
                        /\ \A a \in Out(fn, cur) : Flagged(a) \/ a \in outer
  /\ \A b \in Block : ReturnBlock(b) /\ Closed(b) =>
       \A a \in In(fn, b) \cup Out(fn, b) : Flagged(a)

LEMMA FlaggedKept ==
  ASSUME TypeOK, fn' = fn, KeepsReturns, NEW a \in Arcs(fn), Flagged(a)
  PROVE  Flagged(a)'
<1>1. EdgeOf(fn, a) \in Edge
  BY StepTypes
<1> QED
  BY <1>1 DEF Flagged, KeepsReturns

(* A return flag written to an edge leaves it flagged.                        *)
LEMMA FlagWritten ==
  ASSUME TypeOK, fn' = fn, NEW a \in Arcs(fn), NEW flag \in SUBSET Flag, Returns(flag) # {},
         edgeErr' = WithReturn(EdgeOf(fn, a), flag)
  PROVE  Flagged(a)'
<1>1. EdgeOf(fn, a) \in Edge /\ edgeErr \in [Edge -> SUBSET Flag]
  BY StepTypes DEF TypeOK
<1>2. edgeErr'[EdgeOf(fn, a)] = UpdateReturnFlag(edgeErr[EdgeOf(fn, a)], flag)
  BY <1>1 DEF WithReturn
<1>3. ASSUME NEW x \in SUBSET Flag
      PROVE  Returns(UpdateReturnFlag(x, flag)) # {}
  BY DEF UpdateReturnFlag, Returns, Handles, ReturnMask, HandleMask
<1>4. edgeErr[EdgeOf(fn, a)] \in SUBSET Flag
  BY <1>1
<1> QED
  BY <1>2, <1>3, <1>4 DEF Flagged

(* Steps inside a loop.                                                      *)
LEMMA FenceKept ==
  ASSUME TypeOK, FenceInv, KeepsReturns, UNCHANGED <<fn, cur, outer>>,
         pc' \in PredLoop => pc \in PredLoop,
         pc' \in SuccLoop => pc \in SuccLoop,
         pc' \in {"identify", "done"} => pc \in {"identify", "done"}
  PROVE  FenceInv'
<1>1. pc' \in PredLoop \cup SuccLoop => cur \in Block
  BY DEF TypeOK, PredLoop, SuccLoop
<1>2. \A a \in Arcs(fn) : Flagged(a) => Flagged(a)'
  BY FlaggedKept
<1>3. \A b \in Block : In(fn, b) \subseteq Arcs(fn) /\ Out(fn, b) \subseteq Arcs(fn)
  BY StepTypes
<1>4. (pc \in PredLoop \cup SuccLoop => ReturnBlock(cur))'
  BY DEF FenceInv, ReturnBlock
<1>5. (pc \in PredLoop => \A a \in In(fn, cur) : Flagged(a) \/ a \in outer)'
  BY <1>1, <1>2, <1>3 DEF FenceInv
<1>6. (pc \in SuccLoop => /\ \A a \in In(fn, cur) : Flagged(a)
                          /\ \A a \in Out(fn, cur) : Flagged(a) \/ a \in outer)'
  BY <1>1, <1>2, <1>3 DEF FenceInv
<1>7. ASSUME NEW b \in Block, ReturnBlock(b)', Closed(b)', NEW a \in In(fn, b) \cup Out(fn, b)
      PROVE  Flagged(a)'
  <2>1. ReturnBlock(b) /\ Closed(b)
    BY <1>7 DEF ReturnBlock, Closed
  <2> QED
    BY <1>2, <1>3, <2>1 DEF FenceInv
<1>8. (\A b \in Block : ReturnBlock(b) /\ Closed(b) =>
          \A a \in In(fn, b) \cup Out(fn, b) : Flagged(a))'
  BY <1>7
<1> QED
  BY <1>4, <1>5, <1>6, <1>8 DEF FenceInv

(* An iteration of the loop over the blocks ends with nothing left to do for    *)
(* its block.                                                                 *)
LEMMA FenceNext ==
  ASSUME TypeOK, FenceInv, UNCHANGED <<fn, edgeErr>>, pc' = "block",
         pc \notin {"identify", "done"}, cur \in Block, cur' = cur + 1,
         ReturnBlock(cur) => \A a \in In(fn, cur) \cup Out(fn, cur) : Flagged(a)
  PROVE  FenceInv'
<1>1. ASSUME NEW b \in Block, ReturnBlock(b)', Closed(b)', NEW a \in In(fn, b) \cup Out(fn, b)
      PROVE  Flagged(a)'
  <2>1. ReturnBlock(b) /\ b < cur + 1
    BY <1>1 DEF ReturnBlock, Closed
  <2>2. b < cur \/ b = cur
    BY <2>1, NAssumption DEF Block
  <2>3. Flagged(a)
    <3>1. CASE b < cur
      BY <2>1, <3>1 DEF FenceInv, Closed
    <3>2. CASE b = cur
      BY <2>1, <3>2
    <3> QED
      BY <2>2, <3>1, <3>2
  <2> QED
    BY <2>3 DEF Flagged
<1>2. (\A b \in Block : ReturnBlock(b) /\ Closed(b) =>
          \A a \in In(fn, b) \cup Out(fn, b) : Flagged(a))'
  BY <1>1
<1>3. pc' \notin PredLoop \cup SuccLoop
  BY DEF PredLoop, SuccLoop
<1> QED
  BY <1>2, <1>3 DEF FenceInv

(* A turn of one of the two loops over the edges of the block.                 *)
LEMMA FenceTurn ==
  ASSUME TypeOK, FenceInv, KeepsReturns, UNCHANGED <<fn, cur>>,
         NEW a \in outer, outer' = outer \ {a}, Flagged(a)',
         \/ pc \in PredLoop /\ pc' \in PredLoop
         \/ pc \in SuccLoop /\ pc' \in SuccLoop
  PROVE  FenceInv'
<1>1. cur \in Block /\ ReturnBlock(cur)
  BY DEF TypeOK, PredLoop, SuccLoop, FenceInv
<1>2. \A c \in Arcs(fn) : Flagged(c) => Flagged(c)'
  BY FlaggedKept
<1>3. \A b \in Block : In(fn, b) \subseteq Arcs(fn) /\ Out(fn, b) \subseteq Arcs(fn)
  BY StepTypes
<1>4. ReturnBlock(cur)'
  BY <1>1 DEF ReturnBlock
<1>5. pc' \in PredLoop <=> pc \in PredLoop
  BY DEF PredLoop, SuccLoop
<1>6. pc' \in SuccLoop <=> pc \in SuccLoop
  BY DEF PredLoop, SuccLoop
<1>7. (pc \in PredLoop => \A c \in In(fn, cur) : Flagged(c) \/ c \in outer)'
  BY <1>1, <1>2, <1>3, <1>5 DEF FenceInv
<1>8. (pc \in SuccLoop => /\ \A c \in In(fn, cur) : Flagged(c)
                          /\ \A c \in Out(fn, cur) : Flagged(c) \/ c \in outer)'
  BY <1>1, <1>2, <1>3, <1>6 DEF FenceInv
<1>9. ASSUME NEW b \in Block, ReturnBlock(b)', Closed(b)', NEW c \in In(fn, b) \cup Out(fn, b)
      PROVE  Flagged(c)'
  <2>1. ReturnBlock(b) /\ Closed(b)
    BY <1>9 DEF ReturnBlock, Closed, PredLoop, SuccLoop
  <2> QED
    BY <1>2, <1>3, <2>1 DEF FenceInv
<1>10. (\A b \in Block : ReturnBlock(b) /\ Closed(b) =>
          \A c \in In(fn, b) \cup Out(fn, b) : Flagged(c))'
  BY <1>9
<1> QED
  BY <1>4, <1>7, <1>8, <1>10 DEF FenceInv

LEMMA MarkBlocksFence ==
  ASSUME TypeOK, FenceInv, KeepsReturns, MarkBlocks
  PROVE  FenceInv'
<1>1. CASE NoErrorInBlock
  <2>1. ~ReturnBlock(cur)
    BY <1>1 DEF NoErrorInBlock, ReturnBlock, Returns
  <2> QED
    BY <1>1, <2>1, FenceNext DEF NoErrorInBlock
<1>2. CASE CallToErrHandle \/ NoErrHandle
  <2>1. pc' \in {"handle", "return"} /\ UNCHANGED <<fn, cur, outer>>
    BY <1>2 DEF CallToErrHandle, NoErrHandle
  <2> QED
    BY <2>1, FenceKept DEF PredLoop, SuccLoop
<1>3. CASE NoReturnFlag
  <2>1. ~ReturnBlock(cur) /\ cur \in Block
    BY <1>3, StepTypes DEF NoReturnFlag, ReturnBlock
  <2> QED
    BY <1>3, <2>1, FenceNext DEF NoReturnFlag
<1>4. CASE StartPreds
  <2>1. /\ pc = "return" /\ pc' = "preds" /\ outer' = In(fn, cur) /\ ReturnBlock(cur)
        /\ UNCHANGED <<fn, edgeErr, cur>>
    BY <1>4 DEF StartPreds, ReturnBlock
  <2>2. (\A b \in Block : ReturnBlock(b) /\ Closed(b) =>
            \A a \in In(fn, b) \cup Out(fn, b) : Flagged(a))'
    BY <2>1 DEF FenceInv, ReturnBlock, Closed, Flagged
  <2> QED
    BY <2>1, <2>2 DEF FenceInv, PredLoop, SuccLoop, ReturnBlock
<1>5. CASE MarkPred
  <2>1. PICK a \in outer : /\ edgeErr' = WithReturn(EdgeOf(fn, a), fn.bbErr[cur])
                           /\ outer' = outer \ {a}
    BY <1>5 DEF MarkPred
  <2>2. pc = "preds" /\ pc' = "toBlock" /\ UNCHANGED <<fn, cur>>
    BY <1>5 DEF MarkPred
  <2>3. a \in Arcs(fn) /\ fn.bbErr[cur] \in SUBSET Flag /\ Returns(fn.bbErr[cur]) # {}
    BY <2>2, StepTypes DEF TypeOK, FenceInv, ReturnBlock, PredLoop
  <2>4. Flagged(a)'
    BY <2>1, <2>2, <2>3, FlagWritten
  <2> QED
    BY <2>1, <2>2, <2>4, FenceTurn DEF PredLoop
<1>6. CASE StartSuccs
  <2>1. /\ pc = "preds" /\ outer = {} /\ pc' = "succs" /\ outer' = Out(fn, cur)
        /\ UNCHANGED <<fn, edgeErr, cur>>
    BY <1>6 DEF StartSuccs
  <2>2. (\A b \in Block : ReturnBlock(b) /\ Closed(b) =>
            \A a \in In(fn, b) \cup Out(fn, b) : Flagged(a))'
    BY <2>1 DEF FenceInv, ReturnBlock, Closed, Flagged
  <2>3. ReturnBlock(cur)' /\ \A a \in In(fn, cur) : Flagged(a)'
    BY <2>1 DEF FenceInv, PredLoop, ReturnBlock, Flagged
  <2> QED
    BY <2>1, <2>2, <2>3 DEF FenceInv, PredLoop, SuccLoop
<1>7. CASE MarkSucc
  <2>1. PICK a \in Lowest(outer) : MarkSucc!2!(a)
    BY <1>7 DEF MarkSucc
  <2>2. pc = "succs" /\ pc' \in {"succs", "fromBlock"} /\ UNCHANGED <<fn, cur>>
    BY <1>7, <2>1 DEF MarkSucc
  <2>3. a \in outer /\ a \in Arcs(fn)
    BY DEF Lowest, TypeOK
  <2>4. fn.bbErr[cur] \in SUBSET Flag /\ Returns(fn.bbErr[cur]) # {}
    BY <2>2, StepTypes DEF FenceInv, ReturnBlock, SuccLoop
  <2>5. Flagged(a)' /\ outer' = outer \ {a}
    BY <2>1, <2>2, <2>3, <2>4, FlagWritten
  <2> QED
    BY <2>2, <2>3, <2>5, FenceTurn DEF SuccLoop
<1>8. CASE NextBlock
  <2>1. pc = "succs" /\ outer = {} /\ cur \in Block
    BY <1>8, StepTypes DEF NextBlock
  <2>2. \A a \in In(fn, cur) \cup Out(fn, cur) : Flagged(a)
    BY <2>1 DEF FenceInv, SuccLoop
  <2> QED
    BY <1>8, <2>1, <2>2, FenceNext DEF NextBlock
<1>9. CASE StartIdentify
  <2>1. cur = N + 1 /\ pc' = "identify" /\ UNCHANGED <<fn, edgeErr>>
    BY <1>9 DEF StartIdentify
  <2>2. \A b \in Block : Closed(b)
    BY <2>1, NAssumption DEF Closed, Block
  <2>3. \A b \in Block : ReturnBlock(b) => \A a \in In(fn, b) \cup Out(fn, b) : Flagged(a)
    BY <2>2 DEF FenceInv
  <2>4. (\A b \in Block : ReturnBlock(b) /\ Closed(b) =>
            \A a \in In(fn, b) \cup Out(fn, b) : Flagged(a))'
    BY <2>1, <2>3 DEF ReturnBlock, Flagged
  <2> QED
    BY <2>1, <2>4 DEF FenceInv, PredLoop, SuccLoop
<1> QED
  BY <1>1, <1>2, <1>3, <1>4, <1>5, <1>6, <1>7, <1>8, <1>9 DEF MarkBlocks

(* The other steps stay inside their loop.                                     *)
LEMMA WithinLoops ==
  ASSUME ToHandleOrReturn \/ ToBlock \/ FromBlock
  PROVE  /\ UNCHANGED <<fn, cur, outer, checks>>
         /\ pc' \in PredLoop => pc \in PredLoop
         /\ pc' \in SuccLoop => pc \in SuccLoop
         /\ pc' \notin {"identify", "done"} /\ pc \notin {"identify", "done"}
<1> USE DEF PredLoop, SuccLoop
<1>1. CASE ToHandleOrReturn
  BY <1>1 DEF ToHandleOrReturn, TakeBlock, MarkHandle, MarkReturn, ReturnFromBlocks
<1>2. CASE ToBlock
  BY <1>2 DEF ToBlock, TakeToBlock, RaiseMust, EndRaise, ReturnFromToBlock
<1>3. CASE FromBlock
  BY <1>3 DEF FromBlock, TakeFromBlock, MergePred, StartSpread, Spread, EndSpread,
              ReturnFromFromBlock
<1> QED
  BY <1>1, <1>2, <1>3

LEMMA NextFence ==
  ASSUME TypeOK, FenceInv, KeepsReturns, [Next]_vars
  PROVE  FenceInv'
<1>1. CASE ToHandleOrReturn \/ ToBlock \/ FromBlock
  BY <1>1, WithinLoops, FenceKept
<1>2. CASE Identify
  <2>1. pc = "identify" /\ pc' \in {"identify", "done"} /\ UNCHANGED <<fn, edgeErr>>
    BY <1>2 DEF Identify, IdentifyBranch, Finish
  <2>2. (\A b \in Block : ReturnBlock(b) /\ Closed(b) =>
            \A a \in In(fn, b) \cup Out(fn, b) : Flagged(a))'
    BY <2>1 DEF FenceInv, ReturnBlock, Closed, Flagged
  <2> QED
    BY <2>1, <2>2 DEF FenceInv, PredLoop, SuccLoop
<1>3. CASE Done \/ UNCHANGED vars
  <2>1. UNCHANGED <<fn, cur, outer, pc>>
    BY <1>3 DEF Done, vars, control
  <2> QED
    BY <2>1, FenceKept
<1> QED
  BY <1>1, <1>2, <1>3, MarkBlocksFence DEF Next

LEMMA InitFence == Init => FenceInv
<1> SUFFICES ASSUME Init
             PROVE  FenceInv
  OBVIOUS
<1>1. pc = "block" /\ cur = 1
  BY DEF Init
<1>2. \A b \in Block : ~Closed(b)
  BY <1>1, NAssumption DEF Closed, Block
<1> QED
  BY <1>1, <1>2 DEF FenceInv, PredLoop, SuccLoop

(* In every flow graph, the edges into and out of every block that sets the return *)
(* value carry a return flag when the checks are identified, although the marking   *)
(* from other blocks has rewritten flags since.                                    *)
THEOREM ErrBlocksFencedHolds == Spec => []ErrBlocksFenced
<1>1. IInv /\ FenceInv => ErrBlocksFenced
  <2> SUFFICES ASSUME IInv, FenceInv, pc \in {"identify", "done"}, NEW e \in EdgesOf(fn),
                      Returns(fn.bbErr[e[1]]) \cup Returns(fn.bbErr[e[2]]) # {}
               PROVE  Returns(edgeErr[e]) # {}
    BY DEF ErrBlocksFenced
  <2>1. PICK a \in Arcs(fn) : e = EdgeOf(fn, a)
    BY DEF EdgesOf
  <2>2. fn \in Functions
    BY DEF IInv, TypeOK
  <2>3. a[1] \in Block /\ e[1] = a[1] /\ e[2] \in Block /\ a \in In(fn, e[2])
    BY <2>1, <2>2, ArcFacts
  <2>4. a \in Out(fn, e[1])
    BY <2>3 DEF Arcs, Out
  <2>5. ReturnBlock(e[1]) \/ ReturnBlock(e[2])
    BY DEF ReturnBlock
  <2>6. Flagged(a)
    BY <2>3, <2>4, <2>5 DEF FenceInv, Closed
  <2> QED
    BY <2>1, <2>6 DEF Flagged
<1>2. IInv /\ FenceInv /\ [Next]_vars => FenceInv'
  BY NextFence, NextHandleInv DEF IInv
<1> QED
  BY <1>1, <1>2, InitFence, Inductive, PTL DEF Spec

-----------------------------------------------------------------------------
(* The checks.                                                                *)

IsGuard(b) == NumSuccessors(fn, b) >= 2 /\ Disagree(SuccFlags(b))
Reported(b) == \E c \in checks : c.cond = fn.cond[b]

ChecksInv ==
  /\ OneCheckPerCondition
  /\ pc = "done" => cur = N + 1
  /\ pc \in {"identify", "done"} =>
       \A b \in Block : b < cur /\ IsGuard(b) => Reported(b)

LEMMA IdentifyChecks ==
  ASSUME TypeOK, ChecksInv, IdentifyBranch
  PROVE  ChecksInv'
<1> DEFINE sc == [cond |-> fn.cond[cur], branch |-> cur]
<1>1. /\ pc = "identify" /\ pc' = "identify" /\ cur' = cur + 1 /\ UNCHANGED <<fn, edgeErr>>
      /\ checks' = IF IsGuard(cur) THEN AddSecurityCheck(sc) ELSE checks
  BY DEF IdentifyBranch, IsGuard
<1>2. checks' = checks \/ (checks' = checks \cup {sc} /\ \A c \in checks : c.cond # sc.cond)
  BY <1>1 DEF AddSecurityCheck
<1>3. \A b \in Block : Reported(b) => Reported(b)'
  BY <1>1, <1>2 DEF Reported
<1>4. IsGuard(cur) => Reported(cur)
                      \/ sc \in checks'
  BY <1>1 DEF AddSecurityCheck, Reported
<1>5. sc.cond = fn.cond[cur]
  OBVIOUS
<1>6. OneCheckPerCondition'
  <2> HIDE DEF sc
  <2> QED
    BY <1>2 DEF ChecksInv, OneCheckPerCondition
<1> HIDE DEF sc
<1>7. ASSUME NEW b \in Block, b < cur', IsGuard(b)'
      PROVE  Reported(b)'
  <2>1. IsGuard(b)
    BY <1>1, <1>7 DEF IsGuard, SuccFlags
  <2>2. b < cur \/ b = cur
    BY <1>1, <1>7, NAssumption DEF TypeOK, Block
  <2>3. CASE b < cur
    BY <1>1, <1>3, <2>1, <2>3 DEF ChecksInv
  <2>4. CASE b = cur
    <3>1. CASE Reported(b)
      BY <1>3, <3>1
    <3>2. CASE sc \in checks'
      BY <1>1, <1>5, <2>4, <3>2 DEF Reported
    <3> QED
      BY <1>4, <2>1, <2>4, <3>1, <3>2
  <2> QED
    BY <2>2, <2>3, <2>4
<1>8. (\A b \in Block : b < cur /\ IsGuard(b) => Reported(b))'
  BY <1>7
<1> QED
  BY <1>1, <1>6, <1>8 DEF ChecksInv

LEMMA NextChecks ==
  ASSUME TypeOK, ChecksInv, [Next]_vars
  PROVE  ChecksInv'
<1>1. CASE ToHandleOrReturn \/ ToBlock \/ FromBlock
  <2>1. pc' \notin {"identify", "done"} /\ checks' = checks
    BY <1>1, WithinLoops
  <2> QED
    BY <2>1 DEF ChecksInv, OneCheckPerCondition
<1>2. CASE MarkBlocks
  <2>1. checks' = checks
    BY <1>2 DEF MarkBlocks, NoErrorInBlock, CallToErrHandle, NoErrHandle, NoReturnFlag,
                StartPreds, MarkPred, StartSuccs, MarkSucc, NextBlock, StartIdentify
  <2>2. CASE StartIdentify
    <3>1. cur' = 1 /\ pc' = "identify"
      BY <2>2 DEF StartIdentify
    <3>2. \A b \in Block : ~(b < cur')
      BY <3>1, NAssumption DEF Block
    <3> QED
      BY <2>1, <3>1, <3>2 DEF ChecksInv, OneCheckPerCondition
  <2>3. CASE ~StartIdentify
    <3>1. pc' \notin {"identify", "done"}
      BY <1>2, <2>3 DEF MarkBlocks, NoErrorInBlock, CallToErrHandle, NoErrHandle,
                        NoReturnFlag, StartPreds, MarkPred, StartSuccs, MarkSucc, NextBlock
    <3> QED
      BY <2>1, <3>1 DEF ChecksInv, OneCheckPerCondition
  <2> QED
    BY <2>2, <2>3
<1>3. CASE Finish
  <2>1. cur = N + 1 /\ pc = "identify" /\ UNCHANGED <<fn, edgeErr, cur, checks>>
    BY <1>3 DEF Finish
  <2> QED
    BY <2>1 DEF ChecksInv, OneCheckPerCondition, IsGuard, SuccFlags, Reported
<1>4. CASE Done \/ UNCHANGED vars
  <2>1. UNCHANGED <<fn, edgeErr, cur, checks, pc>>
    BY <1>4 DEF Done, vars, control
  <2> QED
    BY <2>1 DEF ChecksInv, OneCheckPerCondition, IsGuard, SuccFlags, Reported
<1> QED
  BY <1>1, <1>2, <1>3, <1>4, IdentifyChecks DEF Next, Identify

LEMMA InitChecks == Init => ChecksInv
  BY DEF Init, ChecksInv, OneCheckPerCondition

LEMMA ChecksInductive == Spec => []ChecksInv
<1>1. IInv /\ ChecksInv /\ [Next]_vars => ChecksInv'
  BY NextChecks DEF IInv
<1> QED
  BY <1>1, InitChecks, Inductive, PTL DEF Spec

(* SCSet never holds two checks of one condition.                               *)
THEOREM OneCheckPerConditionHolds == Spec => []OneCheckPerCondition
<1>1. ChecksInv => OneCheckPerCondition
  BY DEF ChecksInv
<1> QED
  BY <1>1, ChecksInductive, PTL

LEMMA GuardsFromInv == IInv /\ ChecksInv => HandlerGuardsFound
<1> SUFFICES ASSUME IInv, ChecksInv, HandleExact, pc = "done",
                    NEW d \in HandleEdges(fn),
                    NEW e \in EdgesOf(fn) \ HandleEdges(fn), d[1] = e[1]
             PROVE  \E c \in checks : c.cond = fn.cond[d[1]]
  BY ExactFromInv DEF HandlerGuardsFound
<1>1. fn \in Functions /\ cur = N + 1 /\ Marked = HandleEdges(fn)
  BY DEF IInv, TypeOK, ChecksInv, HandleExact
<1>2. PICK a \in Arcs(fn) : d = EdgeOf(fn, a)
  BY DEF HandleEdges, EdgesOf
<1>3. PICK c \in Arcs(fn) : e = EdgeOf(fn, c)
  BY DEF EdgesOf
<1> DEFINE b == d[1]
<1>4. b \in Block /\ a[1] = b /\ c[1] = b /\ d \in Edge /\ e \in Edge
  BY <1>1, <1>2, <1>3, ArcFacts
<1>5. a \in Out(fn, b) /\ c \in Out(fn, b)
  BY <1>4 DEF Arcs, Out
<1>6. Handled(edgeErr[d]) /\ ~Handled(edgeErr[e])
  BY <1>1, <1>4 DEF Marked
<1>7. Disagree(SuccFlags(b))
  <2>1. edgeErr[d] \in SuccFlags(b) /\ edgeErr[e] \in SuccFlags(b)
    BY <1>2, <1>3, <1>5 DEF SuccFlags
  <2>2. Handled(edgeErr[d]) = TRUE /\ Handled(edgeErr[e]) = FALSE
    BY <1>6 DEF Handled
  <2>3. TRUE \in {Handled(flag) : flag \in SuccFlags(b)}
    BY <2>1, <2>2
  <2>4. FALSE \in {Handled(flag) : flag \in SuccFlags(b)}
    BY <2>1, <2>2
  <2>5. {Handled(flag) : flag \in SuccFlags(b)} \subseteq BOOLEAN
    <3>1. \A flag : ("Must_Handle_Err" \in flag) \in BOOLEAN
      OBVIOUS
    <3> QED
      BY <3>1 DEF Handled
  <2> QED
    BY <2>3, <2>4, <2>5 DEF Disagree
<1>8. NumSuccessors(fn, b) >= 2
  <2>1. a[2] \in 1 .. Len(fn.succ[b]) /\ c[2] \in 1 .. Len(fn.succ[b])
    BY <1>1, <1>4, ArcFacts
  <2>2. a[2] # c[2]
    <3>1. d # e
      BY <1>6
    <3>2. fn.succ[b][a[2]] # fn.succ[b][c[2]]
      BY <1>2, <1>3, <1>4, <3>1 DEF EdgeOf, Dst
    <3> QED
      BY <3>2
  <2>3. fn.succ[b] \in Seq(Block)
    BY <1>1, <1>4, FunctionFacts
  <2>4. Len(fn.succ[b]) \in Nat
    BY <2>3, LenProperties
  <2> QED
    BY <2>1, <2>2, <2>4 DEF NumSuccessors
<1>9. b < cur
  BY <1>1, <1>4, NAssumption DEF Block
<1> HIDE DEF b
<1>10. Reported(b)
  BY <1>4, <1>7, <1>8, <1>9 DEF ChecksInv, IsGuard
<1> QED
  BY <1>10 DEF Reported, b

(* In every flow graph, a branch one of whose edges leads straight to an error    *)
(* handler while another does not has its condition in SCSet: the walks mark       *)
(* exactly those edges, and identifySecurityChecks compares all edges of a branch. *)
THEOREM HandlerGuardsFoundHolds == Spec => []HandlerGuardsFound
  BY GuardsFromInv, ChecksInductive, Inductive, PTL

-----------------------------------------------------------------------------
(* Ahead and Behind are closed sets that hold what they start from.            *)

LEMMA AheadFacts ==
  ASSUME NEW f \in Functions, NEW S \in SUBSET Block
  PROVE  /\ S \subseteq Ahead(f, S) /\ Ahead(f, S) \subseteq Block
         /\ \A e \in EdgesOf(f) : e[1] \in Ahead(f, S) => e[2] \in Ahead(f, S)
<1>1. \A e \in EdgesOf(f) : e[2] \in Block
  BY ArcFacts DEF EdgesOf
<1> QED
  BY <1>1 DEF Ahead

LEMMA BehindFacts ==
  ASSUME NEW f \in Functions, NEW S \in SUBSET Block
  PROVE  /\ S \subseteq Behind(f, S) /\ Behind(f, S) \subseteq Block
         /\ \A e \in EdgesOf(f) : e[2] \in Behind(f, S) => e[1] \in Behind(f, S)
<1>1. \A e \in EdgesOf(f) : e[1] \in Block
  BY ArcFacts DEF EdgesOf
<1> QED
  BY <1>1 DEF Behind

(* What the operators on flags do to Must_Return_Err.                         *)
LEMMA MustUpdated ==
  ASSUME NEW x \in SUBSET Flag, NEW y \in SUBSET Flag
  PROVE  /\ Must(UpdateReturnFlag(x, y)) => Must(x) \/ Must(y)
         /\ Must(MergeFlag(x, y)) => Must(x) \/ Must(y)
<1>1. Must(UpdateReturnFlag(x, y)) => Must(x) \/ Must(y)
  BY DEF Must, UpdateReturnFlag, Returns, Handles, ReturnMask, HandleMask
<1>2. Must(MergeReturn(x, y)) => Must(x) \/ Must(y)
  BY DEF Must, MergeReturn, Returns, ReturnMask
<1>3. "Must_Return_Err" \notin MergeHandle(x, y)
  BY DEF MergeHandle, Handles, HandleMask
<1> QED
  BY <1>1, <1>2, <1>3 DEF MergeFlag, Must

LEMMA MustWritten ==
  ASSUME edgeErr \in [Edge -> SUBSET Flag], NEW e \in Edge, NEW flag \in SUBSET Flag
  PROVE  \A d \in Edge : Must(WithReturn(e, flag)[d]) => Must(edgeErr[d]) \/ (d = e /\ Must(flag))
<1>1. \A d \in Edge : WithReturn(e, flag)[d] =
                        IF d = e THEN UpdateReturnFlag(edgeErr[e], flag) ELSE edgeErr[d]
  BY DEF WithReturn
<1> QED
  BY <1>1, MustUpdated

-----------------------------------------------------------------------------
(* Where Must_Return_Err comes from.                                          *)

MustIn(f) == {b \in Block : Must(f.bbErr[b])}
AheadMust(f) == Ahead(f, MustIn(f))
BehindMust(f) == Behind(f, MustIn(f))

HasOrigin(f, e) == e[1] \in AheadMust(f) \/ e[2] \in BehindMust(f)

(* The blocks from which only edges with an origin can be reached: the flag may   *)
(* be spread from them, as far as recurMarkEdgesFromBlock likes.                 *)
Refuge(f, T) == \A e \in EdgesOf(f) : e[1] \in T => HasOrigin(f, e) /\ e[2] \in T
Sheltered(f) == UNION {T \in SUBSET Block : Refuge(f, T)}

Sure(f, e) == e \in EdgesOf(f) /\ HasOrigin(f, e) /\ e[2] \in Sheltered(f)

LEMMA ShelteredFacts ==
  ASSUME NEW f \in Functions
  PROVE  /\ Sheltered(f) \subseteq Block /\ Refuge(f, Sheltered(f))
         /\ AheadMust(f) \subseteq Sheltered(f)
<1>1. Sheltered(f) \subseteq Block /\ Refuge(f, Sheltered(f))
  BY DEF Sheltered, Refuge
<1>2. MustIn(f) \subseteq Block
  BY DEF MustIn
<1>3. AheadMust(f) \subseteq Block /\ Refuge(f, AheadMust(f))
  BY <1>2, AheadFacts DEF AheadMust, Refuge, HasOrigin
<1> QED
  BY <1>1, <1>3 DEF Sheltered

LEMMA JoinsSheltered ==
  ASSUME NEW f \in Functions, NEW b \in Block,
         \A e \in EdgesOf(f) : e[1] = b => Sure(f, e)
  PROVE  b \in Sheltered(f)
<1> DEFINE T == Sheltered(f) \cup {b}
<1>1. T \subseteq Block
  BY ShelteredFacts
<1>2. Refuge(f, T)
  BY ShelteredFacts DEF Refuge, Sure
<1> QED
  BY <1>1, <1>2 DEF Sheltered

(* An edge out of a block that must return an error, and one into such a block,   *)
(* may carry the flag.                                                         *)
LEMMA SureEdges ==
  ASSUME NEW f \in Functions, NEW e \in EdgesOf(f)
  PROVE  /\ e[1] \in MustIn(f) => Sure(f, e)
         /\ e[2] \in MustIn(f) => Sure(f, e) /\ e[2] \in BehindMust(f)
         /\ e[1] \in Sheltered(f) => Sure(f, e)
         /\ e[2] \in BehindMust(f) => e[1] \in BehindMust(f)
         /\ e[2] \in BehindMust(f) /\ e[2] \in Sheltered(f) => Sure(f, e)
<1>1. MustIn(f) \subseteq Block
  BY DEF MustIn
<1>2. /\ MustIn(f) \subseteq AheadMust(f) /\ MustIn(f) \subseteq BehindMust(f)
      /\ e[2] \in BehindMust(f) => e[1] \in BehindMust(f)
  BY <1>1, AheadFacts, BehindFacts DEF AheadMust, BehindMust
<1>3. e[1] \in Sheltered(f) => Sure(f, e)
  BY ShelteredFacts DEF Refuge, Sure
<1> QED
  BY <1>2, <1>3, ShelteredFacts DEF Sure, HasOrigin

ToBlockLoop == {"toBlock", "raise", "toReturn"}

MustSure == \A e \in Edge : Must(edgeErr[e]) => Sure(fn, e)

QueueSure ==
  \A i \in DOMAIN EEP :
    Must(EEP[i].flag) =>
      /\ Sure(fn, EEP[i].edge)
      /\ pc \in ToBlockLoop => EEP[i].edge[2] \in BehindMust(fn)

RaiseSure ==
  pc = "raise" => \A a \in todo : Dst(fn, a) \in BehindMust(fn) \cap Sheltered(fn)

MergeSure ==
  /\ pc = "merge" => todo \subseteq In(fn, at[2])
  /\ pc = "spread" => todo \subseteq Out(fn, at[2])
  /\ pc \in {"merge", "spread"} /\ Must(IntFlag) => at[2] \in Sheltered(fn)

OriginInv == MustSure /\ QueueSure /\ RaiseSure /\ MergeSure

LEMMA InitOrigin == Init => OriginInv
  BY DEF Init, OriginInv, MustSure, QueueSure, RaiseSure, MergeSure, Must

(* Steps that queue nothing and give no edge the flag.                        *)
MustKept == \A e \in Edge : Must(edgeErr'[e]) => Must(edgeErr[e])

PlainStep ==
  /\ MustKept
  /\ UNCHANGED <<fn, EEP>>
  /\ pc' \notin {"raise", "merge", "spread"}
  /\ pc' \in ToBlockLoop => pc \in ToBlockLoop

LEMMA PlainOrigin ==
  ASSUME OriginInv, PlainStep
  PROVE  OriginInv'
  BY DEF OriginInv, PlainStep, MustKept, MustSure, QueueSure, RaiseSure, MergeSure

LEMMA SameMust ==
  ASSUME edgeErr' = edgeErr
  PROVE  MustKept
  BY DEF MustKept

(* Worklists of edges, entry by entry.                                        *)
LEMMA EEPEntries ==
  ASSUME EEP \in Seq(EdgeFlag)
  PROVE  /\ EEP # <<>> => /\ 1 \in DOMAIN EEP /\ Head(EEP) = EEP[1]
                          /\ \A i \in DOMAIN Tail(EEP) : i + 1 \in DOMAIN EEP
                                                         /\ Tail(EEP)[i] = EEP[i + 1]
         /\ \A x \in EdgeFlag : \A i \in DOMAIN Append(EEP, x) :
              \/ i \in DOMAIN EEP /\ Append(EEP, x)[i] = EEP[i]
              \/ Append(EEP, x)[i] = x
<1>1. DOMAIN EEP = 1 .. Len(EEP) /\ Len(EEP) \in Nat
  BY LenProperties
<1>2. ASSUME EEP # <<>>
      PROVE  /\ 1 \in DOMAIN EEP /\ Head(EEP) = EEP[1]
             /\ \A i \in DOMAIN Tail(EEP) : i + 1 \in DOMAIN EEP /\ Tail(EEP)[i] = EEP[i + 1]
  <2>1. /\ Tail(EEP) \in Seq(EdgeFlag) /\ Len(Tail(EEP)) = Len(EEP) - 1
        /\ Head(EEP) = EEP[1] /\ Len(EEP) \in Nat \ {0}
        /\ \A i \in 1 .. Len(Tail(EEP)) : Tail(EEP)[i] = EEP[i + 1]
    BY <1>2, HeadTailProperties, EmptySeq
  <2>2. DOMAIN Tail(EEP) = 1 .. Len(Tail(EEP))
    BY <2>1, LenProperties
  <2> QED
    BY <1>1, <2>1, <2>2
<1>3. ASSUME NEW x \in EdgeFlag, NEW i \in DOMAIN Append(EEP, x)
      PROVE  \/ i \in DOMAIN EEP /\ Append(EEP, x)[i] = EEP[i]
             \/ Append(EEP, x)[i] = x
  <2>1. /\ Append(EEP, x) \in Seq(EdgeFlag) /\ Len(Append(EEP, x)) = Len(EEP) + 1
        /\ \A j \in 1 .. Len(EEP) : Append(EEP, x)[j] = EEP[j]
        /\ Append(EEP, x)[Len(EEP) + 1] = x
    BY AppendProperties
  <2>2. i \in 1 .. Len(EEP) + 1
    BY <2>1, LenProperties
  <2> QED
    BY <1>1, <2>1, <2>2
<1> QED
  BY <1>2, <1>3

LEMMA SingleEntry ==
  ASSUME NEW x
  PROVE  \A i \in DOMAIN <<x>> : <<x>>[i] = x
  OBVIOUS

(* What the two loops over the edges of the block have still to visit.          *)
OuterArcs ==
  /\ pc \in PredLoop => outer \subseteq In(fn, cur)
  /\ pc \in SuccLoop => outer \subseteq Out(fn, cur)

LEMMA NextOuter ==
  ASSUME OuterArcs, [Next]_vars
  PROVE  OuterArcs'
<1>1. CASE ToHandleOrReturn \/ ToBlock \/ FromBlock
  BY <1>1, WithinLoops DEF OuterArcs
<1>2. CASE NoErrorInBlock \/ CallToErrHandle \/ NoErrHandle \/ NoReturnFlag
           \/ NextBlock \/ StartIdentify
  BY <1>2 DEF NoErrorInBlock, CallToErrHandle, NoErrHandle, NoReturnFlag, NextBlock,
              StartIdentify, OuterArcs, PredLoop, SuccLoop
<1>3. CASE StartPreds \/ StartSuccs
  BY <1>3 DEF StartPreds, StartSuccs, OuterArcs, PredLoop, SuccLoop
<1>4. CASE MarkPred
  BY <1>4 DEF MarkPred, OuterArcs, PredLoop, SuccLoop
<1>5. CASE MarkSucc
  <2>1. PICK a \in Lowest(outer) : MarkSucc!2!(a)
    BY <1>5 DEF MarkSucc
  <2>2. /\ pc = "succs" /\ pc' \in {"succs", "fromBlock"} /\ outer' = outer \ {a}
        /\ UNCHANGED <<fn, cur>>
    BY <1>5, <2>1 DEF MarkSucc
  <2> QED
    BY <2>2 DEF OuterArcs, PredLoop, SuccLoop
<1>6. CASE Identify
  BY <1>6 DEF Identify, IdentifyBranch, Finish, OuterArcs, PredLoop, SuccLoop
<1>7. CASE Done \/ UNCHANGED vars
  BY <1>7 DEF Done, vars, control, OuterArcs
<1> QED
  BY <1>1, <1>2, <1>3, <1>4, <1>5, <1>6, <1>7 DEF Next, MarkBlocks

(* An edge gets a flag that it may get.                                        *)
LEMMA WrittenSure ==
  ASSUME TypeOK, MustSure, fn' = fn, NEW e \in Edge, NEW flag \in SUBSET Flag,
         edgeErr' = WithReturn(e, flag), Must(flag) => Sure(fn, e)
  PROVE  MustSure'
<1>1. edgeErr \in [Edge -> SUBSET Flag]
  BY DEF TypeOK
<1>2. \A d \in Edge : Must(edgeErr'[d]) => Must(edgeErr[d]) \/ (d = e /\ Must(flag))
  BY <1>1, MustWritten
<1> QED
  BY <1>2 DEF MustSure

LEMMA MarkPredOrigin ==
  ASSUME TypeOK, OuterArcs, OriginInv, MarkPred
  PROVE  OriginInv'
<1>1. PICK a \in outer : MarkPred!2!(a)
  BY DEF MarkPred
<1> DEFINE e == EdgeOf(fn, a)
           flag == fn.bbErr[cur]
<1>2. /\ pc = "preds" /\ pc' = "toBlock" /\ fn' = fn /\ fn \in Functions
      /\ EEP' = <<[edge |-> e, flag |-> flag]>> /\ edgeErr' = WithReturn(e, flag)
  BY <1>1 DEF MarkPred, TypeOK
<1>3. /\ a \in Arcs(fn) /\ cur \in Block /\ flag \in SUBSET Flag
      /\ a \in In(fn, cur)
  BY <1>2, StepTypes DEF TypeOK, OuterArcs, PredLoop
<1>4. e \in EdgesOf(fn) /\ e \in Edge /\ e[2] = cur
  BY <1>2, <1>3, ArcFacts DEF In
<1>5. Must(flag) => cur \in MustIn(fn)
  BY <1>3 DEF MustIn
<1>6. Must(flag) => Sure(fn, e) /\ e[2] \in BehindMust(fn)
  BY <1>2, <1>4, <1>5, SureEdges
<1> HIDE DEF e, flag
<1>7. MustSure'
  BY <1>2, <1>3, <1>4, <1>6, WrittenSure DEF OriginInv
<1>8. QueueSure'
  <2>1. ASSUME NEW i \in DOMAIN EEP'
        PROVE  EEP'[i].edge = e /\ EEP'[i].flag = flag
    BY <1>2, <2>1, SingleEntry
  <2> QED
    BY <1>2, <1>6, <2>1 DEF QueueSure
<1> QED
  BY <1>2, <1>7, <1>8 DEF OriginInv, RaiseSure, MergeSure

LEMMA MarkSuccOrigin ==
  ASSUME TypeOK, OuterArcs, OriginInv, MarkSucc
  PROVE  OriginInv'
<1>1. PICK a \in Lowest(outer) : MarkSucc!2!(a)
  BY DEF MarkSucc
<1> DEFINE e == EdgeOf(fn, a)
           flag == fn.bbErr[cur]
<1>2. /\ pc = "succs" /\ fn' = fn /\ fn \in Functions /\ edgeErr' = WithReturn(e, flag)
      /\ \/ pc' = "succs" /\ EEP' = EEP
         \/ pc' = "fromBlock" /\ EEP' = <<[edge |-> e, flag |-> flag]>>
  BY <1>1 DEF MarkSucc, TypeOK
<1>3. /\ a \in Arcs(fn) /\ cur \in Block /\ flag \in SUBSET Flag
      /\ a \in Out(fn, cur)
  BY <1>2, StepTypes DEF TypeOK, OuterArcs, SuccLoop, Lowest
<1>4. e \in EdgesOf(fn) /\ e \in Edge /\ e[1] = cur
  BY <1>2, <1>3, ArcFacts DEF Out
<1>5. Must(flag) => cur \in MustIn(fn)
  BY <1>3 DEF MustIn
<1>6. Must(flag) => Sure(fn, e)
  BY <1>2, <1>4, <1>5, SureEdges
<1> HIDE DEF e, flag
<1>7. MustSure'
  BY <1>2, <1>3, <1>4, <1>6, WrittenSure DEF OriginInv
<1>8. QueueSure'
  <2>1. CASE EEP' = EEP
    BY <1>2, <2>1 DEF OriginInv, QueueSure, ToBlockLoop
  <2>2. CASE EEP' = <<[edge |-> e, flag |-> flag]>>
    <3>1. ASSUME NEW i \in DOMAIN EEP'
          PROVE  EEP'[i].edge = e /\ EEP'[i].flag = flag
      BY <2>2, <3>1, SingleEntry
    <3> QED
      BY <1>2, <1>6, <3>1 DEF QueueSure, ToBlockLoop
  <2> QED
    BY <1>2, <2>1, <2>2
<1> QED
  BY <1>2, <1>7, <1>8 DEF OriginInv, RaiseSure, MergeSure

LEMMA MarkBlocksOrigin ==
  ASSUME TypeOK, OuterArcs, OriginInv, MarkBlocks
  PROVE  OriginInv'
<1>1. CASE NoErrorInBlock \/ CallToErrHandle \/ NoErrHandle \/ NoReturnFlag
           \/ StartPreds \/ StartSuccs \/ NextBlock \/ StartIdentify
  <2>1. /\ UNCHANGED <<fn, edgeErr, EEP>>
        /\ pc' \in {"block", "handle", "return", "preds", "succs", "identify"}
    BY <1>1 DEF NoErrorInBlock, CallToErrHandle, NoErrHandle, NoReturnFlag, StartPreds,
                StartSuccs, NextBlock, StartIdentify
  <2> QED
    BY <2>1, SameMust, PlainOrigin DEF PlainStep, ToBlockLoop
<1> QED
  BY <1>1, MarkPredOrigin, MarkSuccOrigin DEF MarkBlocks

LEMMA ToHandleOrReturnOrigin ==
  ASSUME TypeOK, OriginInv, ToHandleOrReturn
  PROVE  OriginInv'
<1>1. edgeErr \in [Edge -> SUBSET Flag] /\ \A a \in todo : EdgeOf(fn, a) \in Edge
  BY StepTypes DEF TypeOK
<1>2. CASE TakeBlock \/ ReturnFromBlocks
  <2>1. /\ UNCHANGED <<fn, edgeErr, EEP>>
        /\ \/ pc \in {"handle", "toReturn"} /\ pc' = pc
           \/ pc = "handle" /\ pc' = "return"
           \/ pc = "toReturn" /\ pc' = "toBlock"
    BY <1>2 DEF TakeBlock, ReturnFromBlocks
  <2> QED
    BY <2>1, SameMust, PlainOrigin DEF PlainStep, ToBlockLoop
<1>3. CASE MarkHandle
  <2>1. PICK a \in todo : MarkHandle!2!(a)
    BY <1>3 DEF MarkHandle
  <2>2. MustKept
    <3>1. CASE edgeErr' = edgeErr
      BY <3>1, SameMust
    <3>2. CASE edgeErr' = WithHandle(EdgeOf(fn, a), {"Must_Handle_Err"})
      <4>1. \A d \in Edge : Returns(edgeErr'[d]) = Returns(edgeErr[d])
        BY <1>1, <3>2, WithHandleFacts
      <4> QED
        BY <4>1 DEF MustKept, Must, Returns, ReturnMask
    <3> QED
      BY <2>1, <3>1, <3>2
  <2> QED
    BY <1>3, <2>2, PlainOrigin DEF MarkHandle, PlainStep, ToBlockLoop
<1>4. CASE MarkReturn
  <2>1. PICK a \in todo : MarkReturn!2!(a)
    BY <1>4 DEF MarkReturn
  <2> DEFINE may == {"May_Return_Err"}
  <2>2. MustKept
    <3>1. CASE edgeErr' = edgeErr
      BY <3>1, SameMust
    <3>2. CASE edgeErr' = WithReturn(EdgeOf(fn, a), may)
      <4>1. may \in SUBSET Flag /\ ~Must(may)
        BY DEF Flag, Must
      <4> HIDE DEF may
      <4> QED
        BY <1>1, <3>2, <4>1, MustWritten DEF MustKept
    <3> QED
      BY <2>1, <3>1, <3>2
  <2> QED
    BY <1>4, <2>2, PlainOrigin DEF MarkReturn, PlainStep, ToBlockLoop
<1> QED
  BY <1>2, <1>3, <1>4 DEF ToHandleOrReturn

(* The edges out of the block an edge leaves are that edge and those beside it.  *)
LEMMA BesideSure ==
  ASSUME TypeOK, MustSure, NEW e \in EdgesOf(fn), Sure(fn, e), AllMust(e)
  PROVE  e[1] \in Sheltered(fn)
<1>1. fn \in Functions
  BY DEF TypeOK
<1>2. PICK c \in Arcs(fn) : e = EdgeOf(fn, c)
  BY DEF EdgesOf
<1>3. e[1] \in Block
  BY <1>1, <1>2, ArcFacts
<1>4. ASSUME NEW d \in EdgesOf(fn), d[1] = e[1], d # e
      PROVE  Sure(fn, d)
  <2>1. PICK a \in Arcs(fn) : d = EdgeOf(fn, a)
    BY <1>4 DEF EdgesOf
  <2>2. a[1] = e[1] /\ d \in Edge
    BY <1>1, <1>4, <2>1, ArcFacts
  <2>3. a \in Out(fn, e[1])
    BY <1>3, <2>2 DEF Arcs, Out
  <2>4. edgeErr[d] \in FlagsBeside(e)
    BY <1>4, <2>1, <2>3 DEF FlagsBeside
  <2>5. Must(edgeErr[d])
    BY <2>4 DEF AllMust
  <2> QED
    BY <2>2, <2>5 DEF MustSure
<1> QED
  BY <1>1, <1>3, <1>4, JoinsSheltered

LEMMA TakeToBlockOrigin ==
  ASSUME TypeOK, OriginInv, TakeToBlock
  PROVE  OriginInv'
<1> DEFINE e == Head(EEP).edge
           flag == Head(EEP).flag
<1>1. /\ pc = "toBlock" /\ EEP # <<>> /\ EEP' = Tail(EEP) /\ UNCHANGED <<fn, edgeErr>>
      /\ \/ pc' = pc
         \/ pc' = "toReturn"
         \/ /\ Returns(flag) # {} /\ ~May(flag) /\ AllMust(e)
            /\ pc' = "raise" /\ todo' = In(fn, e[1])
  BY DEF TakeToBlock
<1>2. fn \in Functions /\ EEP \in Seq(EdgeFlag) /\ e[1] \in Block /\ flag \in SUBSET Flag
  BY <1>1, EdgeQueue DEF TypeOK
<1>3. 1 \in DOMAIN EEP /\ e = EEP[1].edge /\ flag = EEP[1].flag
  BY <1>1, <1>2, EEPEntries
<1>4. \A i \in DOMAIN EEP' : i + 1 \in DOMAIN EEP /\ EEP'[i] = EEP[i + 1]
  BY <1>1, <1>2, EEPEntries
<1>5. MustSure' /\ MustSure
  BY <1>1 DEF OriginInv, MustSure
<1>6. QueueSure'
  BY <1>1, <1>4 DEF OriginInv, QueueSure, ToBlockLoop
<1>7. Must(flag) => Sure(fn, e) /\ e[2] \in BehindMust(fn)
  BY <1>1, <1>3 DEF OriginInv, QueueSure, ToBlockLoop
<1> HIDE DEF e, flag
<1>8. RaiseSure'
  <2> SUFFICES ASSUME pc' = "raise", NEW a \in todo'
               PROVE  Dst(fn, a) \in BehindMust(fn) \cap Sheltered(fn)
    BY <1>1 DEF RaiseSure
  <2>1. Must(flag)
    BY <1>1, <1>2 DEF Returns, ReturnMask, Must, May
  <2>2. AllMust(e) /\ a \in In(fn, e[1])
    BY <1>1
  <2>3. e \in EdgesOf(fn) /\ Sure(fn, e) /\ e[2] \in BehindMust(fn)
    BY <1>7, <2>1 DEF Sure
  <2>4. e[1] \in BehindMust(fn)
    BY <1>2, <2>3, SureEdges
  <2>5. e[1] \in Sheltered(fn)
    BY <1>5, <2>2, <2>3, BesideSure
  <2> QED
    BY <2>2, <2>4, <2>5 DEF In
<1> QED
  BY <1>1, <1>5, <1>6, <1>8 DEF OriginInv, MergeSure

LEMMA RaiseMustOrigin ==
  ASSUME TypeOK, OriginInv, RaiseMust
  PROVE  OriginInv'
<1>1. PICK a \in todo : RaiseMust!2!(a)
  BY DEF RaiseMust
<1> DEFINE e == EdgeOf(fn, a)
           flag == {"Must_Return_Err"}
<1>2. /\ pc = "raise" /\ pc' = "raise" /\ fn' = fn /\ fn \in Functions
      /\ EEP \in Seq(EdgeFlag) /\ todo' = todo \ {a}
      /\ \/ UNCHANGED <<edgeErr, EEP>>
         \/ /\ edgeErr' = WithReturn(e, flag)
            /\ EEP' = Append(EEP, [edge |-> e, flag |-> flag])
  BY <1>1 DEF RaiseMust, TypeOK
<1>3. a \in Arcs(fn) /\ flag \in SUBSET Flag
  BY DEF TypeOK, Flag
<1>4. e \in EdgesOf(fn) /\ e \in Edge /\ e[2] \in BehindMust(fn) /\ e[2] \in Sheltered(fn)
  BY <1>2, <1>3, ArcFacts DEF OriginInv, RaiseSure
<1>5. Sure(fn, e)
  BY <1>2, <1>4, SureEdges
<1> HIDE DEF e, flag
<1>6. MustSure'
  <2>1. CASE edgeErr' = edgeErr
    BY <1>2, <2>1 DEF OriginInv, MustSure
  <2>2. CASE edgeErr' = WithReturn(e, flag)
    BY <1>2, <1>3, <1>4, <1>5, <2>2, WrittenSure DEF OriginInv
  <2> QED
    BY <1>2, <2>1, <2>2
<1>7. QueueSure'
  <2>1. CASE EEP' = EEP
    BY <1>2, <2>1 DEF OriginInv, QueueSure, ToBlockLoop
  <2>2. CASE EEP' = Append(EEP, [edge |-> e, flag |-> flag])
    <3>1. [edge |-> e, flag |-> flag] \in EdgeFlag
      BY <1>3, <1>4 DEF EdgeFlag
    <3>2. ASSUME NEW i \in DOMAIN EEP'
          PROVE  \/ i \in DOMAIN EEP /\ EEP'[i] = EEP[i]
                 \/ EEP'[i].edge = e /\ EEP'[i].flag = flag
      BY <1>2, <2>2, <3>1, <3>2, EEPEntries
    <3> QED
      BY <1>2, <1>4, <1>5, <3>2 DEF OriginInv, QueueSure, ToBlockLoop
  <2> QED
    BY <1>2, <2>1, <2>2
<1>8. RaiseSure'
  BY <1>2 DEF OriginInv, RaiseSure
<1> QED
  BY <1>2, <1>6, <1>7, <1>8 DEF OriginInv, MergeSure

LEMMA ToBlockOrigin ==
  ASSUME TypeOK, OriginInv, ToBlock
  PROVE  OriginInv'
<1>1. CASE EndRaise \/ ReturnFromToBlock
  <2>1. UNCHANGED <<fn, edgeErr, EEP>> /\ pc \in {"raise", "toBlock"} /\ pc' \in {"toBlock", "preds"}
    BY <1>1 DEF EndRaise, ReturnFromToBlock
  <2> QED
    BY <2>1, SameMust, PlainOrigin DEF PlainStep, ToBlockLoop
<1> QED
  BY <1>1, TakeToBlockOrigin, RaiseMustOrigin DEF ToBlock

LEMMA TakeFromBlockOrigin ==
  ASSUME TypeOK, OriginInv, TakeFromBlock
  PROVE  OriginInv'
<1> DEFINE e == Head(EEP).edge
           flag == Head(EEP).flag
<1>1. /\ pc = "fromBlock" /\ EEP # <<>> /\ EEP' = Tail(EEP) /\ UNCHANGED <<fn, edgeErr>>
      /\ \/ pc' = pc
         \/ /\ pc' = "merge" /\ at' = e /\ IntFlag' = flag
            /\ todo' = {a \in In(fn, e[2]) : a[1] # e[1]}
  BY DEF TakeFromBlock
<1>2. fn \in Functions /\ EEP \in Seq(EdgeFlag)
  BY <1>1 DEF TypeOK
<1>3. 1 \in DOMAIN EEP /\ e = EEP[1].edge /\ flag = EEP[1].flag
  BY <1>1, <1>2, EEPEntries
<1>4. \A i \in DOMAIN EEP' : i + 1 \in DOMAIN EEP /\ EEP'[i] = EEP[i + 1]
  BY <1>1, <1>2, EEPEntries
<1>5. MustSure'
  BY <1>1 DEF OriginInv, MustSure
<1>6. QueueSure'
  BY <1>1, <1>4 DEF OriginInv, QueueSure, ToBlockLoop
<1>7. Must(flag) => e[2] \in Sheltered(fn)
  BY <1>3 DEF OriginInv, QueueSure, Sure
<1> HIDE DEF e, flag
<1>8. MergeSure'
  BY <1>1, <1>7 DEF MergeSure
<1> QED
  BY <1>1, <1>5, <1>6, <1>8 DEF OriginInv, RaiseSure

LEMMA MergePredOrigin ==
  ASSUME TypeOK, OriginInv, MergePred
  PROVE  OriginInv'
<1>1. PICK a \in todo : MergePred!2!(a)
  BY DEF MergePred
<1> DEFINE e == EdgeOf(fn, a)
<1>2. /\ pc = "merge" /\ pc' = "merge" /\ UNCHANGED <<fn, edgeErr, EEP, at>>
      /\ todo' = todo \ {a} /\ IntFlag' = MergeFlag(IntFlag, edgeErr[e])
      /\ fn \in Functions
  BY <1>1 DEF MergePred, TypeOK
<1>3. a \in In(fn, at[2]) /\ a \in Arcs(fn)
  BY <1>2 DEF OriginInv, MergeSure, TypeOK
<1>4. e \in Edge /\ e[2] = at[2]
  BY <1>2, <1>3, ArcFacts DEF In
<1> HIDE DEF e
<1>5. IntFlag \in SUBSET Flag /\ edgeErr[e] \in SUBSET Flag
  BY <1>4 DEF TypeOK
<1>6. Must(IntFlag') => Must(IntFlag) \/ Must(edgeErr[e])
  BY <1>2, <1>5, MustUpdated
<1>7. Must(edgeErr[e]) => at[2] \in Sheltered(fn)
  BY <1>4 DEF OriginInv, MustSure, Sure
<1>8. MergeSure'
  BY <1>2, <1>6, <1>7 DEF OriginInv, MergeSure
<1>9. MustSure' /\ QueueSure'
  BY <1>2 DEF OriginInv, MustSure, QueueSure, ToBlockLoop
<1> QED
  BY <1>2, <1>8, <1>9 DEF OriginInv, RaiseSure

LEMMA SpreadOrigin ==
  ASSUME TypeOK, OriginInv, Spread
  PROVE  OriginInv'
<1>1. PICK a \in Lowest(todo) : Spread!2!(a)
  BY DEF Spread
<1> DEFINE e == EdgeOf(fn, a)
<1>2. /\ pc = "spread" /\ pc' = "spread" /\ UNCHANGED <<fn, at, IntFlag>> /\ fn \in Functions
      /\ EEP \in Seq(EdgeFlag) /\ todo' = todo \ {a}
      /\ \/ UNCHANGED <<edgeErr, EEP>>
         \/ /\ edgeErr' = WithReturn(e, IntFlag)
            /\ EEP' = Append(EEP, [edge |-> e, flag |-> IntFlag])
  BY <1>1 DEF Spread, TypeOK
<1>3. a \in Out(fn, at[2]) /\ a \in Arcs(fn) /\ IntFlag \in SUBSET Flag
  BY <1>2 DEF OriginInv, MergeSure, TypeOK, Lowest
<1>4. e \in EdgesOf(fn) /\ e \in Edge /\ e[1] = at[2]
  BY <1>2, <1>3, ArcFacts DEF Out
<1>5. Must(IntFlag) => Sure(fn, e)
  BY <1>2, <1>4, SureEdges DEF OriginInv, MergeSure
<1> HIDE DEF e
<1>6. MustSure'
  <2>1. CASE edgeErr' = edgeErr
    BY <1>2, <2>1 DEF OriginInv, MustSure
  <2>2. CASE edgeErr' = WithReturn(e, IntFlag)
    BY <1>2, <1>3, <1>4, <1>5, <2>2, WrittenSure DEF OriginInv
  <2> QED
    BY <1>2, <2>1, <2>2
<1>7. QueueSure'
  <2>1. CASE EEP' = EEP
    BY <1>2, <2>1 DEF OriginInv, QueueSure, ToBlockLoop
  <2>2. CASE EEP' = Append(EEP, [edge |-> e, flag |-> IntFlag])
    <3>1. [edge |-> e, flag |-> IntFlag] \in EdgeFlag
      BY <1>3, <1>4 DEF EdgeFlag
    <3>2. ASSUME NEW i \in DOMAIN EEP'
          PROVE  \/ i \in DOMAIN EEP /\ EEP'[i] = EEP[i]
                 \/ EEP'[i].edge = e /\ EEP'[i].flag = IntFlag
      BY <1>2, <2>2, <3>1, <3>2, EEPEntries
    <3> QED
      BY <1>2, <1>5, <3>2 DEF OriginInv, QueueSure, ToBlockLoop
  <2> QED
    BY <1>2, <2>1, <2>2
<1>8. MergeSure'
  BY <1>2 DEF OriginInv, MergeSure
<1> QED
  BY <1>2, <1>6, <1>7, <1>8 DEF OriginInv, RaiseSure

LEMMA FromBlockOrigin ==
  ASSUME TypeOK, OriginInv, FromBlock
  PROVE  OriginInv'
<1>1. CASE StartSpread
  <2>1. /\ pc = "merge" /\ pc' = "spread" /\ todo' = Out(fn, at[2])
        /\ UNCHANGED <<fn, edgeErr, EEP, at, IntFlag>>
    BY <1>1 DEF StartSpread
  <2> QED
    BY <2>1 DEF OriginInv, MustSure, QueueSure, ToBlockLoop, RaiseSure, MergeSure
<1>2. CASE EndSpread \/ ReturnFromFromBlock
  <2>1. UNCHANGED <<fn, edgeErr, EEP>> /\ pc' \in {"fromBlock", "succs"}
    BY <1>2 DEF EndSpread, ReturnFromFromBlock
  <2> QED
    BY <2>1, SameMust, PlainOrigin DEF PlainStep, ToBlockLoop
<1> QED
  BY <1>1, <1>2, TakeFromBlockOrigin, MergePredOrigin, SpreadOrigin DEF FromBlock

LEMMA NextOrigin ==
  ASSUME TypeOK, OuterArcs, OriginInv, [Next]_vars
  PROVE  OriginInv'
<1>1. CASE Identify
  <2>1. UNCHANGED <<fn, edgeErr, EEP>> /\ pc' \in {"identify", "done"}
    BY <1>1 DEF Identify, IdentifyBranch, Finish
  <2> QED
    BY <2>1, SameMust, PlainOrigin DEF PlainStep, ToBlockLoop
<1>2. CASE Done \/ UNCHANGED vars
  <2>1. UNCHANGED <<fn, edgeErr, pc, todo, EEP, at, IntFlag>>
    BY <1>2 DEF Done, vars, control
  <2> QED
    BY <2>1 DEF OriginInv, MustSure, QueueSure, RaiseSure, MergeSure
<1> QED
  BY <1>1, <1>2, MarkBlocksOrigin, ToHandleOrReturnOrigin, ToBlockOrigin, FromBlockOrigin DEF Next

LEMMA OriginInductive == Spec => [](OuterArcs /\ OriginInv)
<1>1. Init => OuterArcs
  BY DEF Init, OuterArcs, PredLoop, SuccLoop
<1>2. IInv /\ OuterArcs /\ OriginInv /\ [Next]_vars => OuterArcs' /\ OriginInv'
  BY NextOuter, NextOrigin DEF IInv
<1> QED
  BY <1>1, <1>2, InitOrigin, Inductive, PTL DEF Spec

(* In every flow graph, loops and switches included, a Must_Return_Err on an edge   *)
(* is on an edge from which a block that must return an error can be reached, or     *)
(* that such a block can reach: neither the merging of flags nor the raising of      *)
(* predecessors puts one where there is no such block ahead or behind.             *)
THEOREM MustHasOriginHolds == Spec => []MustHasOrigin
<1>1. OriginInv => MustHasOrigin
  <2>1. MustIn(fn) = MustBlocks
    BY DEF MustIn, MustBlocks
  <2> QED
    BY <2>1 DEF OriginInv, MustSure, Sure, HasOrigin, AheadMust, BehindMust, MustHasOrigin
<1> QED
  BY <1>1, OriginInductive, PTL

-----------------------------------------------------------------------------
(* The causes of the checks.                                                   *)

NearMust(f) == AheadMust(f) \cup BehindMust(f)

Separates(f, b) ==
  \E d \in HandleEdges(f) : \E e \in EdgesOf(f) \ HandleEdges(f) : d[1] = b /\ e[1] = b

CauseInv == \A c \in checks : c.branch \in NearMust(fn) \/ Separates(fn, c.branch)

(* A branch whose edges disagree has a cause.                                  *)
LEMMA GuardHasCause ==
  ASSUME TypeOK, OriginInv, Marked = HandleEdges(fn), NEW b \in Block, Disagree(SuccFlags(b))
  PROVE  b \in NearMust(fn) \/ Separates(fn, b)
<1>1. fn \in Functions
  BY DEF TypeOK
<1>2. ASSUME NEW flag \in SuccFlags(b)
      PROVE  \E e \in EdgesOf(fn) : e \in Edge /\ e[1] = b /\ flag = edgeErr[e]
  <2>1. PICK a \in Out(fn, b) : flag = edgeErr[EdgeOf(fn, a)]
    BY <1>2 DEF SuccFlags
  <2>2. a \in Arcs(fn) /\ a[1] = b
    BY <1>1, InOutArcs DEF Out
  <2> QED
    BY <1>1, <2>1, <2>2, ArcFacts
<1>3. CASE {Must(flag) : flag \in SuccFlags(b)} = BOOLEAN
  <2>1. PICK flag \in SuccFlags(b) : Must(flag) = TRUE
    BY <1>3
  <2>2. PICK e \in EdgesOf(fn) : e \in Edge /\ e[1] = b /\ flag = edgeErr[e]
    BY <1>2
  <2>3. HasOrigin(fn, e)
    BY <2>1, <2>2 DEF OriginInv, MustSure, Sure
  <2> QED
    BY <1>1, <2>2, <2>3, SureEdges DEF HasOrigin, NearMust
<1>4. CASE {Handled(flag) : flag \in SuccFlags(b)} = BOOLEAN
  <2>1. PICK on \in SuccFlags(b) : Handled(on) = TRUE
    BY <1>4
  <2>2. PICK off \in SuccFlags(b) : Handled(off) = FALSE
    BY <1>4
  <2>3. PICK d \in EdgesOf(fn) : d \in Edge /\ d[1] = b /\ on = edgeErr[d]
    BY <1>2
  <2>4. PICK e \in EdgesOf(fn) : e \in Edge /\ e[1] = b /\ off = edgeErr[e]
    BY <1>2
  <2>5. d \in Marked /\ e \notin Marked
    BY <2>1, <2>2, <2>3, <2>4 DEF Marked
  <2> QED
    BY <2>3, <2>4, <2>5 DEF Separates
<1> QED
  BY <1>3, <1>4 DEF Disagree

(* Only IdentifyBranch adds a check.                                          *)
LEMMA ChecksKept ==
  ASSUME [Next]_vars, ~IdentifyBranch
  PROVE  UNCHANGED <<fn, checks>>
<1>1. MarkBlocks => UNCHANGED <<fn, checks>>
  BY DEF MarkBlocks, NoErrorInBlock, CallToErrHandle, NoErrHandle, NoReturnFlag,
         StartPreds, MarkPred, StartSuccs, MarkSucc, NextBlock, StartIdentify
<1>2. Finish \/ Done \/ UNCHANGED vars => UNCHANGED <<fn, checks>>
  BY DEF Finish, Done, vars
<1> QED
  BY <1>1, <1>2, WithinLoops DEF Next, Identify

LEMMA NextCause ==
  ASSUME TypeOK, OriginInv, HandleExact, CauseInv, [Next]_vars
  PROVE  CauseInv'
<1>1. CASE IdentifyBranch
  <2> DEFINE sc == [cond |-> fn.cond[cur], branch |-> cur]
  <2>1. /\ pc = "identify" /\ cur \in Block /\ fn' = fn
        /\ checks' = checks \/ (checks' = checks \cup {sc} /\ Disagree(SuccFlags(cur)))
    BY <1>1 DEF IdentifyBranch, AddSecurityCheck
  <2>2. Disagree(SuccFlags(cur)) => cur \in NearMust(fn) \/ Separates(fn, cur)
    BY <2>1, GuardHasCause DEF HandleExact
  <2>3. sc.branch = cur
    OBVIOUS
  <2> HIDE DEF sc
  <2> QED
    BY <2>1, <2>2, <2>3 DEF CauseInv
<1>2. CASE ~IdentifyBranch
  <2>1. UNCHANGED <<fn, checks>>
    BY <1>2, ChecksKept
  <2> QED
    BY <2>1 DEF CauseInv
<1> QED
  BY <1>1, <1>2

LEMMA CauseFromInv == CauseInv => ChecksHaveCause
<1>1. MustIn(fn) = MustBlocks
  BY DEF MustIn, MustBlocks
<1> QED
  BY <1>1 DEF CauseInv, NearMust, Separates, AheadMust, BehindMust, ChecksHaveCause

(* In every flow graph, a branch is reported as a security check only if it       *)
(* separates edges that lead straight to an error handler from others, or lies       *)
(* ahead of or behind a block that must return an error.                           *)
THEOREM ChecksHaveCauseHolds == Spec => []ChecksHaveCause
<1>1. Init => CauseInv
  BY DEF Init, CauseInv
<1>2. IInv /\ OriginInv /\ HandleExact /\ CauseInv /\ [Next]_vars => CauseInv'
  BY NextCause DEF IInv
<1> QED
  BY <1>1, <1>2, CauseFromInv, Inductive, OriginInductive, HandleExactHolds, PTL DEF Spec

-----------------------------------------------------------------------------
(* All of it as one invariant, for the pass that marks function after function.   *)

BranchInv ==
  \A c \in checks :
    c.branch \in Block /\ NumSuccessors(fn, c.branch) >= 2 /\ c.cond = fn.cond[c.branch]

MarkInv == IInv /\ OuterArcs /\ OriginInv /\ ChecksInv /\ CauseInv /\ BranchInv

LEMMA InitMarkInv == Init => MarkInv
<1> SUFFICES ASSUME Init
             PROVE  MarkInv
  OBVIOUS
<1>1. OuterArcs
  BY DEF Init, OuterArcs, PredLoop, SuccLoop
<1>2. CauseInv /\ BranchInv
  BY DEF Init, CauseInv, BranchInv
<1> QED
  BY <1>1, <1>2, InitTypeOK, InitHandleInv, InitOrigin, InitChecks DEF MarkInv, IInv

LEMMA NextMarkInv == MarkInv /\ [Next]_vars => MarkInv'
<1> SUFFICES ASSUME MarkInv, [Next]_vars
             PROVE  MarkInv'
  OBVIOUS
<1>1. TypeOK /\ IInv /\ HandleExact
  BY ExactFromInv DEF MarkInv, IInv
<1>2. IInv' /\ OuterArcs' /\ OriginInv' /\ ChecksInv' /\ CauseInv'
  BY <1>1, NextTypeOK, NextHandleInv, NextOuter, NextOrigin, NextChecks, NextCause
     DEF MarkInv, IInv
<1>3. BranchInv'
  <2>1. CASE IdentifyBranch
    <3> DEFINE sc == [cond |-> fn.cond[cur], branch |-> cur]
    <3>1. /\ fn' = fn /\ cur \in Block
          /\ checks' = checks \/ (checks' = checks \cup {sc} /\ NumSuccessors(fn, cur) >= 2)
      BY <2>1 DEF IdentifyBranch, AddSecurityCheck
    <3>2. sc.branch = cur /\ sc.cond = fn.cond[cur]
      OBVIOUS
    <3> HIDE DEF sc
    <3>3. NumSuccessors(fn, cur) >= 2 =>
            sc.branch \in Block /\ NumSuccessors(fn, sc.branch) >= 2 /\ sc.cond = fn.cond[sc.branch]
      BY <3>1, <3>2
    <3>4. \A b : NumSuccessors(fn, b)' = NumSuccessors(fn, b)
      BY <3>1 DEF NumSuccessors
    <3> QED
      BY <3>1, <3>3, <3>4 DEF MarkInv, BranchInv
  <2>2. CASE ~IdentifyBranch
    <3>1. UNCHANGED <<fn, checks>>
      BY <2>2, ChecksKept
    <3> QED
      BY <3>1 DEF MarkInv, BranchInv, NumSuccessors
  <2> QED
    BY <2>1, <2>2
<1> QED
  BY <1>2, <1>3 DEF MarkInv
=============================================================================
