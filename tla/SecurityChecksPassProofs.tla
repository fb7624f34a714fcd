----------------------- MODULE SecurityChecksPassProofs -----------------------
(***************************************************************************)
(* Proofs about SecurityChecksPass.  The pass runs ErrValueFlow and MarkEdges  *)
(* over one function after another, so what is proved of each of them holds    *)
(* here of its part of the state, from the step that starts it on: FlowP and    *)
(* MarkP are the proofs about the two, for all functions there can be.         *)
(***************************************************************************)
EXTENDS SecurityChecksPass, SequenceTheorems, FiniteSetTheorems, TLAPS

Graphs ==
  {g \in [succ : [Block -> Seq(Block)], bbErr : [Block -> SUBSET Mark!Flag], cond : [Block -> Block]] :
     \A b \in Block : /\ \A k \in DOMAIN g.succ[b] : g.succ[b][k] # 1
                      /\ "May_Handle_Err" \notin g.bbErr[b]}

AllBodies ==
  [succ : [Block -> Seq(Block)], test : [Block -> SUBSET Instr],
   home : [Instr -> Block], op : [Instr -> Flow!Op],
   stores : SUBSET Flow!Store, returns : Seq(Flow!Site),
   pointer : BOOLEAN, handlers : SUBSET Block]

(* ErrSelectInstSet as it would be if it were cleared before every function.    *)
FoundHere == {i \in PV \cap Instr : Flow!OneErrno(body, i)}

MarkP == INSTANCE MarkEdgesRerunProofs WITH
  pc <- markPc, Functions <- Graphs, first <- <<>>
FlowP == INSTANCE ErrValueFlowProofs WITH
  pc <- flowPc, todo <- sites, Bodies <- AllBodies, ErrSelectInstSet <- FoundHere

-----------------------------------------------------------------------------
(* The invariant.                                                            *)

ControlInv ==
  /\ prog \in Programs
  /\ phase \in {"start", "blocks", "edges", "done"}
  /\ n \in DOMAIN prog.order /\ run \in 1 .. prog.runs
  /\ phase = "done" => n = Len(prog.order) /\ run = prog.runs

FlowHalf ==
  phase \in {"blocks", "edges"} =>
    body = BodyOf(F) /\ FlowP!IInv /\ (phase = "edges" => flowPc = "done")

MarkHalf == phase = "edges" => fn = GraphOf(F, bbErrMap) /\ MarkP!MarkInv

(* The functions that have had a turn, and those whose selects the last turn of the *)
(* k-th function has found in ErrSelectInstSet.                                 *)
Seen == {k \in DOMAIN prog.order : phase = "done" \/ run > 1 \/ k < n}
Before(k) ==
  IF run > 2 \/ (run > 1 /\ (k < n \/ phase = "done")) THEN DOMAIN prog.order ELSE 1 .. k

ReturnedBy(K) == UNION {Returned(prog.order[k]) : k \in K}
Owned(f, S) == {i \in S : prog.owner[prog.home[i]] = f}

SelectsInv ==
  ErrSelectInstSet = ReturnedBy(Seen) \cup (IF phase \in {"blocks", "edges"} THEN FoundHere ELSE {})

Wanted(f, K) == {prog.cond[b] : b \in Guards(f)} \cup {prog.selectCond[i] : i \in K}
Explained(f, K) ==
  {prog.selectCond[i] : i \in K}
    \cup {prog.cond[b] : b \in {x \in Guards(f) \cup Near(f) : Len(Graph(f).succ[x]) > 1}}

(* What is found of the k-th function, if the selects of K are known.            *)
Within(k, K) ==
  LET f == prog.order[k]
      known == Owned(f, ReturnedBy(K)) IN
  Wanted(f, known) \subseteq CheckInstSets[f] /\ CheckInstSets[f] \subseteq Explained(f, known)

FoundInv ==
  /\ CheckInstSets \in [Fun -> SUBSET Block]
  /\ \A f \in Fun : CheckInstSets[f] # {} => \E k \in Seen : f = prog.order[k]
  /\ \A k \in Seen : Within(k, Before(k))

IInv == ControlInv /\ FlowHalf /\ MarkHalf /\ SelectsInv /\ FoundInv

-----------------------------------------------------------------------------
(* What the modules of the two halves assume of their functions.               *)

LEMMA MarkAssumptions ==
  /\ MarkP!NAssumption /\ MarkP!FunctionsAssumption
  /\ MarkP!EntryAssumption /\ MarkP!NoMayHandleAssumption
<1>1. MarkP!NAssumption
  BY NAssumption DEF MarkP!NAssumption
<1>2. MarkP!FunctionsAssumption
  BY DEF MarkP!FunctionsAssumption, Graphs, MarkP!Block, Block, MarkP!Flag, Mark!Flag
<1>3. MarkP!EntryAssumption /\ MarkP!NoMayHandleAssumption
  BY DEF MarkP!EntryAssumption, MarkP!NoMayHandleAssumption, Graphs, MarkP!Block, Block
<1> QED
  BY <1>1, <1>2, <1>3

LEMMA FlowAssumptions ==
  FlowP!NAssumption /\ FlowP!InstrAssumption /\ FlowP!BodiesAssumption
<1>1. FlowP!NAssumption /\ FlowP!InstrAssumption
  BY NAssumption, InstrAssumption DEF FlowP!NAssumption, FlowP!InstrAssumption, FlowP!Const
<1>2. FlowP!BodiesAssumption
  BY ZenonT(60) DEF FlowP!BodiesAssumption, AllBodies, FlowP!Block, Block, FlowP!Op, Flow!Op,
         FlowP!Site, Flow!Site, FlowP!Store, Flow!Store, FlowP!Value, Flow!Value,
         FlowP!Const, Flow!Const, FlowP!Callee, Flow!Callee, Flow!Block
<1> QED
  BY <1>1, <1>2

(* The pass takes a step of MarkEdges; the proofs are about the same step.       *)
LEMMA SameMarkStep == Mark!Next => MarkP!Next
  BY ZenonT(60) DEF Mark!ReturnMask, MarkP!ReturnMask, Mark!HandleMask, MarkP!HandleMask, Mark!Must,
         MarkP!Must, Mark!May, MarkP!May, Mark!Handled, MarkP!Handled, Mark!Returns, MarkP!Returns,
         Mark!Handles, MarkP!Handles, Mark!UpdateReturnFlag, MarkP!UpdateReturnFlag,
         Mark!UpdateHandleFlag, MarkP!UpdateHandleFlag, Mark!MergeReturn, MarkP!MergeReturn,
         Mark!MergeHandle, MarkP!MergeHandle, Mark!MergeFlag, MarkP!MergeFlag, Mark!Block,
         MarkP!Block, Mark!NumSuccessors, MarkP!NumSuccessors, Mark!Out, MarkP!Out, Mark!Arcs,
         MarkP!Arcs, Mark!Dst, MarkP!Dst, Mark!EdgeOf, MarkP!EdgeOf, Mark!In, MarkP!In,
         Mark!control, MarkP!control, Mark!Lowest, MarkP!Lowest, Mark!WithReturn, MarkP!WithReturn,
         Mark!WithHandle, MarkP!WithHandle, Mark!NoErrorInBlock, MarkP!NoErrorInBlock,
         Mark!CallToErrHandle, MarkP!CallToErrHandle, Mark!NoErrHandle, MarkP!NoErrHandle,
         Mark!NoReturnFlag, MarkP!NoReturnFlag, Mark!StartPreds, MarkP!StartPreds, Mark!MarkPred,
         MarkP!MarkPred, Mark!StartSuccs, MarkP!StartSuccs, Mark!MarkSucc, MarkP!MarkSucc,
         Mark!NextBlock, MarkP!NextBlock, Mark!StartIdentify, MarkP!StartIdentify, Mark!TakeBlock,
         MarkP!TakeBlock, Mark!MarkHandle, MarkP!MarkHandle, Mark!MarkReturn, MarkP!MarkReturn,
         Mark!ReturnFromBlocks, MarkP!ReturnFromBlocks, Mark!FlagsBeside, MarkP!FlagsBeside,
         Mark!AllMust, MarkP!AllMust, Mark!AllZero, MarkP!AllZero, Mark!TakeToBlock,
         MarkP!TakeToBlock, Mark!RaiseMust, MarkP!RaiseMust, Mark!EndRaise, MarkP!EndRaise,
         Mark!ReturnFromToBlock, MarkP!ReturnFromToBlock, Mark!TakeFromBlock, MarkP!TakeFromBlock,
         Mark!MergePred, MarkP!MergePred, Mark!StartSpread, MarkP!StartSpread, Mark!Spread,
         MarkP!Spread, Mark!EndSpread, MarkP!EndSpread, Mark!ReturnFromFromBlock,
         MarkP!ReturnFromFromBlock, Mark!SuccFlags, MarkP!SuccFlags, Mark!Disagree, MarkP!Disagree,
         Mark!AddSecurityCheck, MarkP!AddSecurityCheck, Mark!IdentifyBranch, MarkP!IdentifyBranch,
         Mark!Finish, MarkP!Finish, Mark!Done, MarkP!Done, Mark!MarkBlocks, MarkP!MarkBlocks,
         Mark!ToHandleOrReturn, MarkP!ToHandleOrReturn, Mark!ToBlock, MarkP!ToBlock, Mark!FromBlock,
         MarkP!FromBlock, Mark!Identify, MarkP!Identify, Mark!Next, MarkP!Next, Mark!vars,
         MarkP!vars, Mark!control, MarkP!control

LEMMA SameGraphs ==
  ASSUME NEW f
  PROVE  /\ Mark!EdgesOf(f) = MarkP!EdgesOf(f)
         /\ Mark!HandleEdges(f) = MarkP!HandleEdges(f)
         /\ \A S : Mark!Ahead(f, S) = MarkP!Ahead(f, S) /\ Mark!Behind(f, S) = MarkP!Behind(f, S)
  BY DEF Mark!Block, MarkP!Block, Mark!Arcs, MarkP!Arcs, Mark!Out, MarkP!Out, Mark!Dst, MarkP!Dst,
         Mark!EdgeOf, MarkP!EdgeOf, Mark!EdgesOf, MarkP!EdgesOf, Mark!NumSuccessors,
         MarkP!NumSuccessors, Mark!Handled, MarkP!Handled, Mark!HandlersIn, MarkP!HandlersIn,
         Mark!HandledClosed, MarkP!HandledClosed, Mark!HandledBlocks, MarkP!HandledBlocks,
         Mark!HandleEdges, MarkP!HandleEdges, Mark!Ahead, MarkP!Ahead, Mark!Behind, MarkP!Behind

LEMMA SameBodies ==
  ASSUME NEW f
  PROVE  /\ Flow!Origins(f) = FlowP!Origins(f) /\ Flow!ReturnMarks(f) = FlowP!ReturnMarks(f)
         /\ \A i : Flow!OneErrno(f, i) <=> FlowP!OneErrno(f, i)
  BY DEF Flow!Block, FlowP!Block, Flow!Const, FlowP!Const, Flow!IsConstant, FlowP!IsConstant,
         Flow!IsValueErrno, FlowP!IsValueErrno, Flow!Sites, FlowP!Sites, Flow!SameVariables,
         FlowP!SameVariables, Flow!SiteFlag, FlowP!SiteFlag, Flow!OneErrno, FlowP!OneErrno,
         Flow!TestsResult, FlowP!TestsResult, Flow!Marks, FlowP!Marks, Flow!Feeds, FlowP!Feeds,
         Flow!Origins, FlowP!Origins, Flow!ReturnMarks, FlowP!ReturnMarks

-----------------------------------------------------------------------------
(* The two halves start, and go on.                                          *)

LEMMA MarkStart == MarkP!Init => MarkP!MarkInv
  BY MarkP!InitMarkInv, MarkAssumptions

LEMMA MarkStartNext == MarkP!Init' => MarkP!MarkInv'
  BY MarkStart, PTL

LEMMA MarkStep == MarkP!MarkInv /\ Mark!Next => MarkP!MarkInv'
<1>1. MarkP!MarkInv /\ [MarkP!Next]_(MarkP!vars) => MarkP!MarkInv'
  BY MarkP!NextMarkInv, MarkAssumptions
<1> QED
  BY <1>1, SameMarkStep

LEMMA FlowStart == FlowP!Init => FlowP!IInv
  BY FlowP!InitIInv, FlowAssumptions

LEMMA FlowStartNext == FlowP!Init' => FlowP!IInv'
  BY FlowStart, PTL

(* A step of ErrValueFlow that is not Select finds no select, and one that is      *)
(* finds the one it takes.                                                      *)
LEMMA NothingFound ==
  ASSUME Flow!Next, ~Flow!Select
  PROVE  body' = body /\ ErrSelectInstSet' = ErrSelectInstSet /\ FoundHere' = FoundHere
<1>1. body' = body /\ ErrSelectInstSet' = ErrSelectInstSet
  BY ZenonT(60) DEF Flow!Next, Flow!Flow, Flow!CheckReturn, Flow!EndReturns, Flow!Skip, Flow!LoadPhiUnary,
         Flow!VisitSite, Flow!EndSites, Flow!Call, Flow!Binary, Flow!Other, Flow!EndFlow,
         Flow!CheckBlock, Flow!EndBlocks, Flow!Done, Flow!vars
<1>2. \/ PV' = PV
      \/ /\ PV' = PV \cup {Head(EEV)}
         /\ \/ Head(EEV) \in PV \/ Head(EEV) \notin Instr
            \/ body.op[Head(EEV)].kind # "select"
  BY DEF Flow!Next, Flow!Flow, Flow!CheckReturn, Flow!EndReturns, Flow!Skip, Flow!LoadPhiUnary,
         Flow!VisitSite, Flow!EndSites, Flow!Call, Flow!Binary, Flow!Other, Flow!EndFlow,
         Flow!CheckBlock, Flow!EndBlocks, Flow!Done, Flow!vars, Flow!control, Flow!Take
<1>3. body.op[Head(EEV)].kind # "select" => ~Flow!OneErrno(body, Head(EEV))
  BY DEF Flow!OneErrno
<1>4. FoundHere' = {i \in PV' \cap Instr : Flow!OneErrno(body, i)}
  BY <1>1 DEF FoundHere, Flow!OneErrno, Flow!IsValueErrno
<1> QED
  BY <1>1, <1>2, <1>3, <1>4, SMTT(30) DEF FoundHere

LEMMA SelectFound ==
  ASSUME Flow!Select
  PROVE  LET i == Head(EEV)
             values == <<body.op[i].yes, body.op[i].no>>
             errs == {k \in 1 .. 2 : Flow!IsValueErrno(body, values[k])}
             found == IF errs \in {{1}, {2}} THEN {i} ELSE {} IN
         body' = body /\ ErrSelectInstSet' = ErrSelectInstSet \cup found
           /\ FoundHere' = FoundHere \cup found
<1> DEFINE i == Head(EEV)
           values == <<body.op[i].yes, body.op[i].no>>
           errs == {k \in 1 .. 2 : Flow!IsValueErrno(body, values[k])}
<1>1. /\ i \in Instr /\ i \notin PV /\ PV' = PV \cup {i} /\ body' = body
      /\ body.op[i].kind = "select"
  BY ZenonT(60) DEF Flow!Select, Flow!Take
<1>2. ErrSelectInstSet' = IF errs \in {{1}, {2}} THEN ErrSelectInstSet \cup {i} ELSE ErrSelectInstSet
  BY DEF Flow!Select
<1>3. errs \in {{1}, {2}} <=> Flow!OneErrno(body, i)
  <2>1. 1 \in errs <=> Flow!IsValueErrno(body, body.op[i].yes)
    OBVIOUS
  <2>2. 2 \in errs <=> Flow!IsValueErrno(body, body.op[i].no)
    OBVIOUS
  <2>3. errs \subseteq {1, 2}
    OBVIOUS
  <2> HIDE DEF errs
  <2>4. /\ 1 \in errs /\ 2 \notin errs => errs = {1}
        /\ 1 \notin errs /\ 2 \in errs => errs = {2}
    BY <2>3
  <2>5. errs \in {{1}, {2}} <=> (1 \in errs <=> ~(2 \in errs))
    BY <2>4, <2>3
  <2> QED
    BY <1>1, <2>1, <2>2, <2>5 DEF Flow!OneErrno
<1> HIDE DEF errs
<1>4. FoundHere' = {j \in PV' \cap Instr : Flow!OneErrno(body, j)}
  BY <1>1 DEF FoundHere, Flow!OneErrno, Flow!IsValueErrno
<1>5. FoundHere' = FoundHere \cup (IF errs \in {{1}, {2}} THEN {i} ELSE {})
  BY <1>1, <1>3, <1>4, SMTT(60) DEF FoundHere
<1> QED
  BY <1>1, <1>2, <1>5, Zenon DEF errs

LEMMA SameSelect == Flow!Select => FlowP!Select
<1> SUFFICES ASSUME Flow!Select
             PROVE  FlowP!Select
  OBVIOUS
<1>1. FoundHere' = LET i == Head(EEV)
                       values == <<body.op[i].yes, body.op[i].no>>
                       errs == {k \in 1 .. 2 : FlowP!IsValueErrno(body, values[k])} IN
                   IF errs \in {{1}, {2}} THEN FoundHere \cup {i} ELSE FoundHere
  BY SelectFound DEF Flow!IsValueErrno, FlowP!IsValueErrno
<1> QED
  BY <1>1, ZenonT(60) DEF Flow!Select, FlowP!Select, Flow!Block, FlowP!Block, Flow!Const, FlowP!Const,
         Flow!IsConstant, FlowP!IsConstant, Flow!IsValueErrno, FlowP!IsValueErrno, Flow!Sites,
         FlowP!Sites, Flow!SameVariables, FlowP!SameVariables, Flow!Marked, FlowP!Marked, Flow!Take,
         FlowP!Take, Flow!Followed, FlowP!Followed

LEMMA SamePlainStep ==
  ASSUME Flow!Next, ~Flow!Select
  PROVE  FlowP!Next
<1>1. FoundHere' = FoundHere
  BY NothingFound
<1>2. (Flow!CheckReturn => FlowP!CheckReturn) /\ (Flow!EndReturns => FlowP!EndReturns)
  BY <1>1, Zenon DEF Flow!CheckReturn, FlowP!CheckReturn, Flow!EndReturns, FlowP!EndReturns
<1>3. (Flow!Skip => FlowP!Skip) /\ (Flow!EndFlow => FlowP!EndFlow)
  BY <1>1, Zenon DEF Flow!Skip, FlowP!Skip, Flow!EndFlow, FlowP!EndFlow
<1>4. Flow!LoadPhiUnary => FlowP!LoadPhiUnary
  BY <1>1, Zenon DEF Flow!LoadPhiUnary, FlowP!LoadPhiUnary, Flow!Take, FlowP!Take, Flow!Sites, FlowP!Sites
<1>5. Flow!VisitSite => FlowP!VisitSite
  BY <1>1, Zenon DEF Flow!VisitSite, FlowP!VisitSite, Flow!Block, FlowP!Block, Flow!Const, FlowP!Const,
         Flow!IsConstant, FlowP!IsConstant, Flow!IsValueErrno, FlowP!IsValueErrno, Flow!Marked,
         FlowP!Marked
<1>6. Flow!EndSites => FlowP!EndSites
  BY <1>1, Zenon DEF Flow!EndSites, FlowP!EndSites
<1>7. Flow!Call => FlowP!Call
  BY <1>1, Zenon DEF Flow!Call, FlowP!Call, Flow!Take, FlowP!Take, Flow!SameVariables,
                     FlowP!SameVariables, Flow!Marked, FlowP!Marked, Flow!Block, FlowP!Block
<1>8. (Flow!Binary => FlowP!Binary) /\ (Flow!Other => FlowP!Other)
  BY <1>1, Zenon DEF Flow!Binary, FlowP!Binary, Flow!Other, FlowP!Other, Flow!Take, FlowP!Take, Flow!Marked,
         FlowP!Marked, Flow!Block, FlowP!Block
<1>9. (Flow!CheckBlock => FlowP!CheckBlock) /\ (Flow!EndBlocks => FlowP!EndBlocks)
  BY <1>1, Zenon DEF Flow!CheckBlock, FlowP!CheckBlock, Flow!EndBlocks, FlowP!EndBlocks, Flow!Block,
         FlowP!Block, Flow!Marked, FlowP!Marked
<1>10. Flow!Done => FlowP!Done
  BY <1>1, Zenon DEF Flow!Done, FlowP!Done, Flow!vars, FlowP!vars, Flow!control, FlowP!control
<1> QED
  BY <1>2, <1>3, <1>4, <1>5, <1>6, <1>7, <1>8, <1>9, <1>10, ZenonT(60)
     DEF Flow!Next, FlowP!Next, Flow!Flow, FlowP!Flow

LEMMA FlowStep ==
  ASSUME FlowP!IInv, FoundHere \subseteq ErrSelectInstSet, Flow!Next
  PROVE  /\ body' = body /\ FlowP!IInv'
         /\ ErrSelectInstSet' = ErrSelectInstSet \cup FoundHere'
         /\ FoundHere \subseteq FoundHere'
<1>1. FlowP!Next
  BY SameSelect, SamePlainStep DEF FlowP!Next, FlowP!Flow
<1>2. FlowP!IInv /\ [FlowP!Next]_(FlowP!vars) => FlowP!IInv'
  BY FlowP!NextIInv, FlowAssumptions
<1>3. CASE Flow!Select
  <2>1. PICK found : /\ body' = body /\ ErrSelectInstSet' = ErrSelectInstSet \cup found
                     /\ FoundHere' = FoundHere \cup found
    BY <1>3, SelectFound, Zenon
  <2> QED
    BY <1>1, <1>2, <2>1
<1>4. CASE ~Flow!Select
  BY <1>1, <1>2, <1>4, NothingFound
<1> QED
  BY <1>3, <1>4

-----------------------------------------------------------------------------
(* The functions of a program.                                               *)

LEMMA ProgFacts ==
  ASSUME prog \in Programs
  PROVE  /\ prog.succ \in [Block -> Seq(Block)] /\ prog.cond \in [Block -> Block]
         /\ prog.owner \in [Block -> Fun] /\ prog.handlers \subseteq Block
         /\ prog.order \in Seq(Fun) /\ prog.order # <<>> /\ IsInjective(prog.order)
         /\ prog.runs \in Nat \ {0}
         /\ \A b \in Block : \A k \in DOMAIN prog.succ[b] : prog.succ[b][k] # 1
  BY ProgramsAssumption

LEMMA OrderFacts ==
  ASSUME prog \in Programs
  PROVE  /\ Len(prog.order) \in Nat \ {0} /\ DOMAIN prog.order = 1 .. Len(prog.order)
         /\ \A k \in DOMAIN prog.order : prog.order[k] \in Fun
<1>1. prog.order \in Seq(Fun) /\ prog.order # <<>>
  BY ProgFacts
<1>2. Len(prog.order) \in Nat /\ DOMAIN prog.order = 1 .. Len(prog.order)
  BY <1>1, LenProperties
<1>3. Len(prog.order) # 0
  BY <1>1, EmptySeq
<1>4. ASSUME NEW k \in DOMAIN prog.order
      PROVE  prog.order[k] \in Fun
  BY <1>1, <1>2, <1>4, ElementOfSeq
<1> QED
  BY <1>2, <1>3, <1>4

LEMMA BodyLegal ==
  ASSUME prog \in Programs, NEW f \in Fun
  PROVE  BodyOf(f) \in AllBodies
<1>1. /\ prog.succ \in [Block -> Seq(Block)] /\ prog.test \in [Block -> SUBSET Instr]
      /\ prog.home \in [Instr -> Block] /\ prog.op \in [Instr -> Flow!Op]
      /\ prog.stores \subseteq Flow!Store /\ prog.handlers \subseteq Block
      /\ prog.returns[f] \in Seq(Flow!Site) /\ prog.pointer[f] \in BOOLEAN
  BY ProgramsAssumption
<1>2. {b \in prog.handlers : prog.owner[b] = f} \in SUBSET Block
  BY <1>1
<1> QED
  BY <1>1, <1>2 DEF BodyOf, AllBodies

(* What is found depends on the function's own marks only.                     *)
LEMMA SuccOnly ==
  ASSUME NEW f, NEW g, f.succ = g.succ
  PROVE  /\ MarkP!EdgesOf(f) = MarkP!EdgesOf(g)
         /\ \A S : MarkP!Ahead(f, S) = MarkP!Ahead(g, S) /\ MarkP!Behind(f, S) = MarkP!Behind(g, S)
         /\ MarkP!HandlersIn(f) = MarkP!HandlersIn(g) => MarkP!HandleEdges(f) = MarkP!HandleEdges(g)
<1>1. MarkP!EdgesOf(f) = MarkP!EdgesOf(g)
  BY DEF MarkP!EdgesOf, MarkP!Arcs, MarkP!Out, MarkP!EdgeOf, MarkP!Dst
<1>2. \A S : MarkP!Ahead(f, S) = MarkP!Ahead(g, S) /\ MarkP!Behind(f, S) = MarkP!Behind(g, S)
  BY <1>1 DEF MarkP!Ahead, MarkP!Behind
<1>3. ASSUME MarkP!HandlersIn(f) = MarkP!HandlersIn(g)
      PROVE  MarkP!HandleEdges(f) = MarkP!HandleEdges(g)
  <2>1. \A S : MarkP!HandledClosed(f, S) <=> MarkP!HandledClosed(g, S)
    BY <1>3 DEF MarkP!HandledClosed, MarkP!NumSuccessors
  <2>2. MarkP!HandledBlocks(f) = MarkP!HandledBlocks(g)
    BY <2>1 DEF MarkP!HandledBlocks
  <2> QED
    BY <1>1, <2>2 DEF MarkP!HandleEdges
<1> QED
  BY <1>1, <1>2, <1>3

(* ErrValueFlow has done its work on f.                                        *)
LEMMA FlowDone ==
  ASSUME prog \in Programs, NEW f \in Fun, body = BodyOf(f), FlowP!IInv, flowPc = "done"
  PROVE  /\ FoundHere = Returned(f)
         /\ bbErrMap \in [Block -> SUBSET Mark!Flag]
         /\ \A b \in Block :
              /\ \A m \in Flow!ReturnMask :
                   m \in bbErrMap[b] <=> <<b, m>> \in Flow!ReturnMarks(BodyOf(f))
              /\ "Must_Handle_Err" \in bbErrMap[b] <=> b \in prog.handlers /\ prog.owner[b] = f
              /\ "May_Handle_Err" \notin bbErrMap[b]
<1>1. FlowP!SelectsExact
  BY FlowP!SelectsFromInv, FlowAssumptions
<1>2. FoundHere = Returned(f)
  BY <1>1, SameBodies DEF FlowP!SelectsExact, Returned
<1>3. FlowP!TypeOK /\ FlowP!HandlersMarked
  BY DEF FlowP!IInv
<1>4. bbErrMap \in [Block -> SUBSET Mark!Flag]
  BY <1>3 DEF FlowP!TypeOK, FlowP!Block, Block, FlowP!Flag, Mark!Flag
<1>5. FlowP!ReturnMarked = Flow!ReturnMarks(body)
  BY FlowP!AllMarked, FlowAssumptions, SameBodies
<1>6. ASSUME NEW b \in Block, NEW m \in Flow!ReturnMask
      PROVE  m \in bbErrMap[b] <=> <<b, m>> \in Flow!ReturnMarks(BodyOf(f))
  <2>1. <<b, m>> \in FlowP!ReturnMarked <=> m \in FlowP!Returns(bbErrMap[b])
    BY DEF FlowP!ReturnMarked, FlowP!Block, Block
  <2> QED
    BY <1>5, <2>1 DEF FlowP!Returns, FlowP!ReturnMask, Flow!ReturnMask
<1>7. ASSUME NEW b \in Block
      PROVE  /\ "Must_Handle_Err" \in bbErrMap[b] <=> b \in prog.handlers /\ prog.owner[b] = f
             /\ "May_Handle_Err" \notin bbErrMap[b]
  <2>1. FlowP!Handles(bbErrMap[b]) = IF b \in body.handlers THEN {"Must_Handle_Err"} ELSE {}
    BY <1>3 DEF FlowP!HandlersMarked, FlowP!Visited, FlowP!Block, Block
  <2>2. b \in body.handlers <=> b \in prog.handlers /\ prog.owner[b] = f
    BY DEF BodyOf
  <2> QED
    BY <2>1, <2>2 DEF FlowP!Handles, FlowP!HandleMask
<1> QED
  BY <1>2, <1>4, <1>6, <1>7

LEMMA GraphDone ==
  ASSUME prog \in Programs, NEW f \in Fun, body = BodyOf(f), FlowP!IInv, flowPc = "done",
         NEW g, g = GraphOf(f, bbErrMap)
  PROVE  /\ g \in Graphs /\ g.cond = prog.cond /\ g.succ = Graph(f).succ
         /\ MarkP!EdgesOf(g) = Mark!EdgesOf(Graph(f))
         /\ MarkP!HandleEdges(g) = Mark!HandleEdges(Graph(f))
         /\ MarkP!NearMust(g) = Near(f)
<1>1. /\ bbErrMap \in [Block -> SUBSET Mark!Flag]
      /\ \A b \in Block :
           /\ "Must_Return_Err" \in bbErrMap[b]
                <=> <<b, "Must_Return_Err">> \in Flow!ReturnMarks(BodyOf(f))
           /\ "Must_Handle_Err" \in bbErrMap[b] <=> b \in prog.handlers /\ prog.owner[b] = f
           /\ "May_Handle_Err" \notin bbErrMap[b]
  BY FlowDone DEF Flow!ReturnMask
<1>2. /\ g.succ = [b \in Block |-> IF prog.owner[b] = f THEN prog.succ[b] ELSE <<>>]
      /\ g.bbErr = [b \in Block |-> IF prog.owner[b] = f THEN bbErrMap[b] ELSE {}]
      /\ g.cond = prog.cond /\ g.succ = Graph(f).succ
      /\ g = [succ |-> g.succ, bbErr |-> g.bbErr, cond |-> g.cond]
  BY DEF GraphOf, Graph
<1>3. Graph(f).bbErr = [b \in Block |-> IF prog.owner[b] = f
                                        THEN IF b \in prog.handlers THEN {"Must_Handle_Err"} ELSE {}
                                        ELSE {}]
  BY DEF GraphOf, Graph
<1>4. g \in Graphs
  <2>1. <<>> \in Seq(Block) /\ DOMAIN <<>> = {}
    OBVIOUS
  <2>2. /\ g.succ \in [Block -> Seq(Block)] /\ g.bbErr \in [Block -> SUBSET Mark!Flag]
        /\ g.cond \in [Block -> Block]
    BY <1>1, <1>2, <2>1, ProgFacts
  <2>3. \A b \in Block : \A k \in DOMAIN g.succ[b] : g.succ[b][k] # 1
    BY <1>2, <2>1, ProgFacts
  <2>4. \A b \in Block : "May_Handle_Err" \notin g.bbErr[b]
    BY <1>1, <1>2
  <2> HIDE DEF Graphs
  <2>5. g \in [succ : [Block -> Seq(Block)], bbErr : [Block -> SUBSET Mark!Flag],
               cond : [Block -> Block]]
    BY <1>2, <2>2
  <2> QED
    BY <2>3, <2>4, <2>5 DEF Graphs
<1>5. MarkP!HandlersIn(g) = MarkP!HandlersIn(Graph(f))
  BY <1>1, <1>2, <1>3, ZenonT(60) DEF MarkP!HandlersIn, MarkP!Handled, MarkP!Block, Block
<1>6. MarkP!MustIn(g) = MustBlocks(f)
  BY <1>1, <1>2 DEF MarkP!MustIn, MarkP!Must, MarkP!Block, Block, MustBlocks
<1>7. /\ MarkP!EdgesOf(g) = MarkP!EdgesOf(Graph(f))
      /\ \A S : /\ MarkP!Ahead(g, S) = MarkP!Ahead(Graph(f), S)
                /\ MarkP!Behind(g, S) = MarkP!Behind(Graph(f), S)
      /\ MarkP!HandleEdges(g) = MarkP!HandleEdges(Graph(f))
  BY <1>2, <1>5, SuccOnly
<1>8. MarkP!NearMust(g) = Near(f)
  BY <1>6, <1>7, SameGraphs DEF MarkP!NearMust, MarkP!AheadMust, MarkP!BehindMust, Near
<1> QED
  BY <1>2, <1>4, <1>7, <1>8, SameGraphs

(* MarkEdges has done its work on f.                                          *)
LEMMA ChecksDone ==
  ASSUME prog \in Programs, NEW f \in Fun, body = BodyOf(f), FlowP!IInv, flowPc = "done",
         fn = GraphOf(f, bbErrMap), MarkP!MarkInv, markPc = "done"
  PROVE  /\ {prog.cond[b] : b \in Guards(f)} \subseteq {c.cond : c \in checks}
         /\ {c.cond : c \in checks} \subseteq
              {prog.cond[b] : b \in {x \in Guards(f) \cup Near(f) : Len(Graph(f).succ[x]) > 1}}
<1> DEFINE straight == Mark!HandleEdges(Graph(f))
           other == Mark!EdgesOf(Graph(f)) \ straight
<1>1. /\ fn.cond = prog.cond /\ fn.succ = Graph(f).succ
      /\ MarkP!HandleEdges(fn) = straight /\ MarkP!EdgesOf(fn) \ MarkP!HandleEdges(fn) = other
      /\ MarkP!NearMust(fn) = Near(f)
  BY GraphDone
<1>2. MarkP!HandlerGuardsFound
  BY MarkP!GuardsFromInv, MarkAssumptions DEF MarkP!MarkInv
<1>3. Guards(f) = {b \in Block : \E d \in straight, e \in other : d[1] = b /\ e[1] = b}
  BY DEF Guards
<1> HIDE DEF straight, other
<1>4. ASSUME NEW b \in Guards(f)
      PROVE  \E c \in checks : c.cond = prog.cond[b]
  <2>1. PICK d \in straight, e \in other : d[1] = b /\ e[1] = b
    BY <1>3
  <2>2. \E c \in checks : c.cond = fn.cond[d[1]]
    BY <1>1, <1>2, <2>1 DEF MarkP!HandlerGuardsFound
  <2> QED
    BY <1>1, <2>1, <2>2
<1>5. ASSUME NEW c \in checks
      PROVE  /\ c.branch \in Guards(f) \cup Near(f) /\ Len(Graph(f).succ[c.branch]) > 1
             /\ c.cond = prog.cond[c.branch]
  <2>1. /\ c.branch \in Block /\ MarkP!NumSuccessors(fn, c.branch) >= 2
        /\ c.cond = fn.cond[c.branch]
        /\ c.branch \in MarkP!NearMust(fn) \/ MarkP!Separates(fn, c.branch)
    BY DEF MarkP!MarkInv, MarkP!BranchInv, MarkP!CauseInv, MarkP!Block, Block
  <2>2. MarkP!Separates(fn, c.branch) => c.branch \in Guards(f)
    BY <1>1, <1>3, <2>1 DEF MarkP!Separates
  <2>3. Len(Graph(f).succ[c.branch]) > 1
    <3>1. MarkP!TypeOK
      BY DEF MarkP!MarkInv, MarkP!IInv
    <3>2. fn.succ[c.branch] \in Seq(Block)
      BY <2>1, <3>1 DEF MarkP!TypeOK, Graphs
    <3>3. Len(fn.succ[c.branch]) \in Nat
      BY <3>2, LenProperties
    <3> QED
      BY <1>1, <2>1, <3>3 DEF MarkP!NumSuccessors
  <2> QED
    BY <1>1, <2>1, <2>2, <2>3
<1> QED
  BY <1>4, <1>5

-----------------------------------------------------------------------------
(* The steps.                                                                *)

LEMMA InitIInv == Init => IInv
<1> SUFFICES ASSUME Init
             PROVE  IInv
  OBVIOUS
<1>1. prog \in Programs /\ phase = "start" /\ run = 1 /\ n = 1
  BY DEF Init
<1>2. ControlInv
  BY <1>1, OrderFacts, ProgFacts DEF ControlInv
<1>3. Seen = {}
  BY <1>1, OrderFacts DEF Seen
<1>4. SelectsInv
  BY <1>1, <1>3 DEF Init, SelectsInv, ReturnedBy
<1>5. FoundInv
  BY <1>3 DEF Init, FoundInv
<1> QED
  BY <1>1, <1>2, <1>4, <1>5 DEF IInv, FlowHalf, MarkHalf

(* What is said of a program does not change.                                  *)
LEMMA SameProgram ==
  ASSUME prog' = prog
  PROVE  /\ \A f : /\ BodyOf(f)' = BodyOf(f) /\ Graph(f)' = Graph(f) /\ Returned(f)' = Returned(f)
                  /\ MustBlocks(f)' = MustBlocks(f) /\ Guards(f)' = Guards(f) /\ Near(f)' = Near(f)
         /\ \A K : ReturnedBy(K)' = ReturnedBy(K)
         /\ \A f, K : Wanted(f, K)' = Wanted(f, K) /\ Explained(f, K)' = Explained(f, K)
         /\ \A f, S : Owned(f, S)' = Owned(f, S)
<1>1. \A f : BodyOf(f)' = BodyOf(f) /\ Graph(f)' = Graph(f)
  BY DEF BodyOf, Graph, GraphOf
<1>2. \A f : Returned(f)' = Returned(f) /\ MustBlocks(f)' = MustBlocks(f)
  BY <1>1 DEF Returned, MustBlocks
<1>3. \A f : Guards(f)' = Guards(f) /\ Near(f)' = Near(f)
  BY <1>1, <1>2 DEF Guards, Near
<1>4. \A K : ReturnedBy(K)' = ReturnedBy(K)
  BY <1>2 DEF ReturnedBy
<1>5. \A f, K : Wanted(f, K)' = Wanted(f, K) /\ Explained(f, K)' = Explained(f, K)
  BY <1>1, <1>3 DEF Wanted, Explained
<1>6. \A f, S : Owned(f, S)' = Owned(f, S)
  BY DEF Owned
<1> QED
  BY <1>1, <1>2, <1>3, <1>4, <1>5, <1>6

(* What a step that finishes no function leaves as it is.                       *)
SamePlace == UNCHANGED <<prog, run, n, CheckInstSets>> /\ phase # "done" /\ phase' # "done"

LEMMA PlaceKept ==
  ASSUME SamePlace, ControlInv, FoundInv, phase' \in {"blocks", "edges"}
  PROVE  /\ ControlInv' /\ FoundInv' /\ F' = F /\ BodyOf(F)' = BodyOf(F)
         /\ ReturnedBy(Seen)' = ReturnedBy(Seen)
<1>1. ControlInv'
  BY DEF SamePlace, ControlInv
<1>2. Seen' = Seen /\ \A k : Before(k)' = Before(k)
  BY DEF SamePlace, Seen, Before
<1>3. \A k, K : Within(k, K)' <=> Within(k, K)
  BY SameProgram DEF Within, SamePlace
<1>4. FoundInv'
  BY <1>2, <1>3 DEF FoundInv, SamePlace
<1> QED
  BY <1>1, <1>2, <1>4, SameProgram DEF SamePlace, F

LEMMA CurrentFun ==
  ASSUME ControlInv
  PROVE  F \in Fun /\ prog \in Programs
  BY OrderFacts DEF ControlInv, F

LEMMA StartFunctionIInv ==
  ASSUME IInv, StartFunction
  PROVE  IInv'
<1>1. phase = "start" /\ phase' = "blocks" /\ SamePlace /\ ErrSelectInstSet' = ErrSelectInstSet
  BY DEF StartFunction, SamePlace
<1>2. ControlInv' /\ FoundInv' /\ BodyOf(F)' = BodyOf(F) /\ ReturnedBy(Seen)' = ReturnedBy(Seen)
  BY <1>1, PlaceKept DEF IInv
<1>3. body' = BodyOf(F) /\ BodyOf(F) \in AllBodies
  BY CurrentFun, BodyLegal DEF IInv, StartFunction
<1>4. PV' = {} /\ FoundHere' = {}
  BY DEF StartFunction, FoundHere
<1>5. FlowP!Init'
  BY <1>3, <1>4 DEF StartFunction, FlowP!Init, FlowP!Block, Block
<1>6. FlowHalf'
  BY <1>1, <1>2, <1>3, <1>5, FlowStartNext DEF FlowHalf
<1>7. SelectsInv'
  BY <1>1, <1>2, <1>4 DEF IInv, SelectsInv
<1> QED
  BY <1>1, <1>2, <1>6, <1>7 DEF IInv, MarkHalf

LEMMA FindErrBlocksIInv ==
  ASSUME IInv, FindErrBlocks
  PROVE  IInv'
<1>1. phase = "blocks" /\ phase' = "blocks" /\ SamePlace /\ Flow!Next
  BY DEF FindErrBlocks, SamePlace, passVars
<1>2. ControlInv' /\ FoundInv' /\ BodyOf(F)' = BodyOf(F) /\ ReturnedBy(Seen)' = ReturnedBy(Seen)
  BY <1>1, PlaceKept DEF IInv
<1>3. ErrSelectInstSet = ReturnedBy(Seen) \cup FoundHere
  BY <1>1 DEF IInv, SelectsInv
<1>4. /\ body' = body /\ FlowP!IInv' /\ FoundHere \subseteq FoundHere'
      /\ ErrSelectInstSet' = ErrSelectInstSet \cup FoundHere'
  BY <1>1, <1>3, FlowStep DEF IInv, FlowHalf
<1>5. SelectsInv'
  BY <1>1, <1>2, <1>3, <1>4 DEF SelectsInv
<1>6. FlowHalf'
  BY <1>1, <1>2, <1>4 DEF IInv, FlowHalf
<1> QED
  BY <1>1, <1>2, <1>5, <1>6 DEF IInv, MarkHalf

LEMMA FlowRests ==
  ASSUME FlowP!IInv, UNCHANGED flowVars
  PROVE  FlowP!IInv' /\ FoundHere' = FoundHere
<1>1. FoundHere' = FoundHere
  BY DEF flowVars, FoundHere, Flow!OneErrno, Flow!IsValueErrno
<1>2. FlowP!IInv /\ [FlowP!Next]_(FlowP!vars) => FlowP!IInv'
  BY FlowP!NextIInv, FlowAssumptions
<1> QED
  BY <1>1, <1>2 DEF flowVars, FlowP!vars, FlowP!control

LEMMA StartMarkingIInv ==
  ASSUME IInv, StartMarking
  PROVE  IInv'
<1>1. /\ phase = "blocks" /\ phase' = "edges" /\ flowPc = "done" /\ SamePlace
      /\ UNCHANGED flowVars /\ fn' = GraphOf(F, bbErrMap)
  BY DEF StartMarking, SamePlace
<1>2. /\ ControlInv' /\ FoundInv' /\ F' = F /\ BodyOf(F)' = BodyOf(F)
      /\ ReturnedBy(Seen)' = ReturnedBy(Seen)
  BY <1>1, PlaceKept DEF IInv
<1>3. F \in Fun /\ prog \in Programs /\ body = BodyOf(F) /\ FlowP!IInv
  BY <1>1, CurrentFun DEF IInv, FlowHalf
<1>4. FlowP!IInv' /\ FoundHere' = FoundHere
  BY <1>1, <1>3, FlowRests
<1>5. FlowHalf' /\ SelectsInv'
  BY <1>1, <1>2, <1>3, <1>4 DEF IInv, FlowHalf, SelectsInv, flowVars
<1>6. fn' \in Graphs
  BY <1>1, <1>3, GraphDone
<1>7. MarkP!Init'
  BY <1>6 DEF StartMarking, MarkP!Init, MarkP!Edge, MarkP!Block, Block
<1>8. fn' = GraphOf(F, bbErrMap)'
  BY <1>1, <1>2 DEF GraphOf, flowVars, SamePlace
<1>9. MarkHalf'
  BY <1>7, <1>8, MarkStartNext DEF MarkHalf
<1> QED
  BY <1>2, <1>5, <1>9 DEF IInv

LEMMA FindChecksIInv ==
  ASSUME IInv, FindChecks
  PROVE  IInv'
<1>1. /\ phase = "edges" /\ phase' = "edges" /\ SamePlace
      /\ UNCHANGED flowVars /\ Mark!Next
  BY DEF FindChecks, SamePlace, passVars
<1>2. /\ ControlInv' /\ FoundInv' /\ F' = F /\ BodyOf(F)' = BodyOf(F)
      /\ ReturnedBy(Seen)' = ReturnedBy(Seen)
  BY <1>1, PlaceKept DEF IInv
<1>3. /\ body = BodyOf(F) /\ FlowP!IInv /\ flowPc = "done"
      /\ fn = GraphOf(F, bbErrMap) /\ MarkP!MarkInv
  BY <1>1 DEF IInv, FlowHalf, MarkHalf
<1>4. FlowP!IInv' /\ FoundHere' = FoundHere
  BY <1>1, <1>3, FlowRests
<1>5. FlowHalf' /\ SelectsInv'
  BY <1>1, <1>2, <1>3, <1>4 DEF IInv, FlowHalf, SelectsInv, flowVars
<1>6. MarkP!MarkInv'
  BY <1>1, <1>3, MarkStep, SMTT(30)
<1>7. fn' = fn
  BY <1>1 DEF Mark!Next, Mark!MarkBlocks, Mark!NoErrorInBlock, Mark!CallToErrHandle,
     Mark!NoErrHandle, Mark!NoReturnFlag, Mark!StartPreds, Mark!MarkPred, Mark!StartSuccs,
     Mark!MarkSucc, Mark!NextBlock, Mark!StartIdentify, Mark!ToHandleOrReturn, Mark!TakeBlock,
     Mark!MarkHandle, Mark!MarkReturn, Mark!ReturnFromBlocks, Mark!ToBlock, Mark!TakeToBlock,
     Mark!RaiseMust, Mark!EndRaise, Mark!ReturnFromToBlock, Mark!FromBlock, Mark!TakeFromBlock,
     Mark!MergePred, Mark!StartSpread, Mark!Spread, Mark!EndSpread, Mark!ReturnFromFromBlock,
     Mark!Identify, Mark!IdentifyBranch, Mark!Finish, Mark!Done, Mark!vars
<1>8. MarkHalf'
  BY <1>1, <1>2, <1>3, <1>6, <1>7 DEF MarkHalf, GraphOf, flowVars, SamePlace
<1> QED
  BY <1>2, <1>5, <1>8 DEF IInv

(* The end of the n-th function's turn: what is seen then.                       *)
LEMMA TurnOver ==
  ASSUME ControlInv, EndFunction
  PROVE  /\ ControlInv' /\ phase' \in {"start", "done"} /\ prog' = prog
         /\ Seen' = Seen \cup {n}
         /\ \A k \in Seen \cup {n} : Before(k)' = IF k = n THEN Seen \cup {n} ELSE Before(k)
         /\ n \in Seen => Before(n) \subseteq DOMAIN prog.order /\ Seen = DOMAIN prog.order
<1> DEFINE L == Len(prog.order)
           D == DOMAIN prog.order
<1>1. /\ L \in Nat \ {0} /\ D = 1 .. L /\ n \in D /\ prog.runs \in Nat \ {0}
      /\ run \in 1 .. prog.runs /\ prog \in Programs
  BY OrderFacts, ProgFacts DEF ControlInv
<1>2. /\ phase = "edges" /\ prog' = prog
      /\ \/ n < L /\ n' = n + 1 /\ phase' = "start" /\ run' = run
         \/ ~(n < L) /\ run < prog.runs /\ n' = 1 /\ phase' = "start" /\ run' = run + 1
         \/ ~(n < L) /\ ~(run < prog.runs) /\ phase' = "done" /\ n' = n /\ run' = run
  BY DEF EndFunction
<1>3. Seen = {k \in D : run > 1 \/ k < n}
  BY <1>2 DEF Seen
<1>4. \A k : Before(k) = IF run > 2 \/ (run > 1 /\ k < n) THEN D ELSE 1 .. k
  BY <1>2 DEF Before
<1>5. Seen' = {k \in D : phase' = "done" \/ run' > 1 \/ k < n'}
  BY <1>2 DEF Seen
<1>6. \A k : Before(k)' = IF run' > 2 \/ (run' > 1 /\ (k < n' \/ phase' = "done")) THEN D ELSE 1 .. k
  BY <1>2 DEF Before
<1>7. ControlInv'
  <2>1. 1 \in D /\ (n < L => n + 1 \in D)
    BY <1>1
  <2>2. n' \in D /\ run' \in 1 .. prog.runs
    BY <1>1, <1>2, <2>1
  <2>3. phase' = "done" => n' = L /\ run' = prog.runs
    BY <1>1, <1>2
  <2> QED
    BY <1>1, <1>2, <2>2, <2>3 DEF ControlInv
<1> HIDE DEF L, D
<1>8. Seen' = Seen \cup {n}
  BY <1>1, <1>2, <1>3, <1>5
<1>9. \A k : k = n => Before(k)' = Seen \cup {n}
  BY <1>1, <1>2, <1>3, <1>6
<1>10. \A k \in Seen \ {n} : Before(k)' = Before(k)
  BY <1>1, <1>2, <1>3, <1>4, <1>6
<1>11. n \in Seen => Before(n) \subseteq D /\ Seen = D
  BY <1>1, <1>3, <1>4
<1> QED
  BY <1>2, <1>7, <1>8, <1>9, <1>10, <1>11 DEF D

LEMMA Monotone ==
  ASSUME NEW f, NEW J, NEW K, J \subseteq K
  PROVE  Explained(f, Owned(f, ReturnedBy(J))) \subseteq Explained(f, Owned(f, ReturnedBy(K)))
<1>1. Owned(f, ReturnedBy(J)) \subseteq Owned(f, ReturnedBy(K))
  BY DEF Owned, ReturnedBy
<1> QED
  BY <1>1 DEF Explained

LEMMA EndFunctionIInv ==
  ASSUME IInv, EndFunction
  PROVE  IInv'
<1> DEFINE S == Seen \cup {n}
           known == Owned(F, ReturnedBy(S))
<1>1. /\ phase = "edges" /\ markPc = "done" /\ prog' = prog /\ ErrSelectInstSet' = ErrSelectInstSet
      /\ CheckInstSets' = [CheckInstSets EXCEPT ![F] = @ \cup SCSet]
  BY DEF EndFunction, flowVars
<1>2. /\ ControlInv' /\ phase' \in {"start", "done"}
      /\ Seen' = S /\ \A k \in S : Before(k)' = IF k = n THEN S ELSE Before(k)
      /\ n \in Seen => Before(n) \subseteq S
  BY TurnOver DEF IInv
<1>3. /\ F \in Fun /\ prog \in Programs /\ body = BodyOf(F) /\ FlowP!IInv /\ flowPc = "done"
      /\ fn = GraphOf(F, bbErrMap) /\ MarkP!MarkInv
  BY <1>1, CurrentFun DEF IInv, FlowHalf, MarkHalf
<1>4. ErrSelectInstSet = ReturnedBy(S)
  <2>1. ErrSelectInstSet = ReturnedBy(Seen) \cup FoundHere
    BY <1>1 DEF IInv, SelectsInv
  <2>2. FoundHere = Returned(prog.order[n])
    BY <1>3, FlowDone DEF F
  <2>3. ReturnedBy(S) = ReturnedBy(Seen) \cup Returned(prog.order[n])
    BY DEF ReturnedBy
  <2> QED
    BY <2>1, <2>2, <2>3
<1>5. SelectsInv'
  <2>1. \A f : Returned(f)' = Returned(f)
    BY <1>1 DEF Returned, BodyOf
  <2>2. ReturnedBy(Seen)' = ReturnedBy(S)
    BY <1>1, <1>2, <2>1 DEF ReturnedBy
  <2> QED
    BY <1>1, <1>2, <1>4, <2>2 DEF SelectsInv
<1>6. Wanted(F, known) \subseteq SCSet /\ SCSet \subseteq Explained(F, known)
  <2>1. Selects(F) = known
    BY <1>4 DEF Selects, Owned
  <2>2. SCSet = {c.cond : c \in checks} \cup {prog.selectCond[i] : i \in known}
    BY <2>1 DEF SCSet
  <2> HIDE DEF known
  <2> QED
    BY <1>1, <1>3, <2>2, ChecksDone DEF Wanted, Explained
<1>7. CheckInstSets[F] \subseteq Explained(F, known)
  <2>1. CASE n \in Seen
    <3>1. CheckInstSets[F] \subseteq Explained(F, Owned(F, ReturnedBy(Before(n))))
      BY <2>1 DEF IInv, FoundInv, Within, F
    <3> QED
      BY <1>2, <2>1, <3>1, Monotone
  <2>2. CASE n \notin Seen
    <3>1. ASSUME NEW k \in Seen, F = prog.order[k]
          PROVE  FALSE
      BY <1>3, <2>2, <3>1, ProgFacts DEF F, IInv, ControlInv, IsInjective, Seen
    <3> QED
      BY <1>3, <3>1 DEF IInv, FoundInv
  <2> QED
    BY <2>1, <2>2
<1>8. CheckInstSets'[F] = CheckInstSets[F] \cup SCSet
      /\ \A f \in Fun \ {F} : CheckInstSets'[f] = CheckInstSets[f]
  BY <1>1, <1>3 DEF IInv, FoundInv
<1>9. ASSUME NEW k \in S
      PROVE  LET f == prog.order[k]
                 mine == Owned(f, ReturnedBy(Before(k)')) IN
             Wanted(f, mine) \subseteq CheckInstSets'[f] /\ CheckInstSets'[f] \subseteq Explained(f, mine)
  <2> DEFINE f == prog.order[k]
  <2>1. /\ f \in Fun /\ k \in DOMAIN prog.order /\ n \in DOMAIN prog.order
        /\ IsInjective(prog.order)
    BY <1>3, OrderFacts, ProgFacts DEF Seen, IInv, ControlInv
  <2>2. CASE k = n
    <3>1. f = F /\ Before(k)' = S
      BY <1>2, <2>2 DEF F
    <3> HIDE DEF f
    <3> QED
      BY <1>6, <1>7, <1>8, <3>1 DEF Wanted, f
  <2>3. CASE k # n
    <3>1. f # F
      BY <2>1, <2>3 DEF F, IsInjective
    <3>2. CheckInstSets'[f] = CheckInstSets[f] /\ Before(k)' = Before(k) /\ k \in Seen
      BY <1>2, <1>8, <2>1, <2>3, <3>1
    <3> QED
      BY <3>2 DEF IInv, FoundInv, Within
  <2> QED
    BY <2>2, <2>3
<1>10. \A k \in Seen' : Within(k, Before(k))'
  BY <1>1, <1>2, <1>9, SameProgram DEF Within
<1>11. FoundInv'
  <2>1. SCSet \subseteq Block
    <3>1. \A c \in checks : c.cond \in Block
      BY <1>3 DEF MarkP!MarkInv, MarkP!IInv, MarkP!TypeOK, MarkP!SecurityCheck, MarkP!Block, Block
    <3>2. \A f : Returned(f) \subseteq Instr
      BY DEF Returned, Flow!Origins
    <3>3. Selects(F) \subseteq Instr
      BY <1>4, <3>2 DEF Selects, ReturnedBy
    <3>4. \A i \in Instr : prog.selectCond[i] \in Block
      BY <1>3, ProgramsAssumption
    <3> QED
      BY <3>1, <3>3, <3>4 DEF SCSet
  <2>2. CheckInstSets' \in [Fun -> SUBSET Block]
    BY <1>1, <2>1 DEF IInv, FoundInv
  <2>3. ASSUME NEW f \in Fun, CheckInstSets'[f] # {}
        PROVE  \E k \in Seen' : f = prog'.order[k]
    BY <1>1, <1>2, <1>8, <2>3 DEF IInv, FoundInv, F
  <2> QED
    BY <1>10, <2>2, <2>3 DEF FoundInv
<1> QED
  BY <1>1, <1>2, <1>5, <1>11 DEF IInv, FlowHalf, MarkHalf

LEMMA NextIInv == IInv /\ [Next]_vars => IInv'
<1> SUFFICES ASSUME IInv, [Next]_vars
             PROVE  IInv'
  OBVIOUS
<1>1. CASE UNCHANGED vars
  <2>1. UNCHANGED <<prog, phase, run, n, CheckInstSets>> /\ UNCHANGED flowVars /\ UNCHANGED markVars
    BY <1>1 DEF vars, passVars
  <2>2. ControlInv'
    BY <2>1 DEF IInv, ControlInv
  <2>3. FoundHere' = FoundHere /\ (FlowP!IInv => FlowP!IInv')
    BY <2>1, FlowRests DEF flowVars, FoundHere, Flow!OneErrno, Flow!IsValueErrno
  <2>4. MarkP!MarkInv => MarkP!MarkInv'
    <3>1. MarkP!MarkInv /\ [MarkP!Next]_(MarkP!vars) => MarkP!MarkInv'
      BY MarkP!NextMarkInv, MarkAssumptions
    <3> QED
      BY <2>1, <3>1 DEF markVars, MarkP!vars, MarkP!control
  <2>5. FlowHalf' /\ MarkHalf'
    BY <2>1, <2>3, <2>4 DEF IInv, FlowHalf, MarkHalf, flowVars, markVars, BodyOf, GraphOf, F
  <2>6. Seen' = Seen /\ \A k : Before(k)' = Before(k)
    BY <2>1 DEF Seen, Before
  <2>7. SelectsInv'
    BY <2>1, <2>3, <2>6, SameProgram DEF IInv, SelectsInv, flowVars
  <2>8. \A k, K : Within(k, K)' <=> Within(k, K)
    BY <2>1, SameProgram DEF Within
  <2>9. FoundInv'
    BY <2>1, <2>6, <2>8 DEF IInv, FoundInv
  <2> QED
    BY <2>2, <2>5, <2>7, <2>9 DEF IInv
<1> QED
  BY <1>1, StartFunctionIInv, FindErrBlocksIInv, StartMarkingIInv, FindChecksIInv, EndFunctionIInv
     DEF Next, Done

LEMMA Inductive == Spec => []IInv
  BY InitIInv, NextIInv, PTL DEF Spec

-----------------------------------------------------------------------------
(* When the pass is done, the last turn of f has found the selects Known(f).      *)
LEMMA KnownAtEnd ==
  ASSUME ControlInv, phase = "done", NEW m \in DOMAIN prog.order
  PROVE  Owned(prog.order[m], ReturnedBy(Before(m))) = Known(prog.order[m])
<1> DEFINE f == prog.order[m]
           L == Len(prog.order)
           D == DOMAIN prog.order
           before == IF prog.runs > 1 THEN D
                     ELSE {k \in D : f \in Range(SubSeq(prog.order, k, L))}
<1>1. /\ L \in Nat /\ D = 1 .. L /\ IsInjective(prog.order) /\ prog.runs \in Nat \ {0}
      /\ run = prog.runs /\ \A k \in D : prog.order[k] \in Fun
  BY OrderFacts, ProgFacts DEF ControlInv
<1>2. ASSUME NEW k \in D
      PROVE  f \in Range(SubSeq(prog.order, k, L)) <=> k <= m
  <2>1. \A i \in k .. L : prog.order[i] \in Fun
    BY <1>1
  <2> DEFINE s == SubSeq(prog.order, k, L)
  <2>2. s \in Seq(Fun) /\ Len(s) = L - k + 1 /\ \A i \in 1 .. L - k + 1 : s[i] = prog.order[k + i - 1]
    BY <1>1, <2>1, SubSeqProperties, SMTT(30)
  <2> HIDE DEF s
  <2>3. Range(s) = {s[i] : i \in 1 .. L - k + 1}
    <3>1. DOMAIN s = 1 .. L - k + 1
      BY <2>2, LenProperties
    <3> QED
      BY <3>1 DEF Range
  <2>4. ASSUME k <= m
        PROVE  f \in Range(s)
    <3>1. m - k + 1 \in 1 .. L - k + 1 /\ k + (m - k + 1) - 1 = m
      BY <1>1, <2>4
    <3> QED
      BY <2>2, <2>3, <3>1
  <2>5. ASSUME f \in Range(s)
        PROVE  k <= m
    <3>1. PICK i \in 1 .. L - k + 1 : f = s[i]
      BY <2>3, <2>5
    <3>2. k + i - 1 \in D /\ k <= k + i - 1
      BY <1>1
    <3>3. k + i - 1 = m
      BY <1>1, <2>2, <3>1, <3>2 DEF IsInjective
    <3> QED
      BY <3>2, <3>3
  <2> QED
    BY <2>4, <2>5 DEF s
<1>3. Before(m) = before
  <2>1. Before(m) = IF prog.runs > 1 THEN D ELSE 1 .. m
    BY <1>1 DEF Before
  <2>2. {k \in D : f \in Range(SubSeq(prog.order, k, L))} = 1 .. m
    <3>1. \A k : k \in {j \in D : f \in Range(SubSeq(prog.order, j, L))} <=> k \in D /\ k <= m
      BY <1>2
    <3> HIDE DEF f
    <3>2. \A k : k \in D /\ k <= m <=> k \in 1 .. m
      BY <1>1
    <3> QED
      BY <3>1, <3>2
  <2> QED
    BY <2>1, <2>2
<1> HIDE DEF before
<1>4. Known(f) = {i \in UNION {Returned(prog.order[k]) : k \in before} : prog.owner[prog.home[i]] = f}
  BY DEF Known, before
<1> QED
  BY <1>3, <1>4 DEF Owned, ReturnedBy

LEMMA FoundAtEnd ==
  ASSUME IInv, phase = "done", NEW f \in Analysed
  PROVE  Wanted(f, Known(f)) \subseteq CheckInstSets[f] /\ CheckInstSets[f] \subseteq Explained(f, Known(f))
<1>1. PICK m \in DOMAIN prog.order : f = prog.order[m]
  BY DEF Analysed, Range
<1>2. m \in Seen
  BY DEF Seen
<1>3. Within(m, Before(m))
  BY <1>2 DEF IInv, FoundInv
<1>4. Owned(f, ReturnedBy(Before(m))) = Known(f)
  BY <1>1, KnownAtEnd DEF IInv
<1> QED
  BY <1>1, <1>3, <1>4 DEF Within

(* Of every program, and however often the pass is run, the branches that guard a     *)
(* handler are found and the selects of one error code that were known when the       *)
(* function had its last turn.                                                     *)
THEOREM ChecksFoundHolds == Spec => []ChecksFound
<1>1. IInv => ChecksFound
  BY FoundAtEnd DEF ChecksFound, Wanted
<1> QED
  BY <1>1, Inductive, PTL

(* And nothing else is found, but branches on a path with a block that a returned      *)
(* error marks.                                                                    *)
THEOREM ChecksExplainedHolds == Spec => []ChecksExplained
<1>1. IInv => ChecksExplained
  BY FoundAtEnd DEF ChecksExplained, Explained
<1> QED
  BY <1>1, Inductive, PTL

-----------------------------------------------------------------------------
(* Every run finds the same.                                                  *)

(* What bbErrMap is for f in the end.                                          *)
Flags(f) ==
  [b \in Block |->
     {m \in Flow!ReturnMask : <<b, m>> \in Flow!ReturnMarks(BodyOf(f))}
       \cup (IF b \in prog.handlers /\ prog.owner[b] = f THEN {"Must_Handle_Err"} ELSE {})]

FoundOnce(f, S) ==
  \E g, c : /\ MarkP!Ended(GraphOf(f, Flags(f)), g, c)
            /\ S = {x.cond : x \in c} \cup {prog.selectCond[i] : i \in Returned(f)}

LEMMA OnlyOne ==
  ASSUME NEW f, NEW S, NEW T, FoundOnce(f, S), FoundOnce(f, T)
  PROVE  S = T
<1>1. PICK g, c : /\ MarkP!Ended(GraphOf(f, Flags(f)), g, c)
                  /\ S = {x.cond : x \in c} \cup {prog.selectCond[i] : i \in Returned(f)}
  BY DEF FoundOnce
<1>2. PICK h, d : /\ MarkP!Ended(GraphOf(f, Flags(f)), h, d)
                  /\ T = {x.cond : x \in d} \cup {prog.selectCond[i] : i \in Returned(f)}
  BY DEF FoundOnce
<1>3. c = d
  BY <1>1, <1>2, MarkP!EndedOnce, MarkAssumptions
<1> QED
  BY <1>1, <1>2, <1>3

LEMMA FlagsDone ==
  ASSUME prog \in Programs, NEW f \in Fun, body = BodyOf(f), FlowP!IInv, flowPc = "done"
  PROVE  bbErrMap = Flags(f)
<1>1. /\ bbErrMap \in [Block -> SUBSET Mark!Flag]
      /\ \A b \in Block :
           /\ \A m \in Flow!ReturnMask :
                m \in bbErrMap[b] <=> <<b, m>> \in Flow!ReturnMarks(BodyOf(f))
           /\ "Must_Handle_Err" \in bbErrMap[b] <=> b \in prog.handlers /\ prog.owner[b] = f
           /\ "May_Handle_Err" \notin bbErrMap[b]
  BY FlowDone
<1>2. Mark!Flag = Flow!ReturnMask \cup {"Must_Handle_Err", "May_Handle_Err"}
  BY DEF Mark!Flag, Flow!ReturnMask
<1>3. "Must_Handle_Err" \notin Flow!ReturnMask
  BY DEF Flow!ReturnMask
<1>4. ASSUME NEW b \in Block
      PROVE  bbErrMap[b] = Flags(f)[b]
  <2>1. bbErrMap[b] \subseteq Flow!ReturnMask \cup {"Must_Handle_Err", "May_Handle_Err"}
    BY <1>1, <1>2
  <2>2. Flags(f)[b] = {m \in Flow!ReturnMask : m \in bbErrMap[b]}
                        \cup (IF "Must_Handle_Err" \in bbErrMap[b] THEN {"Must_Handle_Err"} ELSE {})
    BY <1>1 DEF Flags
  <2> QED
    BY <1>1, <2>1, <2>2
<1>5. bbErrMap \in [Block -> SUBSET Mark!Flag] /\ DOMAIN Flags(f) = Block
  BY <1>1 DEF Flags
<1>6. Flags(f) = [b \in Block |-> Flags(f)[b]]
  BY DEF Flags
<1> HIDE DEF Flags
<1> QED
  BY <1>4, <1>5, <1>6

(* SameInAllRuns leaves no flow graph on which the order of predecessors matters.   *)
LEMMA GraphOrderly ==
  ASSUME prog \in Programs, NEW f \in Fun, body = BodyOf(f), FlowP!IInv, flowPc = "done",
         NEW g, g = GraphOf(f, bbErrMap), SameInAllRuns, f \in Analysed
  PROVE  MarkP!Orderly(g)
<1>1. g \in Graphs /\ MarkP!EdgesOf(g) = Mark!EdgesOf(Graph(f))
  BY GraphDone
<1>2. MarkP!TwoWay(g)
  BY <1>1 DEF SameInAllRuns, Mark!TwoWay, MarkP!TwoWay
<1>3. ASSUME NEW b \in Block
      PROVE  MarkP!OneFlag(g.bbErr[b])
  <2>1. "May_Handle_Err" \notin g.bbErr[b]
    BY <1>1 DEF Graphs
  <2>2. ASSUME "Must_Return_Err" \in g.bbErr[b], "May_Return_Err" \in g.bbErr[b]
        PROVE  FALSE
    <3>1. g.bbErr[b] = IF prog.owner[b] = f THEN bbErrMap[b] ELSE {}
      BY DEF GraphOf
    <3>2. "Must_Return_Err" \in bbErrMap[b] /\ "May_Return_Err" \in bbErrMap[b]
      BY <2>2, <3>1
    <3>3. /\ <<b, "Must_Return_Err">> \in Flow!ReturnMarks(BodyOf(f))
          /\ <<b, "May_Return_Err">> \in Flow!ReturnMarks(BodyOf(f))
      BY <3>2, FlowDone DEF Flow!ReturnMask
    <3> DEFINE marks == {m[2] : m \in {x \in Flow!ReturnMarks(BodyOf(f)) : x[1] = b}}
    <3>4. "Must_Return_Err" \in marks /\ "May_Return_Err" \in marks
      BY <3>3
    <3>5. Flow!ReturnMask \subseteq marks
      BY <3>4 DEF Flow!ReturnMask
    <3> QED
      BY <3>5 DEF SameInAllRuns
  <2> QED
    BY <2>1, <2>2 DEF MarkP!OneFlag, MarkP!Must, MarkP!May
<1> QED
  BY <1>2, <1>3 DEF MarkP!Orderly, MarkP!Block, Block

(* A function's selects are its own then.                                       *)
LEMMA OwnSelects ==
  ASSUME ControlInv, SameInAllRuns, NEW K \in SUBSET DOMAIN prog.order, n \in K
  PROVE  Owned(F, ReturnedBy(K)) = Returned(F)
<1>1. ASSUME NEW k \in K, NEW i \in Returned(prog.order[k])
      PROVE  prog.owner[prog.home[i]] = prog.order[k]
  <2>1. prog.order[k] \in Analysed
    BY DEF Analysed, Range
  <2>2. i \in Flow!Origins(BodyOf(prog.order[k]))
    BY <1>1 DEF Returned
  <2> QED
    BY <2>1, <2>2 DEF SameInAllRuns
<1>2. Owned(F, ReturnedBy(K)) \subseteq Returned(F)
  <2> SUFFICES ASSUME NEW i \in Owned(F, ReturnedBy(K))
               PROVE  i \in Returned(F)
    OBVIOUS
  <2>1. PICK k \in K : i \in Returned(prog.order[k])
    BY DEF Owned, ReturnedBy
  <2>2. prog.order[k] = F
    BY <1>1, <2>1 DEF Owned
  <2> QED
    BY <2>1, <2>2
<1>3. Returned(F) \subseteq Owned(F, ReturnedBy(K))
  <2> SUFFICES ASSUME NEW i \in Returned(F)
               PROVE  i \in Owned(F, ReturnedBy(K))
    OBVIOUS
  <2>1. prog.owner[prog.home[i]] = F
    BY <1>1 DEF F
  <2> QED
    BY <2>1 DEF Owned, ReturnedBy, F
<1> QED
  BY <1>2, <1>3

(* The checks C holds for the functions of K, as pairs of function and condition.    *)
Pairs(C, K) == {x \in Analysed \X Block : x[2] \in C[x[1]] /\ \E k \in K : x[1] = prog.order[k]}

AllTurns == DOMAIN prog.order

CountInv ==
  SameInAllRuns =>
    /\ \A k \in Seen : FoundOnce(prog.order[k], CheckInstSets[prog.order[k]])
    /\ NumSecurityChecks =
         IF phase = "done" THEN run * Cardinality(Pairs(CheckInstSets, AllTurns))
         ELSE (run - 1) * Cardinality(Pairs(CheckInstSets, AllTurns)) + Cardinality(Pairs(CheckInstSets, 1 .. n - 1))

LEMMA PairsFinite ==
  ASSUME ControlInv, NEW C, NEW K
  PROVE  IsFiniteSet(Pairs(C, K)) /\ Cardinality(Pairs(C, K)) \in Nat
<1>1. DOMAIN prog.order = 1 .. Len(prog.order) /\ Len(prog.order) \in Nat
  BY OrderFacts DEF ControlInv
<1>2. IsFiniteSet(DOMAIN prog.order)
  BY <1>1, FS_Interval
<1>3. prog.order \in Surjection(DOMAIN prog.order, Analysed)
  <2>1. prog.order \in [DOMAIN prog.order -> Analysed]
    <3>1. prog.order \in Seq(Fun)
      BY ProgFacts DEF ControlInv
    <3>2. prog.order = [k \in DOMAIN prog.order |-> prog.order[k]]
      BY <3>1
    <3>3. \A k \in DOMAIN prog.order : prog.order[k] \in Analysed
      BY DEF Analysed, Range
    <3> QED
      BY <3>2, <3>3
  <2> QED
    BY <2>1 DEF Surjection, Analysed, Range
<1>4. IsFiniteSet(Analysed)
  BY <1>2, <1>3, FS_Surjection
<1>5. IsFiniteSet(Block)
  BY NAssumption, FS_Interval DEF Block
<1>6. IsFiniteSet(Analysed \X Block)
  BY <1>4, <1>5, FS_Product
<1>7. Pairs(C, K) \in SUBSET (Analysed \X Block)
  BY DEF Pairs
<1>8. IsFiniteSet(Pairs(C, K))
  BY <1>6, <1>7, FS_Subset
<1> QED
  BY <1>8, FS_CardinalityType

LEMMA OneMore ==
  ASSUME NEW S, NEW f, NEW T, IsFiniteSet(S), IsFiniteSet(T), \A x \in S : x[1] # f
  PROVE  Cardinality(S \cup ({f} \X T)) = Cardinality(S) + Cardinality(T)
<1> DEFINE g == [x \in T |-> <<f, x>>]
<1>1. g \in Bijection(T, {f} \X T)
  <2>1. g \in [T -> {f} \X T]
    OBVIOUS
  <2>2. \A x, y \in T : g[x] = g[y] => x = y
    OBVIOUS
  <2>3. \A y \in {f} \X T : \E x \in T : g[x] = y
    OBVIOUS
  <2>4. DOMAIN g = T
    OBVIOUS
  <2> HIDE DEF g
  <2> QED
    BY <2>1, <2>2, <2>3, <2>4 DEF Bijection, Injection, Surjection, IsInjective
<1>2. ExistsBijection(T, {f} \X T)
  BY <1>1 DEF ExistsBijection
<1>3. IsFiniteSet({f} \X T) /\ Cardinality({f} \X T) = Cardinality(T)
  BY <1>2, FS_Bijection
<1>4. S \cap ({f} \X T) = {}
  OBVIOUS
<1>5. Cardinality(S \cup ({f} \X T)) =
        Cardinality(S) + Cardinality({f} \X T) - Cardinality(S \cap ({f} \X T))
  BY <1>3, FS_Union
<1>6. Cardinality(S) \in Nat /\ Cardinality(T) \in Nat /\ Cardinality({}) = 0
  BY FS_CardinalityType, FS_EmptySet
<1>7. Cardinality(S \cap ({f} \X T)) = 0
  BY <1>4, <1>6
<1> QED
  BY <1>3, <1>5, <1>6, <1>7

LEMMA InitCount == Init => CountInv
<1> SUFFICES ASSUME Init
             PROVE  CountInv
  OBVIOUS
<1>1. /\ prog \in Programs /\ phase = "start" /\ run = 1 /\ n = 1 /\ NumSecurityChecks = 0
      /\ \A f \in Fun : CheckInstSets[f] = {}
  BY DEF Init
<1>2. ControlInv /\ Seen = {}
  BY <1>1, InitIInv, OrderFacts DEF IInv, Seen
<1>3. Pairs(CheckInstSets, 1 .. n - 1) = {}
  BY <1>1 DEF Pairs
<1>4. Cardinality(Pairs(CheckInstSets, 1 .. n - 1)) = 0
  BY <1>3, FS_EmptySet
<1>5. Cardinality(Pairs(CheckInstSets, AllTurns)) \in Nat
  BY <1>2, PairsFinite
<1>6. NumSecurityChecks = (run - 1) * Cardinality(Pairs(CheckInstSets, AllTurns))
                            + Cardinality(Pairs(CheckInstSets, 1 .. n - 1))
  BY <1>1, <1>4, <1>5
<1> QED
  BY <1>1, <1>2, <1>6 DEF CountInv

(* What the n-th function's turn adds.                                           *)
LEMMA TurnCounted ==
  ASSUME IInv, EndFunction, SameInAllRuns, CountInv, FoundOnce(F, SCSet)
  PROVE  /\ CheckInstSets'[F] = SCSet /\ \A f \in Fun \ {F} : CheckInstSets'[f] = CheckInstSets[f]
         /\ run > 1 => CheckInstSets' = CheckInstSets
         /\ Cardinality(Pairs(CheckInstSets', 1 .. n)) =
              Cardinality(Pairs(CheckInstSets, 1 .. n - 1)) + Counted(SCSet)
<1>1. /\ phase = "edges" /\ markPc = "done" /\ prog' = prog
      /\ CheckInstSets' = [CheckInstSets EXCEPT ![F] = @ \cup SCSet]
  BY DEF EndFunction
<1>2. /\ F \in Fun /\ prog \in Programs /\ n \in DOMAIN prog.order /\ F = prog.order[n]
      /\ IsInjective(prog.order) /\ CheckInstSets \in [Fun -> SUBSET Block]
      /\ DOMAIN prog.order = 1 .. Len(prog.order) /\ Len(prog.order) \in Nat
      /\ \A k \in DOMAIN prog.order : prog.order[k] \in Fun
      /\ F \in Analysed
  BY CurrentFun, OrderFacts, ProgFacts DEF F, IInv, ControlInv, FoundInv, Analysed, Range
<1>3. CheckInstSets[F] = IF n \in Seen THEN SCSet ELSE {}
  <2>1. CASE n \in Seen
    <3>1. FoundOnce(F, CheckInstSets[F])
      BY <1>2, <2>1 DEF CountInv
    <3>2. CheckInstSets[F] = SCSet
      BY <3>1, OnlyOne
    <3> QED
      BY <2>1, <3>2
  <2>2. CASE n \notin Seen
    <3>1. ASSUME NEW k \in Seen, F = prog.order[k]
          PROVE  FALSE
      BY <1>2, <2>2, <3>1 DEF IsInjective, Seen
    <3> QED
      BY <1>2, <2>2, <3>1 DEF IInv, FoundInv
  <2> QED
    BY <2>1, <2>2
<1>4. run > 1 => n \in Seen
  BY <1>2 DEF Seen
<1>5. CheckInstSets'[F] = SCSet /\ \A f \in Fun \ {F} : CheckInstSets'[f] = CheckInstSets[f]
  BY <1>1, <1>2, <1>3
<1>6. run > 1 => CheckInstSets' = CheckInstSets
  BY <1>1, <1>2, <1>3, <1>4
<1>7. SCSet \subseteq Block
  <2>1. IInv'
    BY EndFunctionIInv
  <2>2. CheckInstSets' \in [Fun -> SUBSET Block]
    BY <2>1 DEF IInv, FoundInv
  <2> QED
    BY <1>2, <1>5, <2>2
<1>8. IsFiniteSet(SCSet)
  <2>1. IsFiniteSet(Block)
    BY NAssumption, FS_Interval DEF Block
  <2> QED
    BY <1>7, <2>1, FS_Subset
<1>9. \A k \in 1 .. n - 1 : k \in DOMAIN prog.order /\ prog.order[k] # F
  <2>1. \A k \in 1 .. n - 1 : k \in DOMAIN prog.order /\ k # n
    BY <1>2
  <2> QED
    BY <1>2, <2>1 DEF IsInjective
<1>10. \A k : k \in 1 .. n <=> k \in 1 .. n - 1 \/ k = n
  BY <1>2
<1>11. ASSUME NEW f \in Analysed, NEW c \in Block
       PROVE  <<f, c>> \in Pairs(CheckInstSets', 1 .. n) <=>
                <<f, c>> \in Pairs(CheckInstSets, 1 .. n - 1) \/ (f = F /\ c \in SCSet)
  <2>1. <<f, c>> \in Pairs(CheckInstSets', 1 .. n) <=>
          c \in CheckInstSets'[f] /\ \E k \in 1 .. n : f = prog.order[k]
    BY DEF Pairs
  <2>2. <<f, c>> \in Pairs(CheckInstSets, 1 .. n - 1) <=>
          c \in CheckInstSets[f] /\ \E k \in 1 .. n - 1 : f = prog.order[k]
    BY DEF Pairs
  <2>3. CASE f = F
    BY <1>2, <1>5, <1>9, <1>10, <2>1, <2>2, <2>3
  <2>4. CASE f # F
    <3>1. f \in Fun
      BY <1>2 DEF Analysed, Range
    <3>2. CheckInstSets'[f] = CheckInstSets[f]
      BY <1>5, <2>4, <3>1
    <3>3. (\E k \in 1 .. n : f = prog.order[k]) <=> (\E k \in 1 .. n - 1 : f = prog.order[k])
      BY <1>2, <1>10, <2>4
    <3> QED
      BY <2>1, <2>2, <2>4, <3>2, <3>3
  <2> QED
    BY <2>3, <2>4
<1>12. /\ Pairs(CheckInstSets', 1 .. n) \subseteq Analysed \X Block
       /\ Pairs(CheckInstSets, 1 .. n - 1) \subseteq Analysed \X Block
       /\ {F} \X SCSet \subseteq Analysed \X Block
  BY <1>2, <1>7 DEF Pairs
<1>13. Pairs(CheckInstSets', 1 .. n) = Pairs(CheckInstSets, 1 .. n - 1) \cup ({F} \X SCSet)
  <2> DEFINE A == Pairs(CheckInstSets', 1 .. n)
             B == Pairs(CheckInstSets, 1 .. n - 1)
             T == SCSet
  <2>1. \A f \in Analysed, c \in Block : <<f, c>> \in A <=> <<f, c>> \in B \/ (f = F /\ c \in T)
    BY <1>11
  <2>2. A \subseteq Analysed \X Block /\ B \subseteq Analysed \X Block /\ {F} \X T \subseteq Analysed \X Block
    BY <1>12
  <2> HIDE DEF A, B, T
  <2>3. A \subseteq B \cup ({F} \X T)
    BY <2>1, <2>2
  <2>4. B \subseteq A
    BY <2>1, <2>2
  <2>5. {F} \X T \subseteq A
    BY <2>1, <2>2
  <2>6. A = B \cup ({F} \X T)
    BY <2>3, <2>4, <2>5
  <2> QED
    BY <2>6 DEF A, B, T
<1>14. \A x \in Pairs(CheckInstSets, 1 .. n - 1) : x[1] # F
  BY <1>9 DEF Pairs
<1>15. IsFiniteSet(Pairs(CheckInstSets, 1 .. n - 1))
  BY PairsFinite DEF IInv
<1>16. Cardinality(Pairs(CheckInstSets, 1 .. n - 1) \cup ({F} \X SCSet)) =
         Cardinality(Pairs(CheckInstSets, 1 .. n - 1)) + Cardinality(SCSet)
  BY <1>8, <1>14, <1>15, OneMore, ZenonT(60)
<1> QED
  BY <1>5, <1>6, <1>13, <1>16 DEF Counted

(* While a function is marked, its run is one of those that end alike.              *)
MarkOrder == phase = "edges" => MarkP!OrderInv /\ MarkP!ListedInv

LEMMA TurnEnds ==
  ASSUME IInv, MarkOrder, phase = "edges", markPc = "done", SameInAllRuns
  PROVE  FoundOnce(F, SCSet)
<1>1. /\ F \in Fun /\ F \in Analysed /\ prog \in Programs /\ n \in DOMAIN prog.order
      /\ body = BodyOf(F) /\ FlowP!IInv /\ flowPc = "done"
      /\ fn = GraphOf(F, bbErrMap) /\ MarkP!MarkInv
      /\ MarkP!OrderInv /\ MarkP!ListedInv
  BY CurrentFun DEF IInv, ControlInv, FlowHalf, MarkHalf, MarkOrder, Analysed, Range, F
<1>2. fn = GraphOf(F, Flags(F))
  BY <1>1, FlagsDone
<1>3. MarkP!Orderly(fn)
  BY <1>1, GraphOrderly
<1>4. MarkP!Ended(fn, edgeErr, checks)
  BY <1>1, <1>3, MarkP!RunEnds, MarkAssumptions
<1>5. Selects(F) = Returned(F)
  <2> DEFINE S == Seen \cup {n}
  <2>1. S \in SUBSET DOMAIN prog.order /\ n \in S
    BY <1>1 DEF Seen
  <2>2. ErrSelectInstSet = ReturnedBy(Seen) \cup FoundHere
    BY DEF IInv, SelectsInv
  <2>3. FoundHere = Returned(prog.order[n])
    BY <1>1, FlowDone DEF F
  <2>4. ReturnedBy(S) = ReturnedBy(Seen) \cup Returned(prog.order[n])
    BY DEF ReturnedBy
  <2>5. Selects(F) = Owned(F, ReturnedBy(S))
    BY <2>2, <2>3, <2>4 DEF Selects, Owned
  <2> HIDE DEF S
  <2> QED
    BY <2>1, <2>5, OwnSelects DEF IInv
<1>6. SCSet = {x.cond : x \in checks} \cup {prog.selectCond[i] : i \in Returned(F)}
  BY <1>5 DEF SCSet
<1>7. MarkP!Ended(GraphOf(F, Flags(F)), edgeErr, checks)
  BY <1>2, <1>4
<1> QED
  BY <1>6, <1>7 DEF FoundOnce

LEMMA SameFound ==
  ASSUME prog' = prog
  PROVE  /\ SameInAllRuns' <=> SameInAllRuns
         /\ Analysed' = Analysed /\ AllTurns' = AllTurns
         /\ \A f, S : FoundOnce(f, S)' <=> FoundOnce(f, S)
         /\ \A C, K : Pairs(C, K)' = Pairs(C, K)
<1>1. Analysed' = Analysed /\ AllTurns' = AllTurns
  BY DEF Analysed, AllTurns
<1>2. \A f : BodyOf(f)' = BodyOf(f) /\ Graph(f)' = Graph(f) /\ Returned(f)' = Returned(f)
  BY SameProgram
<1>3. SameInAllRuns' <=> SameInAllRuns
  BY <1>1, <1>2 DEF SameInAllRuns
<1>4. \A f : GraphOf(f, Flags(f))' = GraphOf(f, Flags(f))
  BY <1>2, ZenonT(60) DEF GraphOf, Flags
<1>5. \A f, S : FoundOnce(f, S)' <=> FoundOnce(f, S)
  BY <1>2, <1>4 DEF FoundOnce
<1>6. \A C, K : Pairs(C, K)' = Pairs(C, K)
  BY <1>1 DEF Pairs
<1> QED
  BY <1>1, <1>3, <1>5, <1>6

LEMMA EndFunctionCount ==
  ASSUME IInv, MarkOrder, CountInv, EndFunction
  PROVE  CountInv'
<1> SUFFICES ASSUME SameInAllRuns'
             PROVE  CountInv'
  BY DEF CountInv
<1>1. /\ phase = "edges" /\ markPc = "done" /\ prog' = prog
      /\ NumSecurityChecks' = NumSecurityChecks + Counted(SCSet)
      /\ \/ n < Len(prog.order) /\ n' = n + 1 /\ phase' = "start" /\ run' = run
         \/ ~(n < Len(prog.order)) /\ run < prog.runs /\ n' = 1 /\ phase' = "start" /\ run' = run + 1
         \/ ~(n < Len(prog.order)) /\ ~(run < prog.runs) /\ phase' = "done" /\ n' = n /\ run' = run
  BY DEF EndFunction
<1>2. SameInAllRuns
  BY <1>1, SameFound
<1>3. FoundOnce(F, SCSet)
  BY <1>1, <1>2, TurnEnds
<1>4. /\ CheckInstSets'[F] = SCSet /\ \A f \in Fun \ {F} : CheckInstSets'[f] = CheckInstSets[f]
      /\ run > 1 => CheckInstSets' = CheckInstSets
      /\ Cardinality(Pairs(CheckInstSets', 1 .. n)) =
           Cardinality(Pairs(CheckInstSets, 1 .. n - 1)) + Counted(SCSet)
  BY <1>2, <1>3, TurnCounted
<1>5. /\ n \in DOMAIN prog.order /\ F = prog.order[n] /\ prog.runs \in Nat /\ run \in 1 .. prog.runs
      /\ DOMAIN prog.order = 1 .. Len(prog.order) /\ Len(prog.order) \in Nat
      /\ \A k \in DOMAIN prog.order : prog.order[k] \in Fun
  BY OrderFacts, ProgFacts DEF F, IInv, ControlInv
<1>6. ASSUME NEW k \in Seen'
      PROVE  FoundOnce(prog.order[k], CheckInstSets'[prog.order[k]])
  <2>1. Seen' = Seen \cup {n}
    BY TurnOver DEF IInv
  <2>2. CASE prog.order[k] = F
    BY <1>3, <1>4, <2>2
  <2>3. CASE prog.order[k] # F
    <3>1. k \in Seen /\ k \in DOMAIN prog.order
      BY <1>5, <2>1, <2>3 DEF Seen
    <3>2. CheckInstSets'[prog.order[k]] = CheckInstSets[prog.order[k]]
      BY <1>4, <1>5, <2>3, <3>1
    <3> QED
      BY <1>2, <3>1, <3>2 DEF CountInv
  <2> QED
    BY <2>2, <2>3
<1>7. \A k \in Seen' : FoundOnce(prog.order[k], CheckInstSets[prog.order[k]])'
  <2> DEFINE C == CheckInstSets'
  <2>1. \A k \in Seen' : FoundOnce(prog.order[k], C[prog.order[k]])
    BY <1>6
  <2>2. \A f, S : FoundOnce(f, S)' <=> FoundOnce(f, S)
    BY <1>1, SameFound
  <2> QED
    BY <1>1, <1>6, <2>2
<1> DEFINE X == Cardinality(Pairs(CheckInstSets, AllTurns))
           Y == Cardinality(Pairs(CheckInstSets', AllTurns))
           P == Cardinality(Pairs(CheckInstSets, 1 .. n - 1))
           Q == Cardinality(Pairs(CheckInstSets', 1 .. n))
<1>8. NumSecurityChecks = (run - 1) * X + P
  BY <1>1, <1>2 DEF CountInv
<1>9. X \in Nat /\ Y \in Nat /\ P \in Nat /\ Q \in Nat
  BY PairsFinite DEF IInv
<1>10. run > 1 => X = Y
  BY <1>4
<1>11. ~(n < Len(prog.order)) => Q = Y
  <2>1. ~(n < Len(prog.order)) => 1 .. n = AllTurns
    BY <1>5 DEF AllTurns
  <2> QED
    BY <2>1
<1>12. Q = P + Counted(SCSet)
  BY <1>4
<1> HIDE DEF X, Y, P, Q
<1>13. (run - 1) * X = (run - 1) * Y
  <2>1. run = 1 \/ run > 1
    BY <1>5
  <2> QED
    BY <1>9, <1>10, <2>1
<1>14. Counted(SCSet) = Q - P /\ (run - 1) * Y \in Int /\ (run - 1) * Y + Y = run * Y
  <2>1. Counted(SCSet) \in Int
    <3>1. IInv'
      BY EndFunctionIInv
    <3>2. CheckInstSets' \in [Fun -> SUBSET Block]
      BY <3>1 DEF IInv, FoundInv
    <3>3. SCSet \subseteq Block
      BY <1>4, <1>5, <3>2
    <3>4. IsFiniteSet(Block)
      BY NAssumption, FS_Interval DEF Block
    <3>5. IsFiniteSet(SCSet)
      BY <3>3, <3>4, FS_Subset
    <3> QED
      BY <3>5, FS_CardinalityType DEF Counted
  <2>2. run \in Int
    BY <1>5
  <2> QED
    BY <1>9, <1>12, <2>1, <2>2
<1>15. NumSecurityChecks' = (run - 1) * Y + Q
  BY <1>1, <1>8, <1>9, <1>12, <1>13, <1>14
<1>16. NumSecurityChecks' =
         IF phase' = "done" THEN run' * Y
         ELSE (run' - 1) * Y + Cardinality(Pairs(CheckInstSets', 1 .. n' - 1))
  <2>1. CASE n' = n + 1 /\ phase' = "start" /\ run' = run
    <3>1. n' - 1 = n
      BY <1>5, <2>1
    <3> QED
      BY <1>15, <2>1, <3>1 DEF Q
  <2>2. CASE ~(n < Len(prog.order)) /\ n' = 1 /\ phase' = "start" /\ run' = run + 1
    <3>1. Cardinality(Pairs(CheckInstSets', 1 .. n' - 1)) = 0
      <4>1. Pairs(CheckInstSets', 1 .. n' - 1) = {}
        BY <2>2 DEF Pairs
      <4> QED
        BY <4>1, FS_EmptySet
    <3>2. run' - 1 = run /\ run * Y \in Nat
      BY <1>5, <1>9, <2>2
    <3> QED
      BY <1>11, <1>14, <1>15, <2>2, <3>1, <3>2
  <2>3. CASE ~(n < Len(prog.order)) /\ phase' = "done" /\ run' = run
    BY <1>11, <1>14, <1>15, <2>3
  <2> QED
    BY <1>1, <2>1, <2>2, <2>3
<1>17. /\ Pairs(CheckInstSets, AllTurns)' = Pairs(CheckInstSets', AllTurns)
       /\ Pairs(CheckInstSets, 1 .. n - 1)' = Pairs(CheckInstSets', 1 .. n' - 1)
  BY <1>1 DEF Pairs, AllTurns, Analysed
<1> QED
  BY <1>7, <1>16, <1>17 DEF CountInv, Y

LEMMA QuietCount ==
  ASSUME CountInv, UNCHANGED <<prog, run, n, CheckInstSets, NumSecurityChecks>>,
         phase' = "done" <=> phase = "done"
  PROVE  CountInv'
<1>1. Seen' = Seen
  BY DEF Seen
<1>2. SameInAllRuns' <=> SameInAllRuns
  BY SameFound
<1>3. \A f, S : FoundOnce(f, S)' <=> FoundOnce(f, S)
  BY SameFound
<1>4. /\ Pairs(CheckInstSets, AllTurns)' = Pairs(CheckInstSets, AllTurns)
      /\ Pairs(CheckInstSets, 1 .. n - 1)' = Pairs(CheckInstSets, 1 .. n - 1)
  BY DEF Pairs, AllTurns, Analysed
<1>5. \A k : FoundOnce(prog.order[k], CheckInstSets[prog.order[k]])'
               <=> FoundOnce(prog.order[k], CheckInstSets[prog.order[k]])
  BY <1>3
<1>6. /\ Cardinality(Pairs(CheckInstSets, AllTurns))' = Cardinality(Pairs(CheckInstSets, AllTurns))
      /\ Cardinality(Pairs(CheckInstSets, 1 .. n - 1))' = Cardinality(Pairs(CheckInstSets, 1 .. n - 1))
  BY <1>4
<1> QED
  BY <1>1, <1>2, <1>5, <1>6 DEF CountInv

LEMMA NextMarkOrder ==
  ASSUME IInv, MarkOrder, [Next]_vars
  PROVE  MarkOrder'
<1>1. CASE StartMarking
  <2>1. phase = "blocks" /\ phase' = "edges" /\ flowPc = "done" /\ fn' = GraphOf(F, bbErrMap)
    BY <1>1 DEF StartMarking
  <2>2. F \in Fun /\ prog \in Programs /\ body = BodyOf(F) /\ FlowP!IInv
    BY <2>1, CurrentFun DEF IInv, FlowHalf
  <2>3. fn' \in Graphs
    BY <2>1, <2>2, GraphDone
  <2>4. MarkP!Init'
    BY <1>1, <2>3 DEF StartMarking, MarkP!Init, MarkP!Edge, MarkP!Block, Block
  <2>5. MarkP!Init' => MarkP!MarkInv' /\ MarkP!OrderInv' /\ MarkP!ListedInv'
    BY MarkP!RestartMark, MarkAssumptions
  <2> QED
    BY <2>4, <2>5 DEF MarkOrder
<1>2. CASE FindChecks \/ UNCHANGED vars
  <2>1. phase' = phase /\ [MarkP!Next]_(MarkP!vars)
    BY <1>2, SameMarkStep DEF FindChecks, passVars, vars, markVars, MarkP!vars, MarkP!control
  <2>2. ASSUME phase = "edges"
        PROVE  MarkP!OrderInv' /\ MarkP!ListedInv'
    <3>1. MarkP!MarkInv /\ MarkP!OrderInv /\ MarkP!ListedInv
      BY <2>2 DEF IInv, MarkHalf, MarkOrder
    <3>2. MarkP!OrderInv'
      BY <2>1, <3>1, MarkP!NextOrder, MarkAssumptions
    <3>3. MarkP!ListedInv'
      BY <2>1, <3>1, MarkP!NextListed, MarkAssumptions
    <3> QED
      BY <3>2, <3>3
  <2> QED
    BY <2>1, <2>2 DEF MarkOrder
<1>3. CASE StartFunction \/ FindErrBlocks \/ EndFunction \/ Done
  <2>1. CASE Done
    BY <2>1 DEF Done, MarkOrder, vars, passVars
  <2>2. CASE StartFunction \/ FindErrBlocks \/ EndFunction
    <3>1. phase' # "edges"
      BY <2>2 DEF StartFunction, FindErrBlocks, EndFunction, passVars
    <3> QED
      BY <3>1 DEF MarkOrder
  <2> QED
    BY <1>3, <2>1, <2>2
<1> QED
  BY <1>1, <1>2, <1>3 DEF Next

LEMMA NextCount ==
  ASSUME IInv, MarkOrder, CountInv, [Next]_vars
  PROVE  CountInv'
<1>1. CASE EndFunction
  BY <1>1, EndFunctionCount
<1>2. CASE ~EndFunction
  <2>1. /\ UNCHANGED <<prog, run, n, CheckInstSets, NumSecurityChecks>>
        /\ phase' = "done" <=> phase = "done"
    BY <1>2 DEF Next, StartFunction, FindErrBlocks, StartMarking, FindChecks, Done, vars, passVars
  <2> QED
    BY <2>1, QuietCount
<1> QED
  BY <1>1, <1>2

(* However often the pass is run, NumSecurityChecks is what CheckInstSets holds times   *)
(* the number of runs, whatever order each run meets predecessors in, as long as no      *)
(* block is both Must and May, no switch has three targets and no function returns the   *)
(* selects of another.                                                             *)
THEOREM CountsAgreeHolds == Spec => []CountsAgree
<1>1. Init => IInv /\ MarkOrder /\ CountInv
  BY InitIInv, InitCount DEF MarkOrder, Init
<1>2. IInv /\ MarkOrder /\ CountInv /\ [Next]_vars => (IInv /\ MarkOrder /\ CountInv)'
  BY NextIInv, NextMarkOrder, NextCount
<1>3. IInv /\ CountInv => CountsAgree
  <2> SUFFICES ASSUME IInv, CountInv, phase = "done", SameInAllRuns
               PROVE  NumSecurityChecks = prog.runs
                        * Cardinality({x \in Analysed \X Block : x[2] \in CheckInstSets[x[1]]})
    BY DEF CountsAgree
  <2>1. run = prog.runs /\ NumSecurityChecks = run * Cardinality(Pairs(CheckInstSets, AllTurns))
    BY DEF IInv, ControlInv, CountInv
  <2>2. Pairs(CheckInstSets, AllTurns) = {x \in Analysed \X Block : x[2] \in CheckInstSets[x[1]]}
    BY DEF Pairs, AllTurns, Analysed, Range
  <2> QED
    BY <2>1, <2>2
<1> QED
  BY <1>1, <1>2, <1>3, PTL DEF Spec
=============================================================================
