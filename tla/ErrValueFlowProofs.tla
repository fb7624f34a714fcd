-------------------------- MODULE ErrValueFlowProofs --------------------------
(***************************************************************************)
(* Proofs about ErrValueFlow, for every number of blocks, instructions and    *)
(* returns, and every function over them.                                    *)
(***************************************************************************)
EXTENDS ErrValueFlow, SequenceTheorems, TLAPS

-----------------------------------------------------------------------------
(* Functions and their instructions.                                         *)

LEMMA BodyFacts ==
  ASSUME NEW f \in Bodies
  PROVE  /\ f.succ \in [Block -> Seq(Block)]
         /\ f.home \in [Instr -> Block] /\ f.op \in [Instr -> Op]
         /\ f.stores \subseteq Store /\ f.returns \in Seq(Site)
         /\ f.handlers \subseteq Block
  BY BodiesAssumption

LEMMA OpFacts ==
  ASSUME NEW op \in Op
  PROVE  /\ op.kind \in {"load", "phi", "unary", "select", "call", "binary", "other"}
         /\ op.kind = "load" => op.cell \in Cell
         /\ op.kind = "phi" => op.from \subseteq Site
         /\ op.kind = "unary" => op.operand \in Value
         /\ op.kind = "select" => op.yes \in Value /\ op.no \in Value
         /\ op.kind = "call" => op.callee \in Callee
  BY DEF Op

LEMMA SitesType ==
  ASSUME NEW f \in Bodies, NEW i \in Instr, f.op[i].kind \in {"load", "phi", "unary"}
  PROVE  Sites(f, i) \subseteq Site
<1>1. f.op[i] \in Op /\ f.home[i] \in Block
  BY BodyFacts
<1>2. CASE f.op[i].kind = "load"
  <2>1. \A s \in f.stores : <<s.block, s.value>> \in Site
    BY BodyFacts DEF Store, Site
  <2> QED
    BY <1>2, <2>1 DEF Sites
<1>3. CASE f.op[i].kind = "phi"
  BY <1>1, <1>3, OpFacts DEF Sites
<1>4. CASE f.op[i].kind = "unary"
  <2>1. f.op[i].operand \in Value
    BY <1>1, <1>4, OpFacts
  <2> QED
    BY <1>1, <1>4, <2>1 DEF Sites, Site
<1> QED
  BY <1>2, <1>3, <1>4

ReturnMark == Block \X ReturnMask

(* The marks of a set of sites.                                              *)
SiteMarks(f, S) == {<<s[1], SiteFlag(f, s[2])>> : s \in {t \in S : IsConstant(t[2])}}
SiteValues(S) == {s[2] : s \in S} \ Const

LEMMA SiteMarksType ==
  ASSUME NEW f, NEW S \in SUBSET Site
  PROVE  SiteMarks(f, S) \subseteq ReturnMark /\ SiteValues(S) \subseteq Value
<1>1. ASSUME NEW s \in S
      PROVE  <<s[1], SiteFlag(f, s[2])>> \in ReturnMark /\ s[2] \in Value
  BY DEF Site, ReturnMark, ReturnMask, SiteFlag
<1> QED
  BY <1>1 DEF SiteMarks, SiteValues

LEMMA MarksOfSites ==
  ASSUME NEW f, NEW i, f.op[i].kind \in {"load", "phi", "unary"}
  PROVE  /\ Marks(f, i) = SiteMarks(f, Sites(f, i))
         /\ Feeds(f, i) = SiteValues(Sites(f, i))
  BY DEF Marks, Feeds, SiteMarks, SiteValues

(* What the marks of the other instructions are.                              *)
LEMMA MarksOfSelect ==
  ASSUME NEW f, NEW i, f.op[i].kind = "select"
  PROVE  /\ Marks(f, i) = IF OneErrno(f, i) THEN {<<f.home[i], "May_Return_Err">>}
                          ELSE IF IsValueErrno(f, f.op[i].yes)
                          THEN {<<f.home[i], "Must_Return_Err">>} ELSE {}
         /\ Feeds(f, i) = {f.op[i].yes, f.op[i].no} \ Const
  BY DEF Marks, Feeds

LEMMA MarksOfCall ==
  ASSUME NEW f \in Bodies, NEW i \in Instr, f.op[i].kind = "call"
  PROVE  /\ Feeds(f, i) = {}
         /\ f.op[i].callee \in {"indirect", "unresolved"} => Marks(f, i) = {}
         /\ f.op[i].callee = "errPtr" => Marks(f, i) = {<<f.home[i], "Must_Return_Err">>}
         /\ f.op[i].callee = "noErr" => Marks(f, i) = {<<f.home[i], "May_Return_Err">>}
         /\ f.op[i].callee = "mayErr" /\ ~TestsResult(f, i) =>
              Marks(f, i) = {<<f.home[i], "May_Return_Err">>}
         /\ f.op[i].callee = "mayErr" /\ TestsResult(f, i) =>
              /\ f.succ[f.home[i]][1] \in Block
              /\ Marks(f, i) = {<<f.home[i], "May_Return_Err">>,
                                <<f.succ[f.home[i]][1], "Must_Return_Err">>}
<1> DEFINE b == f.home[i]
           op == f.op[i]
           X == {<<b, "Must_Return_Err">> : x \in {op.callee} \cap {"errPtr"}}
           Y == {<<b, "May_Return_Err">> : x \in {op.callee} \cap {"mayErr", "noErr"}}
           Z == {<<s, "Must_Return_Err">> : s \in {t \in Block : TestsResult(f, i)
                                                                /\ t = f.succ[b][1]}}
<1>1. Marks(f, i) = X \cup Y \cup Z
  BY DEF Marks
<1>2. Feeds(f, i) = {}
  BY DEF Feeds
<1>3. ~TestsResult(f, i) => Z = {}
  OBVIOUS
<1>4. TestsResult(f, i) => op.callee = "mayErr"
  BY DEF TestsResult
<1>5. ASSUME TestsResult(f, i)
      PROVE  f.succ[b][1] \in Block /\ Z = {<<f.succ[b][1], "Must_Return_Err">>}
  <2>1. b \in Block
    BY BodyFacts
  <2>2. f.succ[b] \in Seq(Block) /\ Len(f.succ[b]) > 1
    BY <1>5, <2>1, BodyFacts DEF TestsResult
  <2>3. f.succ[b][1] \in Block
    BY <2>2, LenProperties, ElementOfSeq
  <2> QED
    BY <1>5, <2>3
<1>6. /\ op.callee = "errPtr" => X = {<<b, "Must_Return_Err">>} /\ Y = {}
      /\ op.callee \in {"mayErr", "noErr"} => X = {} /\ Y = {<<b, "May_Return_Err">>}
      /\ op.callee \in {"indirect", "unresolved"} => X = {} /\ Y = {}
  OBVIOUS
<1> HIDE DEF X, Y, Z
<1> QED
  BY <1>1, <1>2, <1>3, <1>4, <1>5, <1>6

LEMMA MarksOfRest ==
  ASSUME NEW f, NEW i, f.op[i].kind \in {"binary", "other"}
  PROVE  /\ Feeds(f, i) = {}
         /\ f.op[i].kind = "binary" => Marks(f, i) = {<<f.home[i], "May_Return_Err">>}
         /\ f.op[i].kind = "other" => Marks(f, i) = {}
  BY DEF Marks, Feeds

-----------------------------------------------------------------------------
(* markBBErr adds marks and nothing else.                                     *)

LEMMA MarkedFacts ==
  ASSUME TypeOK, NEW marks \in SUBSET ReturnMark, bbErrMap' = Marked(marks)
  PROVE  /\ bbErrMap' \in [Block -> SUBSET Flag]
         /\ ReturnMarked' = ReturnMarked \cup marks
         /\ \A b \in Block : Handles(bbErrMap'[b]) = Handles(bbErrMap[b])
<1>1. \A m \in marks : m[1] \in Block /\ m[2] \in ReturnMask /\ m = <<m[1], m[2]>>
  BY DEF ReturnMark
<1>2. ReturnMask \subseteq Flag /\ ReturnMask \cap HandleMask = {}
  BY DEF ReturnMask, HandleMask, Flag
<1> DEFINE of(b) == {m[2] : m \in {n \in marks : n[1] = b}}
<1>3. \A b : of(b) \subseteq ReturnMask
  BY <1>1
<1>4. bbErrMap \in [Block -> SUBSET Flag]
  BY DEF TypeOK
<1>5. bbErrMap' = [b \in Block |-> bbErrMap[b] \cup of(b)]
  BY DEF Marked
<1>6. \A b, m : <<b, m>> \in marks <=> m \in of(b)
  BY <1>1
<1>7. \A b, m : m \in of(b) => b \in Block
  BY <1>1
<1> HIDE DEF of
<1>8. bbErrMap' \in [Block -> SUBSET Flag]
  BY <1>2, <1>3, <1>4, <1>5
<1>9. \A b \in Block : Handles(bbErrMap'[b]) = Handles(bbErrMap[b])
  BY <1>2, <1>3, <1>5 DEF Handles
<1>10. \A b \in Block : Returns(bbErrMap'[b]) = Returns(bbErrMap[b]) \cup of(b)
  BY <1>3, <1>5 DEF Returns
<1>11. ReturnMarked' = ReturnMarked \cup marks
  <2>1. ASSUME NEW x
        PROVE  x \in ReturnMarked' <=> x \in ReturnMarked \/ x \in marks
    <3>1. x \in ReturnMarked <=> \E b \in Block : \E m \in Returns(bbErrMap[b]) : x = <<b, m>>
      BY DEF ReturnMarked
    <3>2. x \in ReturnMarked' <=> \E b \in Block : \E m \in Returns(bbErrMap'[b]) : x = <<b, m>>
      BY DEF ReturnMarked
    <3>3. x \in marks <=> \E b \in Block : \E m \in of(b) : x = <<b, m>>
      BY <1>1, <1>6, <1>7
    <3> QED
      BY <3>1, <3>2, <3>3, <1>10
  <2> QED
    BY <2>1
<1> QED
  BY <1>8, <1>9, <1>11

LEMMA SameMap ==
  ASSUME UNCHANGED bbErrMap
  PROVE  ReturnMarked' = ReturnMarked
  BY DEF ReturnMarked

(* Worklists of values.                                                      *)
LEMMA HeadTailRange ==
  ASSUME NEW Q \in Seq(Value), Q # <<>>
  PROVE  /\ Head(Q) \in Value /\ Tail(Q) \in Seq(Value)
         /\ Range(Q) = {Head(Q)} \cup Range(Tail(Q))
<1>1. Head(Q) \in Value /\ Tail(Q) \in Seq(Value) /\ Len(Tail(Q)) = Len(Q) - 1
      /\ \A k \in 1 .. Len(Tail(Q)) : Tail(Q)[k] = Q[k + 1]
  BY HeadTailProperties
<1>2. Len(Q) \in Nat \ {0} /\ Head(Q) = Q[1]
  BY EmptySeq
<1>3. Range(Q) = {Q[k] : k \in 1 .. Len(Q)} /\ Range(Tail(Q)) = {Tail(Q)[k] : k \in 1 .. Len(Tail(Q))}
  BY <1>1, RangeEquality
<1>4. Range(Tail(Q)) = {Q[k] : k \in 2 .. Len(Q)}
  <2>1. \A k \in 1 .. Len(Tail(Q)) : k + 1 \in 2 .. Len(Q)
    BY <1>1, <1>2
  <2>2. \A k \in 2 .. Len(Q) : k - 1 \in 1 .. Len(Tail(Q)) /\ Tail(Q)[k - 1] = Q[k]
    <3>1. ASSUME NEW k \in 2 .. Len(Q)
          PROVE  k - 1 \in 1 .. Len(Tail(Q)) /\ k = (k - 1) + 1
      BY <1>1, <1>2
    <3> QED
      BY <1>1, <3>1
  <2> QED
    BY <1>1, <1>3, <2>1, <2>2, SMTT(30)
<1>5. 1 .. Len(Q) = {1} \cup 2 .. Len(Q)
  BY <1>2
<1>6. Range(Q) = {Q[1]} \cup {Q[k] : k \in 2 .. Len(Q)}
  BY <1>3, <1>5
<1> QED
  BY <1>1, <1>2, <1>4, <1>6

LEMMA FollowedFacts ==
  ASSUME NEW v \in Value
  PROVE  Followed(v) \in Seq(Value) /\ Range(Followed(v)) = {v} \ Const
<1>1. CASE IsConstant(v)
  BY <1>1 DEF Followed, IsConstant, Range
<1>2. CASE ~IsConstant(v)
  <2>1. Followed(v) = <<v>> /\ <<v>> \in Seq(Value)
    BY <1>2 DEF Followed
  <2>2. Range(<<v>>) = {v}
    BY DEF Range
  <2> QED
    BY <1>2, <2>1, <2>2 DEF IsConstant
<1> QED
  BY <1>1, <1>2

LEMMA EmptyRange == <<>> \in Seq(Value) /\ Range(<<>>) = {}
  BY DEF Range

LEMMA SingleRange ==
  ASSUME NEW v \in Value
  PROVE  <<v>> \in Seq(Value) /\ Range(<<v>>) = {v}
  BY DEF Range

LEMMA ConcatRange ==
  ASSUME NEW Q \in Seq(Value), NEW R \in Seq(Value)
  PROVE  Q \o R \in Seq(Value) /\ Range(Q \o R) = Range(Q) \cup Range(R)
<1>1. Q \o R \in Seq(Value)
  BY ConcatProperties
<1>2. Range(Q \o R) = Range(Q) \cup Range(R)
  BY RangeConcatenation
<1> QED
  BY <1>1, <1>2

LEMMA AppendRange ==
  ASSUME NEW Q \in Seq(Value), NEW v \in Value
  PROVE  Append(Q, v) \in Seq(Value) /\ Range(Append(Q, v)) = Range(Q) \cup {v}
<1>1. Append(Q, v) = Q \o <<v>> /\ Append(Q, v) \in Seq(Value)
  BY AppendIsConcat, AppendProperties
<1>2. <<v>> \in Seq(Value) /\ Range(<<v>>) = {v}
  BY SingleRange
<1>3. Range(Q \o <<v>>) = Range(Q) \cup Range(<<v>>)
  BY <1>2, ConcatRange
<1> QED
  BY <1>1, <1>2, <1>3

-----------------------------------------------------------------------------
(* Origins is the least set of instructions that holds the returned ones and    *)
(* with each instruction those it leads to.                                   *)

ReturnsIn(f, S) == \A k \in DOMAIN f.returns : f.returns[k][2] \in Instr => f.returns[k][2] \in S
FeedsIn(f, S) == \A i \in S : Feeds(f, i) \cap Instr \subseteq S

LEMMA OriginsLeast ==
  ASSUME NEW f, NEW S \in SUBSET Instr, ReturnsIn(f, S), FeedsIn(f, S)
  PROVE  Origins(f) \subseteq S
  BY DEF Origins, ReturnsIn, FeedsIn

LEMMA OriginsClosed ==
  ASSUME NEW f
  PROVE  Origins(f) \subseteq Instr /\ ReturnsIn(f, Origins(f)) /\ FeedsIn(f, Origins(f))
<1> DEFINE closed == {S \in SUBSET Instr : ReturnsIn(f, S) /\ FeedsIn(f, S)}
<1>1. Origins(f) = {i \in Instr : \A S \in closed : i \in S}
  BY DEF Origins, ReturnsIn, FeedsIn
<1>2. ReturnsIn(f, Origins(f))
  <2>1. ASSUME NEW k \in DOMAIN f.returns, f.returns[k][2] \in Instr, NEW S \in closed
        PROVE  f.returns[k][2] \in S
    BY <2>1 DEF ReturnsIn
  <2> QED
    BY <1>1, <2>1 DEF ReturnsIn
<1>3. FeedsIn(f, Origins(f))
  <2>1. ASSUME NEW i \in Origins(f), NEW v \in Feeds(f, i) \cap Instr, NEW S \in closed
        PROVE  v \in S
    <3>1. i \in S
      BY <1>1, <2>1
    <3> QED
      BY <2>1, <3>1 DEF FeedsIn
  <2> HIDE DEF closed
  <2> QED
    BY <1>1, <2>1 DEF FeedsIn
<1> QED
  BY <1>1, <1>2, <1>3

LEMMA MarksOfOrigin ==
  ASSUME NEW f, NEW i \in Origins(f)
  PROVE  Marks(f, i) \subseteq ReturnMarks(f)
  BY DEF ReturnMarks

-----------------------------------------------------------------------------
(* The invariant.  A value taken from the worklist has its marks made and its   *)
(* values in the list, but for those that todo still stands for.               *)

AllMarks == ReturnMarked \cup SiteMarks(body, todo)
Ahead == Range(EEV) \cup SiteValues(todo)

Idle ==
  /\ pc # "sites" => todo = {}
  /\ pc \notin {"flow", "sites"} => EEV = <<>>

OnlyOrigins ==
  /\ PV \cap Instr \subseteq Origins(body)
  /\ Ahead \cap Instr \subseteq Origins(body)

OnlyTheirMarks == AllMarks \subseteq ReturnMarks(body)

MarksMade == \A i \in PV \cap Instr : Marks(body, i) \subseteq AllMarks

FeedsQueued == \A i \in PV \cap Instr : Feeds(body, i) \cap Instr \subseteq PV \cup Ahead

SelectsKept == ErrSelectInstSet = {i \in PV \cap Instr : OneErrno(body, i)}

ReturnsFollowed ==
  \A k \in DOMAIN body.returns :
    body.returns[k][2] \in Instr /\ (k < next \/ pc \in {"handle", "done"}) =>
      body.returns[k][2] \in PV \cup Ahead

FlowInv ==
  /\ OnlyOrigins /\ OnlyTheirMarks
  /\ MarksMade /\ FeedsQueued
  /\ SelectsKept /\ ReturnsFollowed

(* What a turn of the loop does, for an instruction taken from the list, and      *)
(* for every other turn.                                                         *)
Frame ==
  /\ TypeOK' /\ Idle'
  /\ body' = body
  /\ \A b \in Block : Handles(bbErrMap'[b]) = Handles(bbErrMap[b])

Takes(i) ==
  /\ i \in Instr /\ i \notin PV /\ i \in Ahead
  /\ PV' = PV \cup {i}
  /\ AllMarks' = AllMarks \cup Marks(body, i)
  /\ Ahead' \subseteq Ahead \cup Feeds(body, i)
  /\ Ahead \subseteq Ahead' \cup {i}
  /\ Feeds(body, i) \subseteq Ahead'
  /\ ErrSelectInstSet' = ErrSelectInstSet \cup {j \in {i} : OneErrno(body, i)}
  /\ next' = next
  /\ pc = "flow" /\ pc' \in {"flow", "sites"}

Passes ==
  /\ PV' \cap Instr = PV \cap Instr
  /\ AllMarks' = AllMarks
  /\ Ahead' \subseteq Ahead
  /\ Ahead \cap Instr \subseteq Ahead' \cup PV
  /\ ErrSelectInstSet' = ErrSelectInstSet
  /\ next' = next
  /\ pc \in {"flow", "sites"} /\ pc' \in {"flow", "sites", "return"}

LEMMA TakesFlowInv ==
  ASSUME FlowInv, body' = body, NEW i, Takes(i)
  PROVE  FlowInv'
<1>1. i \in Origins(body) /\ i \in Instr
  BY DEF Takes, FlowInv, OnlyOrigins
<1>2. Feeds(body, i) \cap Instr \subseteq Origins(body)
  BY <1>1, OriginsClosed DEF FeedsIn
<1>3. Marks(body, i) \subseteq ReturnMarks(body)
  BY <1>1, MarksOfOrigin
<1>4. OnlyOrigins'
  BY <1>1, <1>2 DEF Takes, FlowInv, OnlyOrigins
<1>5. OnlyTheirMarks'
  BY <1>3 DEF Takes, FlowInv, OnlyTheirMarks
<1>6. PV' \cap Instr = (PV \cap Instr) \cup {i}
  BY DEF Takes
<1>7. MarksMade'
  BY <1>6 DEF Takes, FlowInv, MarksMade
<1>8. PV \cup Ahead \subseteq PV' \cup Ahead'
  BY DEF Takes
<1>9. FeedsQueued'
  BY <1>6, <1>8 DEF Takes, FlowInv, FeedsQueued
<1>10. SelectsKept'
  BY <1>6 DEF Takes, FlowInv, SelectsKept
<1>11. ReturnsFollowed'
  BY <1>8 DEF Takes, FlowInv, ReturnsFollowed
<1> QED
  BY <1>4, <1>5, <1>7, <1>9, <1>10, <1>11 DEF FlowInv

LEMMA PassesFlowInv ==
  ASSUME FlowInv, body' = body, Passes
  PROVE  FlowInv'
<1>1. OnlyOrigins' /\ OnlyTheirMarks'
  BY DEF Passes, FlowInv, OnlyOrigins, OnlyTheirMarks
<1>2. MarksMade'
  BY DEF Passes, FlowInv, MarksMade
<1>3. (PV \cup Ahead) \cap Instr \subseteq PV' \cup Ahead'
  BY DEF Passes
<1>4. FeedsQueued'
  BY <1>3 DEF Passes, FlowInv, FeedsQueued
<1>5. SelectsKept'
  BY DEF Passes, FlowInv, SelectsKept
<1>6. ReturnsFollowed'
  BY <1>3 DEF Passes, FlowInv, ReturnsFollowed
<1> QED
  BY <1>1, <1>2, <1>4, <1>5, <1>6 DEF FlowInv

-----------------------------------------------------------------------------
(* The turns of checkErrValueFlow.                                           *)

LEMMA SkipStep ==
  ASSUME TypeOK, Idle, Skip
  PROVE  Frame /\ Passes
<1>1. EEV \in Seq(Value) /\ EEV # <<>> /\ EEV' = Tail(EEV) /\ pc = "flow"
  BY DEF TypeOK, Skip
<1>2. Head(EEV) \in Value /\ EEV' \in Seq(Value) /\ Range(EEV) = {Head(EEV)} \cup Range(EEV')
  BY <1>1, HeadTailRange
<1>3. TypeOK'
  BY <1>2 DEF TypeOK, Skip
<1>4. AllMarks' = AllMarks /\ SiteValues(todo)' = SiteValues(todo)
  BY DEF Skip, AllMarks, ReturnMarked, SiteMarks, SiteValues
<1>5. Ahead' \subseteq Ahead /\ Ahead \subseteq Ahead' \cup {Head(EEV)}
  BY <1>2, <1>4 DEF Ahead
<1>6. Idle' /\ PV' = PV \cup {Head(EEV)}
  BY <1>1 DEF Skip, Idle
<1>7. Head(EEV) \in PV \/ Head(EEV) \notin Instr
  BY DEF Skip
<1>8. Passes
  BY <1>1, <1>4, <1>5, <1>6, <1>7 DEF Skip, Passes
<1> QED
  BY <1>3, <1>6, <1>8 DEF Frame, Skip

(* What the actions for an instruction share.                                *)
LEMMA TakeFacts ==
  ASSUME TypeOK, Idle, NEW kinds, Take(kinds)
  PROVE  /\ Head(EEV) \in Instr /\ Head(EEV) \notin PV /\ Head(EEV) \in Ahead
         /\ body.op[Head(EEV)].kind \in kinds
         /\ body \in Bodies /\ body.op[Head(EEV)] \in Op /\ body.home[Head(EEV)] \in Block
         /\ PV' = PV \cup {Head(EEV)} /\ PV' \subseteq Value
         /\ pc = "flow" /\ todo = {}
         /\ EEV \in Seq(Value) /\ Tail(EEV) \in Seq(Value)
         /\ Ahead = {Head(EEV)} \cup Range(Tail(EEV))
         /\ AllMarks = ReturnMarked
<1>1. EEV \in Seq(Value) /\ EEV # <<>> /\ pc = "flow" /\ Head(EEV) \in Instr /\ Head(EEV) \notin PV
      /\ body \in Bodies /\ body.op[Head(EEV)].kind \in kinds
      /\ PV' = PV \cup {Head(EEV)} /\ PV \subseteq Value
  BY DEF TypeOK, Take
<1>2. todo = {}
  BY <1>1 DEF Idle
<1>3. Head(EEV) \in Value /\ Tail(EEV) \in Seq(Value) /\ Range(EEV) = {Head(EEV)} \cup Range(Tail(EEV))
  BY <1>1, HeadTailRange
<1>4. SiteValues(todo) = {} /\ SiteMarks(body, todo) = {}
  BY <1>2 DEF SiteValues, SiteMarks
<1>5. body.op[Head(EEV)] \in Op /\ body.home[Head(EEV)] \in Block
  BY <1>1, BodyFacts
<1>6. Ahead = {Head(EEV)} \cup Range(Tail(EEV)) /\ AllMarks = ReturnMarked
  BY <1>3, <1>4 DEF Ahead, AllMarks
<1> QED
  BY <1>1, <1>2, <1>3, <1>5, <1>6

(* The actions that follow no value through a site: what they add to the list    *)
(* and to bbErrMap is all there is to show.                                    *)
LEMMA TakeStep ==
  ASSUME TypeOK, Idle, NEW kinds, Take(kinds), kinds \cap {"load", "phi", "unary"} = {},
         EEV' \in Seq(Value), Range(EEV') = Range(Tail(EEV)) \cup Feeds(body, Head(EEV)),
         Marks(body, Head(EEV)) \subseteq ReturnMark,
         bbErrMap' = Marked(Marks(body, Head(EEV))),
         ErrSelectInstSet' = ErrSelectInstSet \cup {j \in {Head(EEV)} : OneErrno(body, Head(EEV))},
         UNCHANGED <<body, pc, next, todo>>
  PROVE  Frame /\ Takes(Head(EEV))
<1>1. /\ Head(EEV) \in Instr /\ Head(EEV) \notin PV /\ Head(EEV) \in Ahead
      /\ PV' = PV \cup {Head(EEV)} /\ PV' \subseteq Value
      /\ pc = "flow" /\ todo = {}
      /\ Ahead = {Head(EEV)} \cup Range(Tail(EEV))
      /\ AllMarks = ReturnMarked
  BY TakeFacts
<1>2. /\ bbErrMap' \in [Block -> SUBSET Flag]
      /\ ReturnMarked' = ReturnMarked \cup Marks(body, Head(EEV))
      /\ \A b \in Block : Handles(bbErrMap'[b]) = Handles(bbErrMap[b])
  BY MarkedFacts
<1>3. TypeOK'
  BY <1>1, <1>2 DEF TypeOK
<1>4. Idle'
  BY <1>1 DEF Idle
<1>5. SiteValues(todo') = {} /\ SiteMarks(body', todo') = {}
  BY <1>1 DEF SiteValues, SiteMarks
<1>6. AllMarks' = AllMarks \cup Marks(body, Head(EEV))
  BY <1>1, <1>2, <1>5 DEF AllMarks
<1>7. Ahead' = Range(Tail(EEV)) \cup Feeds(body, Head(EEV))
  BY <1>5 DEF Ahead
<1>8. Takes(Head(EEV))
  BY <1>1, <1>6, <1>7 DEF Takes
<1> QED
  BY <1>2, <1>3, <1>4, <1>8 DEF Frame

LEMMA LoadPhiUnaryStep ==
  ASSUME TypeOK, Idle, LoadPhiUnary
  PROVE  Frame /\ Takes(Head(EEV))
<1> DEFINE i == Head(EEV)
<1>1. Take({"load", "phi", "unary"})
  BY DEF LoadPhiUnary
<1>2. /\ i \in Instr /\ i \notin PV /\ i \in Ahead
      /\ body.op[i].kind \in {"load", "phi", "unary"} /\ body \in Bodies
      /\ PV' = PV \cup {i} /\ PV' \subseteq Value
      /\ pc = "flow" /\ Tail(EEV) \in Seq(Value)
      /\ Ahead = {i} \cup Range(Tail(EEV)) /\ AllMarks = ReturnMarked
  BY <1>1, TakeFacts
<1>3. /\ todo' = Sites(body, i) /\ EEV' = Tail(EEV) /\ pc' = "sites"
      /\ UNCHANGED <<body, bbErrMap, ErrSelectInstSet, next>>
  BY DEF LoadPhiUnary
<1>4. Sites(body, i) \subseteq Site
  BY <1>2, SitesType
<1>5. Marks(body, i) = SiteMarks(body, Sites(body, i)) /\ Feeds(body, i) = SiteValues(Sites(body, i))
  BY <1>2, MarksOfSites
<1>6. TypeOK' /\ Idle'
  BY <1>2, <1>3, <1>4 DEF TypeOK, Idle
<1>7. AllMarks' = AllMarks \cup Marks(body, i)
  BY <1>2, <1>3, <1>5, SameMap DEF AllMarks
<1>8. Ahead' = Range(Tail(EEV)) \cup Feeds(body, i)
  BY <1>3, <1>5 DEF Ahead
<1>9. ~OneErrno(body, i)
  BY <1>2 DEF OneErrno
<1> HIDE DEF i
<1>10. Takes(i)
  BY <1>2, <1>3, <1>7, <1>8, <1>9 DEF Takes
<1>11. Frame
  BY <1>3, <1>6 DEF Frame
<1> QED
  BY <1>10, <1>11 DEF i

LEMMA SiteMarksSplit ==
  ASSUME NEW f, NEW S, NEW s \in S
  PROVE  /\ SiteMarks(f, S) = SiteMarks(f, S \ {s}) \cup SiteMarks(f, {s})
         /\ SiteValues(S) = SiteValues(S \ {s}) \cup SiteValues({s})
         /\ IsConstant(s[2]) => SiteMarks(f, {s}) = {<<s[1], SiteFlag(f, s[2])>>} /\ SiteValues({s}) = {}
         /\ ~IsConstant(s[2]) => SiteMarks(f, {s}) = {} /\ SiteValues({s}) = {s[2]}
<1>1. S = (S \ {s}) \cup {s}
  OBVIOUS
<1>2. \A A, B : /\ SiteMarks(f, A \cup B) = SiteMarks(f, A) \cup SiteMarks(f, B)
                /\ SiteValues(A \cup B) = SiteValues(A) \cup SiteValues(B)
  BY DEF SiteMarks, SiteValues
<1>3. /\ SiteMarks(f, S) = SiteMarks(f, S \ {s}) \cup SiteMarks(f, {s})
      /\ SiteValues(S) = SiteValues(S \ {s}) \cup SiteValues({s})
  BY <1>1, <1>2
<1>4. IsConstant(s[2]) => SiteMarks(f, {s}) = {<<s[1], SiteFlag(f, s[2])>>} /\ SiteValues({s}) = {}
  BY DEF SiteMarks, SiteValues, IsConstant
<1>5. ~IsConstant(s[2]) => SiteMarks(f, {s}) = {} /\ SiteValues({s}) = {s[2]}
  BY DEF SiteMarks, SiteValues, IsConstant
<1> QED
  BY <1>3, <1>4, <1>5

LEMMA VisitSiteStep ==
  ASSUME TypeOK, Idle, VisitSite
  PROVE  Frame /\ Passes
<1>1. pc = "sites" /\ UNCHANGED <<body, ErrSelectInstSet, pc, next, PV>>
  BY DEF VisitSite
<1>2. PICK s \in todo :
        /\ todo' = todo \ {s}
        /\ IF IsConstant(s[2])
           THEN /\ bbErrMap' = Marked({<<s[1], SiteFlag(body, s[2])>>})
                /\ UNCHANGED EEV
           ELSE /\ EEV' = Append(EEV, s[2])
                /\ UNCHANGED bbErrMap
  BY DEF VisitSite, SiteFlag
<1>3. EEV \in Seq(Value) /\ todo \subseteq Site /\ s[1] \in Block /\ s[2] \in Value
      /\ bbErrMap \in [Block -> SUBSET Flag]
  BY <1>2 DEF TypeOK, Site
<1>4. /\ SiteMarks(body, todo) = SiteMarks(body, todo') \cup SiteMarks(body, {s})
      /\ SiteValues(todo) = SiteValues(todo') \cup SiteValues({s})
      /\ IsConstant(s[2]) => SiteMarks(body, {s}) = {<<s[1], SiteFlag(body, s[2])>>} /\ SiteValues({s}) = {}
      /\ ~IsConstant(s[2]) => SiteMarks(body, {s}) = {} /\ SiteValues({s}) = {s[2]}
  BY <1>2, SiteMarksSplit
<1>5. /\ EEV' \in Seq(Value) /\ Range(EEV') = Range(EEV) \cup SiteValues({s})
      /\ bbErrMap' \in [Block -> SUBSET Flag]
      /\ ReturnMarked' = ReturnMarked \cup SiteMarks(body, {s})
      /\ \A b \in Block : Handles(bbErrMap'[b]) = Handles(bbErrMap[b])
  <2>1. CASE IsConstant(s[2])
    <3>1. {<<s[1], SiteFlag(body, s[2])>>} \subseteq ReturnMark
      BY <1>3 DEF ReturnMark, ReturnMask, SiteFlag
    <3>2. bbErrMap' = Marked({<<s[1], SiteFlag(body, s[2])>>}) /\ EEV' = EEV
      BY <1>2, <2>1
    <3>3. /\ bbErrMap' \in [Block -> SUBSET Flag]
          /\ ReturnMarked' = ReturnMarked \cup {<<s[1], SiteFlag(body, s[2])>>}
          /\ \A b \in Block : Handles(bbErrMap'[b]) = Handles(bbErrMap[b])
      BY <3>1, <3>2, MarkedFacts
    <3> QED
      BY <1>3, <1>4, <2>1, <3>2, <3>3
  <2>2. CASE ~IsConstant(s[2])
    <3>1. EEV' = Append(EEV, s[2]) /\ UNCHANGED bbErrMap
      BY <1>2, <2>2
    <3>2. EEV' \in Seq(Value) /\ Range(EEV') = Range(EEV) \cup {s[2]}
      BY <1>3, <3>1, AppendRange
    <3> QED
      BY <1>3, <1>4, <2>2, <3>1, <3>2, SameMap
  <2> QED
    BY <2>1, <2>2
<1>6. TypeOK' /\ Idle'
  BY <1>1, <1>2, <1>5 DEF TypeOK, Idle
<1>7. AllMarks' = AllMarks /\ Ahead' = Ahead
  BY <1>1, <1>4, <1>5 DEF AllMarks, Ahead
<1>8. Passes
  BY <1>1, <1>7 DEF Passes
<1> QED
  BY <1>1, <1>5, <1>6, <1>8 DEF Frame

LEMMA EndStep ==
  ASSUME TypeOK, Idle, EndSites \/ EndFlow
  PROVE  Frame /\ Passes
<1>1. /\ pc \in {"flow", "sites"} /\ pc' \in {"flow", "return"} /\ todo = {}
      /\ pc' = "return" => EEV = <<>>
      /\ UNCHANGED <<body, bbErrMap, ErrSelectInstSet, next, EEV, PV, todo>>
  BY DEF EndSites, EndFlow, Idle
<1>2. TypeOK' /\ Idle'
  BY <1>1 DEF TypeOK, Idle
<1>3. AllMarks' = AllMarks /\ Ahead' = Ahead
  BY <1>1, SameMap DEF AllMarks, Ahead
<1> QED
  BY <1>1, <1>2, <1>3 DEF Frame, Passes

LEMMA SelectStep ==
  ASSUME TypeOK, Idle, Select
  PROVE  Frame /\ Takes(Head(EEV))
<1> DEFINE i == Head(EEV)
           yes == body.op[i].yes
           no == body.op[i].no
           values == <<yes, no>>
           errs == {k \in 1 .. 2 : IsValueErrno(body, values[k])}
           T == Tail(EEV) \o Followed(yes) \o Followed(no)
<1>1. Take({"select"}) /\ UNCHANGED <<body, pc, next, todo>>
  BY DEF Select
<1>2. /\ i \in Instr /\ body.op[i].kind = "select" /\ body \in Bodies
      /\ body.op[i] \in Op /\ body.home[i] \in Block /\ Tail(EEV) \in Seq(Value)
  BY <1>1, TakeFacts, SMTT(30)
<1>3. yes \in Value /\ no \in Value
  BY <1>2, OpFacts, ZenonT(60)
<1>4. EEV' = T
  BY DEF Select
<1>5. T \in Seq(Value) /\ Range(T) = Range(Tail(EEV)) \cup ({yes, no} \ Const)
  <2>1. /\ Followed(yes) \in Seq(Value) /\ Range(Followed(yes)) = {yes} \ Const
        /\ Followed(no) \in Seq(Value) /\ Range(Followed(no)) = {no} \ Const
    BY <1>3, FollowedFacts
  <2> DEFINE Q == Tail(EEV) \o Followed(yes)
  <2>2. Q \in Seq(Value) /\ Range(Q) = Range(Tail(EEV)) \cup ({yes} \ Const)
    BY <1>2, <2>1, ConcatRange
  <2> HIDE DEF Q
  <2>3. Q \o Followed(no) \in Seq(Value) /\ Range(Q \o Followed(no)) = Range(Q) \cup ({no} \ Const)
    BY <2>1, <2>2, ConcatRange
  <2>4. ({yes} \ Const) \cup ({no} \ Const) = {yes, no} \ Const
    OBVIOUS
  <2>5. T = Q \o Followed(no)
    BY DEF Q
  <2> HIDE DEF T
  <2> QED
    BY <2>2, <2>3, <2>4, <2>5
<1>6. /\ 1 \in errs <=> IsValueErrno(body, yes)
      /\ 2 \in errs <=> IsValueErrno(body, no)
      /\ errs \subseteq {1, 2}
  OBVIOUS
<1>7. OneErrno(body, i) <=> errs \in {{1}, {2}}
  <2>1. OneErrno(body, i) <=> (IsValueErrno(body, yes) <=> ~IsValueErrno(body, no))
    BY <1>2 DEF OneErrno
  <2> HIDE DEF errs
  <2>2. /\ 1 \in errs /\ 2 \notin errs => errs = {1}
        /\ 1 \notin errs /\ 2 \in errs => errs = {2}
    BY <1>6
  <2>3. errs \in {{1}, {2}} <=> (1 \in errs <=> ~(2 \in errs))
    BY <1>6, <2>2
  <2> QED
    BY <1>6, <2>1, <2>3
<1>8. bbErrMap' = IF errs = {} THEN bbErrMap
                  ELSE Marked({<<body.home[i], IF errs = 1 .. 2 THEN "Must_Return_Err"
                                               ELSE "May_Return_Err">>})
  BY DEF Select
<1>9. ErrSelectInstSet' = IF errs \in {{1}, {2}} THEN ErrSelectInstSet \cup {i} ELSE ErrSelectInstSet
  BY DEF Select
<1>10. 1 .. 2 = {1, 2}
  OBVIOUS
<1>11. /\ Marks(body, i) = IF OneErrno(body, i) THEN {<<body.home[i], "May_Return_Err">>}
                           ELSE IF IsValueErrno(body, yes)
                           THEN {<<body.home[i], "Must_Return_Err">>} ELSE {}
       /\ Feeds(body, i) = {yes, no} \ Const
  BY <1>2, MarksOfSelect
<1>12. bbErrMap' = Marked(Marks(body, i)) /\ Marks(body, i) \subseteq ReturnMark
  <2> HIDE DEF errs
  <2>1. Marked({}) = bbErrMap
    BY DEF Marked, TypeOK
  <2>2. \A m \in ReturnMask : {<<body.home[i], m>>} \subseteq ReturnMark
    BY <1>2 DEF ReturnMark
  <2>3. CASE errs = {}
    BY <1>6, <1>7, <1>8, <1>11, <2>1, <2>3
  <2>4. CASE errs = {1, 2}
    <3>1. ~OneErrno(body, i) /\ IsValueErrno(body, yes)
      BY <1>6, <1>7, <2>4
    <3>2. Marks(body, i) = {<<body.home[i], "Must_Return_Err">>}
      BY <1>11, <3>1
    <3>3. bbErrMap' = Marked({<<body.home[i], "Must_Return_Err">>})
      BY <1>8, <1>10, <2>4
    <3> QED
      BY <2>2, <3>2, <3>3 DEF ReturnMask
  <2>5. CASE errs \in {{1}, {2}}
    <3>1. Marks(body, i) = {<<body.home[i], "May_Return_Err">>}
      BY <1>7, <1>11, <2>5
    <3>2. errs # {} /\ errs # 1 .. 2
      BY <1>10, <2>5
    <3>3. bbErrMap' = Marked({<<body.home[i], "May_Return_Err">>})
      BY <1>8, <3>2
    <3> QED
      BY <2>2, <3>1, <3>3 DEF ReturnMask
  <2> QED
    BY <1>6, <2>3, <2>4, <2>5
<1>13. ErrSelectInstSet' = ErrSelectInstSet \cup {j \in {i} : OneErrno(body, i)}
  BY <1>7, <1>9
<1> HIDE DEF errs, T
<1> QED
  BY <1>1, <1>4, <1>5, <1>11, <1>12, <1>13, TakeStep, ZenonT(60)

LEMMA CallStep ==
  ASSUME TypeOK, Idle, Call
  PROVE  Frame /\ Takes(Head(EEV))
<1> DEFINE i == Head(EEV)
           b == body.home[i]
           callee == body.op[i].callee
           S == body.succ[b][1]
<1>1. Take({"call"}) /\ EEV' = Tail(EEV) /\ UNCHANGED <<body, ErrSelectInstSet, pc, next, todo>>
  BY DEF Call
<1>2. /\ i \in Instr /\ body.op[i].kind = "call" /\ body \in Bodies
      /\ body.op[i] \in Op /\ b \in Block /\ Tail(EEV) \in Seq(Value)
  BY <1>1, TakeFacts
<1>3. callee \in {"indirect", "errPtr", "unresolved", "mayErr", "noErr"}
  BY <1>2, OpFacts DEF Callee
<1>4. /\ Feeds(body, i) = {}
      /\ callee \in {"indirect", "unresolved"} => Marks(body, i) = {}
      /\ callee = "errPtr" => Marks(body, i) = {<<b, "Must_Return_Err">>}
      /\ callee = "noErr" => Marks(body, i) = {<<b, "May_Return_Err">>}
      /\ callee = "mayErr" /\ ~TestsResult(body, i) => Marks(body, i) = {<<b, "May_Return_Err">>}
      /\ callee = "mayErr" /\ TestsResult(body, i) =>
           S \in Block /\ Marks(body, i) = {<<b, "May_Return_Err">>, <<S, "Must_Return_Err">>}
  BY <1>2, MarksOfCall
<1>5. callee = "mayErr" =>
        (TestsResult(body, i) <=> Len(body.succ[b]) > 1 /\ body.test[b] \cap SameVariables(body, i) # {})
  BY DEF TestsResult
<1>6. bbErrMap' =
        CASE callee = "errPtr" -> Marked({<<b, "Must_Return_Err">>})
          [] callee = "noErr"  -> Marked({<<b, "May_Return_Err">>})
          [] callee = "mayErr" ->
               IF Len(body.succ[b]) > 1 /\ body.test[b] \cap SameVariables(body, i) # {}
               THEN Marked({<<b, "May_Return_Err">>, <<S, "Must_Return_Err">>})
               ELSE Marked({<<b, "May_Return_Err">>})
          [] callee \in {"indirect", "unresolved"} -> bbErrMap
  BY DEF Call
<1>7. /\ \A m \in ReturnMask : {<<b, m>>} \subseteq ReturnMark
      /\ S \in Block => {<<b, "May_Return_Err">>, <<S, "Must_Return_Err">>} \subseteq ReturnMark
      /\ {} \subseteq ReturnMark
  BY <1>2 DEF ReturnMark, ReturnMask
<1>8. Marked({}) = bbErrMap
  BY DEF Marked, TypeOK
<1>9. bbErrMap' = Marked(Marks(body, i)) /\ Marks(body, i) \subseteq ReturnMark
  <2> HIDE DEF callee, b, S, i
  <2>1. CASE callee = "errPtr"
    BY <1>4, <1>6, <1>7, <2>1 DEF ReturnMask
  <2>2. CASE callee = "noErr"
    BY <1>4, <1>6, <1>7, <2>2 DEF ReturnMask
  <2>3. CASE callee = "mayErr" /\ TestsResult(body, i)
    BY <1>4, <1>5, <1>6, <1>7, <2>3
  <2>4. CASE callee = "mayErr" /\ ~TestsResult(body, i)
    BY <1>4, <1>5, <1>6, <1>7, <2>4 DEF ReturnMask
  <2>5. CASE callee \in {"indirect", "unresolved"}
    BY <1>4, <1>6, <1>7, <1>8, <2>5
  <2> QED
    BY <1>3, <2>1, <2>2, <2>3, <2>4, <2>5
<1>10. ~OneErrno(body, i)
  BY <1>2 DEF OneErrno
<1> HIDE DEF callee, b, S
<1> QED
  BY <1>1, <1>2, <1>4, <1>9, <1>10, TakeStep

LEMMA RestStep ==
  ASSUME TypeOK, Idle, Binary \/ Other
  PROVE  Frame /\ Takes(Head(EEV))
<1> DEFINE i == Head(EEV)
<1>1. /\ Take({"binary"}) \/ Take({"other"})
      /\ EEV' = Tail(EEV) /\ UNCHANGED <<body, ErrSelectInstSet, pc, next, todo>>
  BY DEF Binary, Other
<1>2. PICK kinds \in {{"binary"}, {"other"}} : Take(kinds)
  BY <1>1
<1>3. /\ body.op[i].kind \in kinds /\ body.home[i] \in Block /\ Tail(EEV) \in Seq(Value)
  BY <1>2, TakeFacts
<1>4. body.op[i].kind \in {"binary", "other"}
  BY <1>2, <1>3
<1>5. Feeds(body, i) = {}
  BY <1>4, MarksOfRest
<1>6. bbErrMap' = Marked(Marks(body, i)) /\ Marks(body, i) \subseteq ReturnMark
  <2>1. CASE Binary
    <3>1. body.op[i].kind = "binary"
      BY <2>1 DEF Binary, Take
    <3>2. Marks(body, i) = {<<body.home[i], "May_Return_Err">>}
      BY <1>4, <3>1, MarksOfRest
    <3>3. {<<body.home[i], "May_Return_Err">>} \subseteq ReturnMark
      BY <1>3 DEF ReturnMark, ReturnMask
    <3> QED
      BY <2>1, <3>2, <3>3 DEF Binary
  <2>2. CASE Other
    <3>1. body.op[i].kind = "other" /\ bbErrMap' = bbErrMap
      BY <2>2 DEF Other, Take
    <3>2. Marks(body, i) = {}
      BY <1>4, <3>1, MarksOfRest
    <3>3. Marked({}) = bbErrMap
      BY DEF Marked, TypeOK
    <3> QED
      BY <3>1, <3>2, <3>3
  <2> QED
    BY <2>1, <2>2
<1>7. ~OneErrno(body, i)
  BY <1>4 DEF OneErrno
<1> QED
  BY <1>1, <1>2, <1>3, <1>5, <1>6, <1>7, TakeStep

LEMMA FlowStep ==
  ASSUME TypeOK, Idle, Flow
  PROVE  /\ Frame /\ (Passes \/ Takes(Head(EEV)))
         /\ pc \notin {"handle", "done"} /\ pc' \notin {"handle", "done"}
<1>1. Frame /\ (Passes \/ Takes(Head(EEV)))
  BY SkipStep, LoadPhiUnaryStep, VisitSiteStep, EndStep, SelectStep, CallStep, RestStep DEF Flow
<1> QED
  BY <1>1 DEF Frame, Passes, Takes

-----------------------------------------------------------------------------
(* The loops of checkErrReturn and checkErrHandle.                            *)

(* Blocks the loop of checkErrHandle has passed.                              *)
Visited(b) == pc = "done" \/ (pc = "handle" /\ b < next)

HandlersMarked ==
  \A b \in Block :
    Handles(bbErrMap[b]) =
      IF b \in body.handlers /\ Visited(b) THEN {"Must_Handle_Err"} ELSE {}

IInv == TypeOK /\ Idle /\ FlowInv /\ HandlersMarked

LEMMA AheadEmpty ==
  ASSUME Idle, pc \notin {"flow", "sites"}
  PROVE  Ahead = {} /\ AllMarks = ReturnMarked
<1>1. EEV = <<>> /\ todo = {}
  BY DEF Idle
<1>2. Range(EEV) = {} /\ SiteValues(todo) = {} /\ SiteMarks(body, todo) = {}
  BY <1>1, EmptyRange DEF SiteValues, SiteMarks
<1> QED
  BY <1>2 DEF Ahead, AllMarks

LEMMA InitIInv == Init => IInv
<1>1. ASSUME Init
      PROVE  IInv
  <2>1. TypeOK
    BY <1>1, EmptyRange DEF Init, TypeOK
  <2>2. Idle
    BY <1>1 DEF Init, Idle
  <2>3. Ahead = {} /\ AllMarks = ReturnMarked
    BY <1>1, <2>2, AheadEmpty DEF Init
  <2>4. ReturnMarked = {}
    BY <1>1 DEF Init, ReturnMarked, Returns
  <2>5. body.returns \in Seq(Site) /\ DOMAIN body.returns = 1 .. Len(body.returns)
    BY <1>1, BodyFacts, LenProperties DEF Init
  <2>6. ReturnsFollowed
    BY <1>1, <2>5 DEF Init, ReturnsFollowed
  <2>7. FlowInv
    BY <1>1, <2>3, <2>4, <2>6
    DEF Init, FlowInv, OnlyOrigins, OnlyTheirMarks, MarksMade, FeedsQueued, SelectsKept
  <2>8. HandlersMarked
    BY <1>1 DEF Init, HandlersMarked, Visited, Handles
  <2> QED
    BY <2>1, <2>2, <2>7, <2>8 DEF IInv
<1> QED
  BY <1>1

LEMMA ReturnValue ==
  ASSUME TypeOK, NEW k \in DOMAIN body.returns
  PROVE  /\ k \in 1 .. Len(body.returns) /\ Len(body.returns) \in Nat
         /\ body.returns[k][2] \in Value
<1>1. body.returns \in Seq(Site)
  BY BodyFacts DEF TypeOK
<1>2. DOMAIN body.returns = 1 .. Len(body.returns) /\ Len(body.returns) \in Nat
  BY <1>1, LenProperties
<1>3. body.returns[k] \in Site
  BY <1>1, <1>2, ElementOfSeq
<1> QED
  BY <1>2, <1>3 DEF Site

LEMMA CheckReturnIInv ==
  ASSUME IInv, CheckReturn
  PROVE  IInv'
<1> DEFINE v == body.returns[next][2]
<1>1. /\ TypeOK /\ Idle /\ FlowInv /\ HandlersMarked
      /\ pc = "return" /\ pc' = "flow" /\ EEV' = <<v>> /\ next' = next + 1
      /\ UNCHANGED <<body, bbErrMap, ErrSelectInstSet, PV, todo>>
  BY DEF IInv, CheckReturn
<1>2. next \in DOMAIN body.returns /\ next \in Nat \ {0}
  <2>1. body.returns \in Seq(Site)
    BY <1>1, BodyFacts DEF TypeOK
  <2>2. DOMAIN body.returns = 1 .. Len(body.returns) /\ Len(body.returns) \in Nat
    BY <2>1, LenProperties
  <2> QED
    BY <1>1, <2>2 DEF CheckReturn, TypeOK
<1>3. v \in Value
  BY <1>1, <1>2, ReturnValue
<1> HIDE DEF v
<1>4. EEV' \in Seq(Value) /\ Range(EEV') = {v}
  BY <1>1, <1>3, SingleRange
<1>5. TypeOK' /\ Idle'
  BY <1>1, <1>2, <1>4 DEF TypeOK, Idle
<1>6. Ahead = {} /\ AllMarks = ReturnMarked /\ todo = {}
  BY <1>1, AheadEmpty DEF Idle
<1>7. AllMarks' = AllMarks
  BY <1>1, SameMap DEF AllMarks
<1>8. Ahead' = {v}
  BY <1>1, <1>4, <1>6 DEF Ahead, SiteValues
<1>9. v \in Instr => v \in Origins(body)
  BY <1>2, OriginsClosed DEF ReturnsIn, v
<1>10. OnlyOrigins' /\ OnlyTheirMarks'
  BY <1>1, <1>7, <1>8, <1>9 DEF FlowInv, OnlyOrigins, OnlyTheirMarks
<1>11. MarksMade' /\ FeedsQueued' /\ SelectsKept'
  BY <1>1, <1>6, <1>7 DEF FlowInv, MarksMade, FeedsQueued, SelectsKept
<1>12. ReturnsFollowed'
  <2>1. ASSUME NEW k \in DOMAIN body.returns, body.returns[k][2] \in Instr, k < next'
        PROVE  body.returns[k][2] \in PV' \cup Ahead'
    <3>1. k \in Nat
      BY <1>1, ReturnValue
    <3>2. CASE k = next
      BY <1>8, <3>2 DEF v
    <3>3. CASE k < next
      BY <1>1, <1>6, <2>1, <3>3 DEF FlowInv, ReturnsFollowed
    <3> QED
      BY <1>1, <1>2, <2>1, <3>1, <3>2, <3>3
  <2> QED
    BY <1>1, <2>1 DEF ReturnsFollowed
<1>13. HandlersMarked'
  BY <1>1 DEF HandlersMarked, Visited
<1> QED
  BY <1>5, <1>10, <1>11, <1>12, <1>13 DEF IInv, FlowInv

(* The steps after which the worklist is still empty and bbErrMap has the same    *)
(* return marks.                                                               *)
LEMMA StillFlowInv ==
  ASSUME FlowInv, Idle, Idle', pc \notin {"flow", "sites"}, pc' \notin {"flow", "sites"},
         ReturnMarked' = ReturnMarked, ReturnsFollowed',
         UNCHANGED <<body, ErrSelectInstSet, PV>>
  PROVE  FlowInv'
<1>1. Ahead = {} /\ AllMarks = ReturnMarked
  BY AheadEmpty
<1>2. Ahead' = {} /\ AllMarks' = ReturnMarked'
  <2>1. EEV' = <<>> /\ todo' = {}
    BY DEF Idle
  <2>2. Range(EEV') = {} /\ SiteValues(todo') = {} /\ SiteMarks(body', todo') = {}
    BY <2>1, EmptyRange DEF SiteValues, SiteMarks
  <2> QED
    BY <2>2 DEF Ahead, AllMarks
<1>3. OnlyOrigins' /\ OnlyTheirMarks' /\ MarksMade' /\ FeedsQueued' /\ SelectsKept'
  BY <1>1, <1>2 DEF FlowInv, OnlyOrigins, OnlyTheirMarks, MarksMade, FeedsQueued, SelectsKept
<1> QED
  BY <1>3 DEF FlowInv

LEMMA EndReturnsIInv ==
  ASSUME IInv, EndReturns
  PROVE  IInv'
<1>1. /\ TypeOK /\ Idle /\ FlowInv /\ HandlersMarked
      /\ pc = "return" /\ next > Len(body.returns) /\ pc' = "handle" /\ next' = 1
      /\ UNCHANGED <<body, bbErrMap, ErrSelectInstSet, EEV, PV, todo>>
  BY DEF IInv, EndReturns
<1>2. TypeOK' /\ Idle'
  BY <1>1, NAssumption DEF TypeOK, Idle
<1>3. Ahead = {} /\ Ahead' = {}
  <2>1. Ahead = {}
    BY <1>1, AheadEmpty
  <2> QED
    BY <1>1, <2>1 DEF Ahead
<1>4. ReturnsFollowed'
  <2>1. ASSUME NEW k \in DOMAIN body.returns, body.returns[k][2] \in Instr
        PROVE  body.returns[k][2] \in PV' \cup Ahead'
    <3>1. k \in 1 .. Len(body.returns) /\ Len(body.returns) \in Nat /\ next \in Nat
      BY <1>1, ReturnValue DEF TypeOK
    <3>2. k < next
      BY <1>1, <3>1
    <3> QED
      BY <1>1, <1>3, <2>1, <3>2 DEF FlowInv, ReturnsFollowed
  <2> QED
    BY <1>1, <2>1 DEF ReturnsFollowed
<1>5. FlowInv'
  BY <1>1, <1>2, <1>4, SameMap, StillFlowInv
<1>6. HandlersMarked'
  BY <1>1, SMTT(30) DEF HandlersMarked, Visited, Block
<1> QED
  BY <1>2, <1>5, <1>6 DEF IInv

LEMMA CheckBlockIInv ==
  ASSUME IInv, CheckBlock
  PROVE  IInv'
<1>1. /\ TypeOK /\ Idle /\ FlowInv /\ HandlersMarked
      /\ pc = "handle" /\ pc' = "handle" /\ next \in Block /\ next' = next + 1
      /\ UNCHANGED <<body, ErrSelectInstSet, EEV, PV, todo>>
  BY DEF IInv, CheckBlock
<1>2. bbErrMap \in [Block -> SUBSET Flag]
  BY <1>1 DEF TypeOK
<1>3. /\ bbErrMap' \in [Block -> SUBSET Flag]
      /\ \A b \in Block : bbErrMap'[b] = bbErrMap[b] \cup
                            (IF b = next /\ b \in body.handlers THEN {"Must_Handle_Err"} ELSE {})
  <2>1. CASE next \in body.handlers
    <3>1. bbErrMap' = [b \in Block |-> bbErrMap[b] \cup
                         {m[2] : m \in {n \in {<<next, "Must_Handle_Err">>} : n[1] = b}}]
      BY <2>1 DEF CheckBlock, Marked
    <3>2. ASSUME NEW b \in Block
          PROVE  {m[2] : m \in {n \in {<<next, "Must_Handle_Err">>} : n[1] = b}}
                   = IF b = next THEN {"Must_Handle_Err"} ELSE {}
      <4>1. CASE b = next
        <5>1. {n \in {<<next, "Must_Handle_Err">>} : n[1] = b} = {<<next, "Must_Handle_Err">>}
          BY <4>1
        <5>2. {m[2] : m \in {<<next, "Must_Handle_Err">>}} = {"Must_Handle_Err"}
          OBVIOUS
        <5> QED
          BY <4>1, <5>1, <5>2
      <4>2. CASE b # next
        BY <4>2
      <4> QED
        BY <4>1, <4>2
    <3>3. {"Must_Handle_Err"} \subseteq Flag
      BY DEF Flag
    <3> QED
      BY <1>2, <2>1, <3>1, <3>2, <3>3
  <2>2. CASE next \notin body.handlers
    BY <1>2, <2>2 DEF CheckBlock
  <2> QED
    BY <2>1, <2>2
<1>4. TypeOK' /\ Idle'
  <2>1. next + 1 \in 1 .. N + 1 /\ next + 1 \in Nat \ {0}
    BY <1>1, NAssumption DEF Block
  <2> QED
    BY <1>1, <1>3, <2>1 DEF TypeOK, Idle
<1>5. \A b \in Block :
        /\ Returns(bbErrMap'[b]) = Returns(bbErrMap[b])
        /\ Handles(bbErrMap'[b]) =
             Handles(bbErrMap[b]) \cup (IF b = next /\ b \in body.handlers THEN {"Must_Handle_Err"} ELSE {})
  BY <1>3 DEF Returns, Handles, ReturnMask, HandleMask
<1>6. ReturnMarked' = ReturnMarked
  BY <1>5 DEF ReturnMarked
<1>7. ReturnsFollowed'
  <2>1. Ahead' = Ahead
    BY <1>1 DEF Ahead
  <2> QED
    BY <1>1, <2>1 DEF FlowInv, ReturnsFollowed
<1>8. FlowInv'
  BY <1>1, <1>4, <1>6, <1>7, StillFlowInv
<1>9. HandlersMarked'
  <2>1. ASSUME NEW b \in Block
        PROVE  (Visited(b))' <=> Visited(b) \/ b = next
    BY <1>1, NAssumption DEF Visited, Block
  <2>2. ~Visited(next)
    BY <1>1, NAssumption DEF Visited, Block
  <2>3. ASSUME NEW b \in Block
        PROVE  Handles(bbErrMap'[b]) =
                 IF b \in body.handlers /\ (Visited(b))' THEN {"Must_Handle_Err"} ELSE {}
    <3>1. Handles(bbErrMap[b]) = IF b \in body.handlers /\ Visited(b) THEN {"Must_Handle_Err"} ELSE {}
      BY <1>1 DEF HandlersMarked
    <3> QED
      BY <1>5, <2>1, <3>1
  <2> QED
    BY <1>1, <2>3 DEF HandlersMarked
<1> QED
  BY <1>4, <1>8, <1>9 DEF IInv

LEMMA EndBlocksIInv ==
  ASSUME IInv, EndBlocks
  PROVE  IInv'
<1>1. /\ TypeOK /\ Idle /\ FlowInv /\ HandlersMarked
      /\ pc = "handle" /\ pc' = "done" /\ next = N + 1
      /\ UNCHANGED <<body, bbErrMap, ErrSelectInstSet, next, EEV, PV, todo>>
  BY DEF IInv, EndBlocks
<1>2. TypeOK' /\ Idle'
  BY <1>1 DEF TypeOK, Idle
<1>3. ReturnsFollowed'
  <2>1. Ahead' = Ahead
    BY <1>1 DEF Ahead
  <2> QED
    BY <1>1, <2>1 DEF FlowInv, ReturnsFollowed
<1>4. FlowInv'
  BY <1>1, <1>2, <1>3, SameMap, StillFlowInv
<1>5. \A b \in Block : Visited(b) /\ (Visited(b))'
  BY <1>1, NAssumption DEF Visited, Block
<1>6. HandlersMarked'
  BY <1>1, <1>5 DEF HandlersMarked
<1> QED
  BY <1>2, <1>4, <1>6 DEF IInv

LEMMA FlowIInv ==
  ASSUME IInv, Flow
  PROVE  IInv'
<1>1. TypeOK /\ Idle /\ FlowInv /\ HandlersMarked
  BY DEF IInv
<1>2. /\ Frame /\ (Passes \/ Takes(Head(EEV)))
      /\ pc \notin {"handle", "done"} /\ pc' \notin {"handle", "done"}
  BY <1>1, FlowStep
<1>3. FlowInv'
  BY <1>1, <1>2, TakesFlowInv, PassesFlowInv DEF Frame
<1>4. HandlersMarked'
  BY <1>1, <1>2 DEF Frame, HandlersMarked, Visited
<1> QED
  BY <1>2, <1>3, <1>4 DEF Frame, IInv

LEMMA NextIInv == IInv /\ [Next]_vars => IInv'
<1> SUFFICES ASSUME IInv, [Next]_vars
             PROVE  IInv'
  OBVIOUS
<1>1. CASE CheckReturn
  BY <1>1, CheckReturnIInv
<1>2. CASE EndReturns
  BY <1>2, EndReturnsIInv
<1>3. CASE Flow
  BY <1>3, FlowIInv
<1>4. CASE CheckBlock
  BY <1>4, CheckBlockIInv
<1>5. CASE EndBlocks
  BY <1>5, EndBlocksIInv
<1>6. CASE UNCHANGED vars
  <2>1. UNCHANGED <<body, bbErrMap, ErrSelectInstSet, pc, next, EEV, PV, todo>>
    BY <1>6 DEF vars, control
  <2>2. TypeOK' /\ Idle' /\ HandlersMarked'
    BY <2>1 DEF IInv, TypeOK, Idle, HandlersMarked, Visited
  <2>3. AllMarks' = AllMarks /\ Ahead' = Ahead
    BY <2>1, SameMap DEF AllMarks, Ahead
  <2>4. FlowInv'
    BY <2>1, <2>3 DEF IInv, FlowInv, OnlyOrigins, OnlyTheirMarks, MarksMade, FeedsQueued,
                      SelectsKept, ReturnsFollowed
  <2> QED
    BY <2>2, <2>4 DEF IInv
<1> QED
  BY <1>1, <1>2, <1>3, <1>4, <1>5, <1>6 DEF Next, Done

LEMMA Inductive == Spec => []IInv
  BY InitIInv, NextIInv, PTL DEF Spec

-----------------------------------------------------------------------------
(* The loops stay within the function: every value in EEV and PV is one of its      *)
(* values, every site one of its blocks', and checkErrHandle meets its blocks only. *)
THEOREM TypeCorrect == Spec => []TypeOK
<1>1. IInv => TypeOK
  BY DEF IInv
<1> QED
  BY <1>1, Inductive, PTL

(* No order of returns, stores or incoming values marks a block for a value that    *)
(* does not flow into a returned one.                                              *)
THEOREM FlowSoundHolds == Spec => []FlowSound
<1>1. IInv => FlowSound
  BY DEF IInv, FlowInv, OnlyTheirMarks, AllMarks, FlowSound
<1> QED
  BY <1>1, Inductive, PTL

(* When the returns have been followed, all that they come from has been taken.      *)
LEMMA AllTaken ==
  ASSUME IInv, pc \in {"handle", "done"}
  PROVE  PV \cap Instr = Origins(body) /\ AllMarks = ReturnMarked
<1>1. Ahead = {} /\ AllMarks = ReturnMarked
  BY AheadEmpty DEF IInv
<1>2. ReturnsIn(body, PV \cap Instr)
  BY <1>1 DEF IInv, FlowInv, ReturnsFollowed, ReturnsIn
<1>3. FeedsIn(body, PV \cap Instr)
  BY <1>1 DEF IInv, FlowInv, FeedsQueued, FeedsIn
<1>4. Origins(body) \subseteq PV \cap Instr
  BY <1>2, <1>3, OriginsLeast
<1> QED
  BY <1>1, <1>4 DEF IInv, FlowInv, OnlyOrigins

LEMMA AllMarked ==
  ASSUME IInv, pc \in {"handle", "done"}
  PROVE  ReturnMarked = ReturnMarks(body)
<1>1. PV \cap Instr = Origins(body) /\ AllMarks = ReturnMarked
  BY AllTaken
<1>2. ReturnMarked \subseteq ReturnMarks(body)
  BY <1>1 DEF IInv, FlowInv, OnlyTheirMarks
<1>3. ReturnMarks(body) \subseteq ReturnMarked
  BY <1>1 DEF IInv, FlowInv, MarksMade, ReturnMarks
<1> QED
  BY <1>2, <1>3

(* The visited set that all returns of a function share loses no mark.               *)
THEOREM FlowExactHolds == Spec => []FlowExact
<1>1. IInv => FlowExact
  BY AllMarked DEF FlowExact
<1> QED
  BY <1>1, Inductive, PTL

LEMMA SelectsFromInv == IInv => SelectsExact
<1>1. ASSUME IInv
      PROVE  ErrSelectInstSet \subseteq {i \in Origins(body) : OneErrno(body, i)}
  BY <1>1 DEF IInv, FlowInv, OnlyOrigins, SelectsKept
<1>2. ASSUME IInv, pc \in {"handle", "done"}
      PROVE  ErrSelectInstSet = {i \in Origins(body) : OneErrno(body, i)}
  BY <1>2, AllTaken DEF IInv, FlowInv, SelectsKept
<1> QED
  BY <1>1, <1>2 DEF SelectsExact

(* ErrSelectInstSet gets the selects of one error code that a returned value comes    *)
(* from, and no others.                                                            *)
THEOREM SelectsExactHolds == Spec => []SelectsExact
  BY SelectsFromInv, Inductive, PTL

LEMMA HandlersFromInv == IInv => HandlersAdded
<1>1. ASSUME IInv, pc = "done", NEW b \in Block
      PROVE  bbErrMap[b] = {m[2] : m \in {n \in ReturnMarks(body) : n[1] = b}}
                             \cup {"Must_Handle_Err" : x \in body.handlers \cap {b}}
  <2>1. bbErrMap[b] \subseteq Flag
    BY <1>1 DEF IInv, TypeOK
  <2>2. bbErrMap[b] = Returns(bbErrMap[b]) \cup Handles(bbErrMap[b])
    BY <2>1 DEF Flag, Returns, Handles, ReturnMask, HandleMask
  <2>3. Returns(bbErrMap[b]) = {m[2] : m \in {n \in ReturnMarks(body) : n[1] = b}}
    <3>1. ReturnMarked = ReturnMarks(body)
      BY <1>1, AllMarked
    <3>2. {m[2] : m \in {n \in ReturnMarked : n[1] = b}} = Returns(bbErrMap[b])
      <4>1. \A m : <<b, m>> \in ReturnMarked <=> m \in Returns(bbErrMap[b])
        BY DEF ReturnMarked
      <4>2. \A n \in ReturnMarked : n = <<n[1], n[2]>>
        BY DEF ReturnMarked
      <4>3. ASSUME NEW n \in ReturnMarked, n[1] = b
            PROVE  n[2] \in Returns(bbErrMap[b])
        <5>1. n = <<b, n[2]>>
          BY <4>2, <4>3
        <5> QED
          BY <4>1, <4>3, <5>1
      <4>4. ASSUME NEW m \in Returns(bbErrMap[b])
            PROVE  \E n \in ReturnMarked : n[1] = b /\ n[2] = m
        <5>1. <<b, m>> \in ReturnMarked
          BY <4>1, <4>4
        <5>2. <<b, m>>[1] = b /\ <<b, m>>[2] = m
          OBVIOUS
        <5> QED
          BY <5>1, <5>2
      <4> DEFINE M == {m[2] : m \in {n \in ReturnMarked : n[1] = b}}
      <4>5. \A x : x \in M <=> \E n \in ReturnMarked : n[1] = b /\ n[2] = x
        OBVIOUS
      <4> HIDE DEF M
      <4>6. \A x : x \in M <=> x \in Returns(bbErrMap[b])
        BY <4>3, <4>4, <4>5
      <4>7. M = Returns(bbErrMap[b])
        BY <4>6
      <4> QED
        BY <4>7 DEF M
    <3> QED
      BY <3>1, <3>2
  <2>4. Handles(bbErrMap[b]) = {"Must_Handle_Err" : x \in body.handlers \cap {b}}
    <3>1. Handles(bbErrMap[b]) = IF b \in body.handlers THEN {"Must_Handle_Err"} ELSE {}
      BY <1>1 DEF IInv, HandlersMarked, Visited
    <3> QED
      BY <3>1
  <2> QED
    BY <2>2, <2>3, <2>4
<1> QED
  BY <1>1 DEF HandlersAdded

(* In the end every block has the return marks its values call for, and a handle       *)
(* mark exactly if it calls a handler.                                              *)
THEOREM HandlersAddedHolds == Spec => []HandlersAdded
  BY HandlersFromInv, Inductive, PTL
=============================================================================
