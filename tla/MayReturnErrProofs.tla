-------------------------- MODULE MayReturnErrProofs --------------------------
(***************************************************************************)
(* Proofs about MayReturnErr, for every set of functions, and every code of     *)
(* theirs, of any length and however recursive.                              *)
(***************************************************************************)
EXTENDS MayReturnErr, SequenceTheorems, TLAPS

-----------------------------------------------------------------------------
(* Instructions.                                                             *)

LEMMA InstrFacts ==
  ASSUME NEW i \in Instr
  PROVE  /\ i.kind \in {"store", "call", "return"}
         /\ i.kind = "store" => i.errno \in BOOLEAN
         /\ i.kind # "store" => i.callee \in Func \cup {NoFunc}
         /\ LeadsTo(i) \subseteq Func
<1>1. /\ i.kind \in {"store", "call", "return"}
      /\ i.kind = "store" => i.errno \in BOOLEAN
      /\ i.kind # "store" => i.callee \in Func \cup {NoFunc}
  BY DEF Instr
<1> QED
  BY <1>1 DEF LeadsTo

LEMMA CodeFacts ==
  ASSUME NEW c \in Code, NEW f \in Func
  PROVE  /\ c[f] \in Seq(Instr) /\ Len(c[f]) \in Nat /\ DOMAIN c[f] = 1 .. Len(c[f])
         /\ \A j \in DOMAIN c[f] : c[f][j] \in Instr
<1>1. c[f] \in Seq(Instr)
  BY CodeAssumption
<1> QED
  BY <1>1, LenProperties, ElementOfSeq

(* The worklist.                                                             *)

LEMMA HeadTailRange ==
  ASSUME NEW Q \in Seq(Func), Q # <<>>
  PROVE  /\ Head(Q) \in Func /\ Tail(Q) \in Seq(Func)
         /\ Range(Q) = {Head(Q)} \cup Range(Tail(Q))
<1>1. /\ Head(Q) \in Func /\ Tail(Q) \in Seq(Func)
      /\ Head(Q) = Q[1] /\ Len(Q) \in Nat \ {0} /\ Len(Tail(Q)) = Len(Q) - 1
      /\ \A j \in 1 .. Len(Tail(Q)) : Tail(Q)[j] = Q[j + 1]
  BY HeadTailProperties, EmptySeq
<1>2. /\ Range(Q) = {Q[j] : j \in 1 .. Len(Q)}
      /\ Range(Tail(Q)) = {Tail(Q)[j] : j \in 1 .. Len(Tail(Q))}
  BY <1>1, RangeEquality, ZenonT(60)
<1>3. ASSUME NEW j \in 2 .. Len(Q)
      PROVE  j - 1 \in 1 .. Len(Tail(Q)) /\ Tail(Q)[j - 1] = Q[j]
  <2>1. j - 1 \in 1 .. Len(Tail(Q)) /\ (j - 1) + 1 = j
    BY <1>1, <1>3
  <2> QED
    BY <1>1, <2>1
<1>4. \A j \in 1 .. Len(Tail(Q)) : j + 1 \in 2 .. Len(Q) /\ Tail(Q)[j] = Q[j + 1]
  BY <1>1
<1>5. Range(Tail(Q)) = {Q[j] : j \in 2 .. Len(Q)}
  <2>1. ASSUME NEW j \in 2 .. Len(Q)
        PROVE  Q[j] \in Range(Tail(Q))
    BY <1>2, <1>3
  <2>2. ASSUME NEW j \in 1 .. Len(Tail(Q))
        PROVE  Tail(Q)[j] \in {Q[l] : l \in 2 .. Len(Q)}
    BY <1>4
  <2> QED
    BY <1>2, <2>1, <2>2
<1>6. 1 .. Len(Q) = {1} \cup 2 .. Len(Q)
  BY <1>1
<1>7. Range(Q) = {Q[1]} \cup {Q[j] : j \in 2 .. Len(Q)}
  BY <1>2, <1>6
<1> QED
  BY <1>1, <1>5, <1>7

LEMMA PushRange ==
  ASSUME EF \in Seq(Func), NEW callee \in Func \cup {NoFunc}
  PROVE  Push(callee) \in Seq(Func) /\ Range(Push(callee)) = Range(EF) \cup ({callee} \ {NoFunc})
<1>1. CASE callee = NoFunc
  BY <1>1 DEF Push
<1>2. CASE callee # NoFunc
  <2>1. Push(callee) = EF \o <<callee>> /\ Push(callee) \in Seq(Func)
    BY <1>2, AppendIsConcat, AppendProperties DEF Push
  <2>2. <<callee>> \in Seq(Func) /\ Range(<<callee>>) = {callee}
    BY <1>2 DEF Range
  <2>3. \A s1, s2 \in Seq(Func) : Range(s1 \o s2) = Range(s1) \cup Range(s2)
    BY ONLY RangeConcatenation
  <2>4. Range(EF \o <<callee>>) = Range(EF) \cup Range(<<callee>>)
    BY <2>2, <2>3
  <2> QED
    BY <1>2, <2>1, <2>2, <2>4
<1> QED
  BY <1>1, <1>2

-----------------------------------------------------------------------------
(* Searched is the least set of functions that holds F and, with each function,  *)
(* those it leads to.                                                         *)

Closed(S) == F \in S /\ \A f \in S : \A j \in DOMAIN code[f] : LeadsTo(code[f][j]) \subseteq S

LEMMA SearchedLeast ==
  ASSUME NEW S \in SUBSET Func, Closed(S)
  PROVE  Searched \subseteq S
  BY DEF Searched, Closed

LEMMA SearchedClosed ==
  ASSUME F \in Func, code \in Code
  PROVE  Searched \subseteq Func /\ Closed(Searched)
<1> DEFINE closed == {S \in SUBSET Func : Closed(S)}
<1>1. Searched = {f \in Func : \A S \in closed : f \in S}
  BY DEF Searched, Closed
<1>2. F \in Searched
  BY <1>1 DEF Closed
<1>3. ASSUME NEW f \in Searched, NEW j \in DOMAIN code[f], NEW g \in LeadsTo(code[f][j])
      PROVE  g \in Searched
  <2>1. f \in Func /\ g \in Func
    BY <1>1, <1>3, CodeFacts, InstrFacts
  <2>2. ASSUME NEW S \in closed
        PROVE  g \in S
    BY <1>1, <1>3, <2>2 DEF Closed
  <2> HIDE DEF closed
  <2> QED
    BY <1>1, <2>1, <2>2
<1> QED
  BY <1>1, <1>2, <1>3 DEF Closed

-----------------------------------------------------------------------------
(* The invariant.  While no evidence has been met, what was scanned has none and  *)
(* its callees are on the list or were taken from it.                          *)

TypeOK ==
  /\ code \in Code /\ F \in Func
  /\ EF \in Seq(Func) /\ PF \subseteq Func
  /\ TF \in Func \cup {NoFunc} /\ k \in Nat \ {0}
  /\ answer \in {"none", "yes", "no"}

Known == PF \cup Range(EF)

Scanned(f, j) == f = TF => j < k

OnlySearched == F \in Known /\ Known \subseteq Searched /\ TF \in PF \cup {NoFunc}

NothingMissed ==
  answer # "yes" =>
    \A f \in PF : \A j \in DOMAIN code[f] :
      Scanned(f, j) => ~Evidence(code[f][j]) /\ LeadsTo(code[f][j]) \subseteq Known

IInv ==
  /\ TypeOK
  /\ OnlySearched
  /\ NothingMissed
  /\ answer = "yes" => Found
  /\ answer = "no" => EF = <<>> /\ TF = NoFunc

LEMMA SameSearch ==
  ASSUME UNCHANGED <<code, F>>
  PROVE  Searched' = Searched /\ (Found' <=> Found)
<1>1. Searched' = Searched
  BY DEF Searched
<1> QED
  BY <1>1 DEF Found

LEMMA InitIInv == Init => IInv
<1> SUFFICES ASSUME Init
             PROVE  IInv
  OBVIOUS
<1>1. EF \in Seq(Func) /\ Range(EF) = {F}
  BY DEF Init, Range
<1>2. TypeOK
  BY <1>1 DEF Init, TypeOK
<1>3. F \in Searched
  BY <1>2, SearchedClosed DEF TypeOK, Closed
<1> QED
  BY <1>1, <1>2, <1>3 DEF Init, IInv, OnlySearched, NothingMissed, Known

LEMMA TakeIInv ==
  ASSUME IInv, Take
  PROVE  IInv'
<1> DEFINE h == Head(EF)
<1>1. /\ TypeOK /\ OnlySearched /\ NothingMissed /\ answer = "none" /\ TF = NoFunc
      /\ EF' = Tail(EF) /\ PF' = PF \cup {h} /\ TF' = (IF h \in PF THEN NoFunc ELSE h) /\ k' = 1
      /\ UNCHANGED <<code, F, answer>>
  BY DEF IInv, Take
<1>2. /\ h \in Func /\ Tail(EF) \in Seq(Func)
      /\ Range(EF) = {h} \cup Range(Tail(EF))
  BY <1>1, HeadTailRange DEF Take, TypeOK
<1> HIDE DEF h
<1>3. TypeOK'
  BY <1>1, <1>2 DEF TypeOK
<1>4. Known' = Known
  BY <1>1, <1>2 DEF Known
<1>5. OnlySearched'
  BY <1>1, <1>4, SameSearch DEF OnlySearched
<1>6. ASSUME NEW f \in PF', NEW j \in DOMAIN code[f], Scanned(f, j)'
      PROVE  f \in PF /\ Scanned(f, j)
  <2>1. f \in Func /\ j \in Nat \ {0}
    BY <1>1, <1>3, <1>6, CodeFacts DEF TypeOK
  <2>2. f # NoFunc
    BY <2>1, NoFuncAssumption
  <2>3. ~(j < 1)
    BY <2>1
  <2>4. f # TF'
    BY <1>1, <1>6, <2>3 DEF Scanned
  <2> QED
    BY <1>1, <2>2, <2>4 DEF Scanned
<1>7. NothingMissed'
  BY <1>1, <1>4, <1>6 DEF NothingMissed
<1> QED
  BY <1>1, <1>3, <1>5, <1>7 DEF IInv

(* The instruction scanned is one of a function that was taken.                *)
LEMMA Current ==
  ASSUME IInv, NEW kind, At(kind)
  PROVE  /\ TF \in PF /\ TF \in Func /\ k \in DOMAIN code[TF]
         /\ code[TF][k] \in Instr /\ code[TF][k].kind = kind
         /\ TF \in Searched /\ LeadsTo(code[TF][k]) \subseteq Searched
<1>1. TF \in PF /\ TF \in Func /\ TypeOK /\ k \in Nat \ {0} /\ k <= Len(code[TF])
  BY DEF IInv, OnlySearched, TypeOK, At
<1>2. k \in DOMAIN code[TF] /\ code[TF][k] \in Instr
  BY <1>1, CodeFacts DEF TypeOK
<1>3. TF \in Searched
  BY <1>1 DEF IInv, OnlySearched, Known
<1>4. LeadsTo(code[TF][k]) \subseteq Searched
  BY <1>1, <1>2, <1>3, SearchedClosed DEF TypeOK, Closed
<1> QED
  BY <1>1, <1>2, <1>3, <1>4 DEF At

(* An instruction with evidence settles the answer.                           *)
LEMMA YesIInv ==
  ASSUME IInv, NEW kind, At(kind), Evidence(code[TF][k]), answer' = "yes", k' = k + 1,
         UNCHANGED <<code, F, EF, PF, TF>>
  PROVE  IInv'
<1>1. Found
  BY Current DEF Found
<1>2. TypeOK'
  BY DEF IInv, TypeOK
<1>3. OnlySearched' /\ Found'
  BY <1>1, SameSearch DEF IInv, OnlySearched, Known
<1> QED
  BY <1>2, <1>3 DEF IInv, NothingMissed

(* One without leads to functions that join the list.                         *)
LEMMA NextInstrIInv ==
  ASSUME IInv, NEW kind, At(kind), ~Evidence(code[TF][k]), k' = k + 1,
         EF' \in Seq(Func), Range(EF') = Range(EF) \cup LeadsTo(code[TF][k]),
         UNCHANGED <<code, F, PF, TF, answer>>
  PROVE  IInv'
<1>1. /\ TypeOK /\ OnlySearched /\ NothingMissed /\ answer = "none"
      /\ TF \in PF /\ LeadsTo(code[TF][k]) \subseteq Searched
  BY Current DEF IInv, At
<1>2. TypeOK'
  BY <1>1 DEF TypeOK
<1>3. Known' = Known \cup LeadsTo(code[TF][k])
  BY DEF Known
<1>4. OnlySearched'
  BY <1>1, <1>3, SameSearch DEF OnlySearched
<1>5. ASSUME NEW f \in PF, NEW j \in DOMAIN code[f], Scanned(f, j)'
      PROVE  Scanned(f, j) \/ (f = TF /\ j = k)
  <2>1. j \in Nat /\ k \in Nat
    BY <1>1, CodeFacts DEF TypeOK
  <2> QED
    BY <1>1, <1>5, <2>1 DEF Scanned
<1>6. NothingMissed'
  BY <1>1, <1>3, <1>5 DEF NothingMissed
<1> QED
  BY <1>1, <1>2, <1>4, <1>6 DEF IInv

LEMMA NextIInv == IInv /\ [Next]_vars => IInv'
<1> SUFFICES ASSUME IInv, [Next]_vars
             PROVE  IInv'
  OBVIOUS
<1> DEFINE i == code[TF][k]
<1>1. CASE Take
  BY <1>1, TakeIInv
<1>2. CASE Store
  <2>1. At("store") /\ i.kind = "store" /\ i \in Instr
    BY <1>2, Current DEF Store
  <2>2. (Evidence(i) <=> i.errno) /\ LeadsTo(i) = {}
    BY <2>1, InstrFacts DEF Evidence, LeadsTo
  <2>3. CASE i.errno
    BY <1>2, <2>1, <2>2, <2>3, YesIInv DEF Store
  <2>4. CASE ~i.errno
    BY <1>2, <2>1, <2>2, <2>4, NextInstrIInv DEF Store, At, IInv, TypeOK
  <2> QED
    BY <2>3, <2>4
<1>3. CASE Call
  <2>1. At("call") /\ i.kind = "call" /\ i \in Instr /\ i.callee \in Func \cup {NoFunc}
    BY <1>3, Current, InstrFacts DEF Call
  <2>2. /\ Evidence(i) <=> i.pointer \/ (i.direct /\ i.errPtr)
        /\ LeadsTo(i) = IF i.direct THEN {i.callee} \ {NoFunc} ELSE {}
    BY <2>1 DEF Evidence, LeadsTo
  <2>3. CASE Evidence(i)
    <3>1. answer' = "yes" /\ EF' = EF /\ k' = k + 1 /\ UNCHANGED <<code, F, PF, TF>>
      BY <1>3, <2>2, <2>3 DEF Call
    <3> QED
      BY <2>1, <2>3, <3>1, YesIInv
  <2>4. CASE ~Evidence(i)
    <3>1. /\ answer' = "none" /\ answer = "none" /\ k' = k + 1
          /\ EF' = (IF i.direct THEN Push(i.callee) ELSE EF)
          /\ UNCHANGED <<code, F, PF, TF>>
      BY <1>3, <2>2, <2>4 DEF Call, At
    <3>2. EF \in Seq(Func)
      BY DEF IInv, TypeOK
    <3>3. EF' \in Seq(Func) /\ Range(EF') = Range(EF) \cup LeadsTo(i)
      BY <2>1, <2>2, <3>1, <3>2, PushRange
    <3> QED
      BY <2>1, <2>4, <3>1, <3>3, NextInstrIInv
  <2> QED
    BY <2>3, <2>4
<1>4. CASE Return
  <2>1. /\ At("return") /\ i.kind = "return" /\ i \in Instr /\ i.callee \in Func \cup {NoFunc}
        /\ EF \in Seq(Func)
    BY <1>4, Current, InstrFacts DEF Return, IInv, TypeOK
  <2>2. ~Evidence(i) /\ LeadsTo(i) = {i.callee} \ {NoFunc}
    BY <2>1 DEF Evidence, LeadsTo
  <2>3. EF' \in Seq(Func) /\ Range(EF') = Range(EF) \cup LeadsTo(i)
    BY <1>4, <2>1, <2>2, PushRange DEF Return
  <2> QED
    BY <1>4, <2>1, <2>2, <2>3, NextInstrIInv DEF Return
<1>5. CASE EndFunction
  <2>1. /\ TypeOK /\ OnlySearched /\ NothingMissed /\ answer = "none"
        /\ TF \in Func /\ k > Len(code[TF]) /\ TF' = NoFunc
        /\ UNCHANGED <<code, F, EF, PF, k, answer>>
    BY <1>5 DEF EndFunction, IInv, TypeOK
  <2>2. ASSUME NEW f \in PF, NEW j \in DOMAIN code[f]
        PROVE  Scanned(f, j)
    <3>1. f = TF => j \in 1 .. Len(code[TF]) /\ Len(code[TF]) \in Nat /\ k \in Nat
      BY <2>1, CodeFacts DEF TypeOK
    <3> QED
      BY <2>1, <3>1 DEF Scanned
  <2>3. TypeOK' /\ OnlySearched' /\ Known' = Known
    BY <2>1, SameSearch DEF TypeOK, OnlySearched, Known
  <2>4. NothingMissed'
    BY <2>1, <2>2, <2>3 DEF NothingMissed
  <2> QED
    BY <2>1, <2>3, <2>4 DEF IInv
<1>6. CASE AnswerNo
  <2>1. TypeOK' /\ OnlySearched' /\ Known' = Known
    BY <1>6, SameSearch DEF AnswerNo, IInv, TypeOK, OnlySearched, Known
  <2>2. NothingMissed'
    BY <1>6, <2>1 DEF AnswerNo, IInv, NothingMissed, Scanned
  <2> QED
    BY <1>6, <2>1, <2>2 DEF AnswerNo, IInv
<1>7. CASE UNCHANGED vars
  BY <1>7, SameSearch DEF vars, IInv, TypeOK, OnlySearched, NothingMissed, Known, Scanned
<1> QED
  BY <1>1, <1>2, <1>3, <1>4, <1>5, <1>6, <1>7 DEF Next, Done

LEMMA Inductive == Spec => []IInv
  BY InitIInv, NextIInv, PTL DEF Spec

-----------------------------------------------------------------------------
(* The worklists of mayReturnErr hold functions of the module, and the scan       *)
(* indexes within the one that was taken.                                      *)
THEOREM TypeCorrect == Spec => []TypeOK
<1>1. IInv => TypeOK
  BY DEF IInv
<1> QED
  BY <1>1, Inductive, PTL

(* Neither the early returns of mayReturnErr nor its visited set, which a function  *)
(* enters before it is scanned, lose or invent an answer: it says yes exactly if     *)
(* some function reached through first callees stores an error code or calls a       *)
(* function that returns a pointer.                                             *)
THEOREM AnswerExactHolds == Spec => []AnswerExact
<1>1. ASSUME IInv, answer = "no"
      PROVE  ~Found
  <2>1. /\ TypeOK /\ OnlySearched /\ NothingMissed /\ EF = <<>> /\ TF = NoFunc
        /\ Known = PF /\ PF \subseteq Func
    <3>1. EF = <<>> => Range(EF) = {}
      BY DEF Range
    <3> QED
      BY <1>1, <3>1 DEF IInv, TypeOK, Known
  <2>2. ASSUME NEW f \in PF, NEW j \in DOMAIN code[f]
        PROVE  ~Evidence(code[f][j]) /\ LeadsTo(code[f][j]) \subseteq PF
    <3>1. Scanned(f, j)
      BY <2>1, NoFuncAssumption DEF Scanned
    <3> QED
      BY <1>1, <2>1, <3>1 DEF NothingMissed
  <2>3. Searched \subseteq PF
    BY <2>1, <2>2, SearchedLeast DEF OnlySearched, Closed
  <2> QED
    BY <2>2, <2>3 DEF Found
<1>2. IInv => AnswerExact
  BY <1>1 DEF IInv, TypeOK, AnswerExact
<1> QED
  BY <1>2, Inductive, PTL
=============================================================================
