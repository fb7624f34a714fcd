----------------------------- MODULE MayReturnErr -----------------------------
(***************************************************************************)
(* SecurityChecksPass::mayReturnErr: whether a function, or one it may call,    *)
(* stores an error code or calls something that returns a pointer.  code[f] is  *)
(* the sequence of f's stores, calls and returns, empty when f has no body.     *)
(* The callee of a call, or of the call whose result is returned, is the first  *)
(* of Callees, an input here: more than eight are ordered by address.          *)
(***************************************************************************)
EXTENDS Naturals, Sequences

CONSTANTS Func, NoFunc, Code

Instr == [kind : {"store"}, errno : BOOLEAN]
           \cup [kind : {"call"}, pointer : BOOLEAN, direct : BOOLEAN, errPtr : BOOLEAN,
                 callee : Func \cup {NoFunc}]
           \cup [kind : {"return"}, callee : Func \cup {NoFunc}]

ASSUME NoFuncAssumption == NoFunc \notin Func

ASSUME CodeAssumption == Code \subseteq [Func -> Seq(Instr)]

VARIABLES
  code,    \* never changes
  F,       \* the function asked about
  EF, PF,  \* worklist of functions, functions taken from it
  TF,      \* the function being scanned, NoFunc between two
  k,       \* the index in it
  answer   \* "none" until the function returns

vars == <<code, F, EF, PF, TF, k, answer>>

Init ==
  /\ code \in Code /\ F \in Func
  /\ EF = <<F>> /\ PF = {}
  /\ TF = NoFunc /\ k = 1
  /\ answer = "none"

-----------------------------------------------------------------------------

(* Functions seen before are passed over.  One without a body has nothing to   *)
(* scan.                                                                      *)
Take ==
  /\ answer = "none" /\ TF = NoFunc /\ EF # <<>>
  /\ EF' = Tail(EF)
  /\ PF' = PF \cup {Head(EF)}
  /\ TF' = IF Head(EF) \in PF THEN NoFunc ELSE Head(EF)
  /\ k' = 1
  /\ UNCHANGED <<code, F, answer>>

(* The instruction under the scan.                                           *)
At(kind) == answer = "none" /\ TF # NoFunc /\ k <= Len(code[TF]) /\ code[TF][k].kind = kind

Store ==
  /\ At("store")
  /\ answer' = IF code[TF][k].errno THEN "yes" ELSE "none"
  /\ k' = k + 1
  /\ UNCHANGED <<code, F, EF, PF, TF>>

Push(callee) == IF callee = NoFunc THEN EF ELSE Append(EF, callee)

(* A call that returns a pointer settles the answer, and so does one of ERR_PTR  *)
(* or PTR_ERR; the callee of any other direct call is scanned later.            *)
Call ==
  /\ At("call")
  /\ LET call == code[TF][k] IN
     /\ answer' = IF call.pointer \/ (call.direct /\ call.errPtr) THEN "yes" ELSE "none"
     /\ EF' = IF answer' = "none" /\ call.direct THEN Push(call.callee) ELSE EF
  /\ k' = k + 1
  /\ UNCHANGED <<code, F, PF, TF>>

(* Mutant: the callee of a returned call is forgotten.                        *)
Return_Plain ==
  /\ At("return")
  /\ k' = k + 1
  /\ UNCHANGED <<code, F, EF, PF, TF, answer>>

Return ==
  /\ At("return")
  /\ EF' = Push(code[TF][k].callee)
  /\ k' = k + 1
  /\ UNCHANGED <<code, F, PF, TF, answer>>

EndFunction ==
  /\ answer = "none" /\ TF # NoFunc /\ k > Len(code[TF])
  /\ TF' = NoFunc
  /\ UNCHANGED <<code, F, EF, PF, k, answer>>

AnswerNo ==
  /\ answer = "none" /\ TF = NoFunc /\ EF = <<>>
  /\ answer' = "no"
  /\ UNCHANGED <<code, F, EF, PF, TF, k>>

Done == answer # "none" /\ UNCHANGED vars

Next == Take \/ Store \/ Call \/ Return \/ EndFunction \/ AnswerNo \/ Done

Spec == Init /\ [][Next]_vars /\ WF_vars(Next)
-----------------------------------------------------------------------------
(* An instruction that settles the answer; the function an instruction leads to. *)
Evidence(i) ==
  CASE i.kind = "store" -> i.errno
    [] i.kind = "call"  -> i.pointer \/ (i.direct /\ i.errPtr)
    [] OTHER -> FALSE

LeadsTo(i) ==
  CASE i.kind = "call"   -> IF i.direct THEN {i.callee} \ {NoFunc} ELSE {}
    [] i.kind = "return" -> {i.callee} \ {NoFunc}
    [] OTHER -> {}

(* The functions the search may come to.                                     *)
Searched ==
  LET closed == {S \in SUBSET Func :
                   F \in S /\ \A f \in S : \A j \in DOMAIN code[f] : LeadsTo(code[f][j]) \subseteq S} IN
  {f \in Func : \A S \in closed : f \in S}

Found == \E f \in Searched : \E j \in DOMAIN code[f] : Evidence(code[f][j])

(* The answer is yes exactly if a function that can be reached through first callees *)
(* has an instruction that says so, recursion and the early return included.        *)
AnswerExact == answer # "none" => (answer = "yes" <=> Found)
=============================================================================
