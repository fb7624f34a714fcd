----------------------------- MODULE ErrValueFlow -----------------------------
(***************************************************************************)
(* How SecurityChecksPass fills bbErrMap for one function: checkErrReturn,     *)
(* which follows every returned value backwards with checkErrValueFlow, then  *)
(* checkErrHandle.  pc names the loop the program is in:                      *)
(*   "return"   the loop over the return instructions                         *)
(*   "flow"     the worklist EEV of one of them                               *)
(*   "sites"    the loop over the stores to a pointer, or over the incoming    *)
(*              values of a phi (todo); stores in any order, LLVM's order of   *)
(*              users being an accident of how the module was built           *)
(*   "handle"   the loop over the blocks, then "done".                        *)
(* EEV also carries an edge with each value, which no code reads.             *)
(***************************************************************************)
EXTENDS FlowIR

VARIABLES
  body,               \* the function; never changes
  bbErrMap,           \* {} for the blocks it has no entry for
  ErrSelectInstSet,
  pc,
  next,               \* index of the return instruction, or block, to visit next
  EEV,                \* worklist of values
  PV,                 \* values taken from it, for this or an earlier return
  todo                \* sites still to visit

control == <<pc, next, EEV, PV, todo>>
vars == <<body, bbErrMap, ErrSelectInstSet, control>>

TypeOK ==
  /\ body \in Bodies
  /\ bbErrMap \in [Block -> SUBSET Flag]
  /\ ErrSelectInstSet \subseteq Instr
  /\ pc \in {"return", "flow", "sites", "handle", "done"}
  /\ next \in Nat \ {0}
  /\ pc = "handle" => next \in 1 .. N + 1
  /\ EEV \in Seq(Value)
  /\ PV \subseteq Value
  /\ todo \subseteq Site

Init ==
  /\ body \in Bodies
  /\ bbErrMap = [b \in Block |-> {}]
  /\ ErrSelectInstSet = {}
  /\ pc = "return" /\ next = 1
  /\ EEV = <<>> /\ PV = {} /\ todo = {}

(* markBBErr, for one or several marks.                                       *)
Marked(marks) ==
  [b \in Block |-> bbErrMap[b] \cup {m[2] : m \in {n \in marks : n[1] = b}}]

-----------------------------------------------------------------------------
(* checkErrReturn.                                                           *)

(* Mutant: only the last return is followed.                                 *)
CheckReturn_Last ==
  /\ pc = "return" /\ next <= Len(body.returns)
  /\ pc' = "flow"
  /\ EEV' = <<body.returns[Len(body.returns)][2]>>
  /\ next' = next + 1
  /\ UNCHANGED <<body, bbErrMap, ErrSelectInstSet, PV, todo>>

CheckReturn ==
  /\ pc = "return" /\ next <= Len(body.returns)
  /\ pc' = "flow"
  /\ EEV' = <<body.returns[next][2]>>
  /\ next' = next + 1
  /\ UNCHANGED <<body, bbErrMap, ErrSelectInstSet, PV, todo>>

EndReturns ==
  /\ pc = "return" /\ next > Len(body.returns)
  /\ pc' = "handle" /\ next' = 1
  /\ UNCHANGED <<body, bbErrMap, ErrSelectInstSet, EEV, PV, todo>>

-----------------------------------------------------------------------------
(* checkErrValueFlow.                                                        *)

(* Constants, arguments and values seen before end the way.                  *)
Skip ==
  /\ pc = "flow" /\ EEV # <<>>
  /\ Head(EEV) \in PV \/ Head(EEV) \notin Instr
  /\ PV' = PV \cup {Head(EEV)}
  /\ EEV' = Tail(EEV)
  /\ UNCHANGED <<body, bbErrMap, ErrSelectInstSet, pc, next, todo>>

(* Mutant: seen values are followed again.                                   *)
Take_Again(kinds) ==
  /\ pc = "flow" /\ EEV # <<>>
  /\ Head(EEV) \in Instr
  /\ body.op[Head(EEV)].kind \in kinds
  /\ PV' = PV \cup {Head(EEV)}

(* An instruction of one of the kinds is taken from EEV.                      *)
Take(kinds) ==
  /\ pc = "flow" /\ EEV # <<>>
  /\ Head(EEV) \in Instr \ PV
  /\ body.op[Head(EEV)].kind \in kinds
  /\ PV' = PV \cup {Head(EEV)}

LoadPhiUnary ==
  /\ Take({"load", "phi", "unary"})
  /\ EEV' = Tail(EEV)
  /\ pc' = "sites" /\ todo' = Sites(body, Head(EEV))
  /\ UNCHANGED <<body, bbErrMap, ErrSelectInstSet, next>>

(* A constant marks the block that supplies it; any other value is followed.  *)
VisitSite ==
  /\ pc = "sites"
  /\ \E s \in todo :
       /\ todo' = todo \ {s}
       /\ IF IsConstant(s[2])
          THEN /\ bbErrMap' = Marked({<<s[1], IF IsValueErrno(body, s[2]) THEN "Must_Return_Err"
                                              ELSE "May_Return_Err">>})
               /\ UNCHANGED EEV
          ELSE /\ EEV' = Append(EEV, s[2])
               /\ UNCHANGED bbErrMap
  /\ UNCHANGED <<body, ErrSelectInstSet, pc, next, PV>>

EndSites ==
  /\ pc = "sites" /\ todo = {}
  /\ pc' = "flow"
  /\ UNCHANGED <<body, bbErrMap, ErrSelectInstSet, next, EEV, PV, todo>>

Followed(v) == IF IsConstant(v) THEN <<>> ELSE <<v>>

(* Mutant: a select of two error codes is a check too.                        *)
Select_AnyErrno ==
  /\ Take({"select"})
  /\ LET i == Head(EEV)
         values == <<body.op[i].yes, body.op[i].no>>
         errs == {k \in 1 .. 2 : IsValueErrno(body, values[k])} IN
     /\ EEV' = Tail(EEV) \o Followed(values[1]) \o Followed(values[2])
     /\ bbErrMap' = IF errs = {} THEN bbErrMap
                    ELSE Marked({<<body.home[i], IF errs = 1 .. 2 THEN "Must_Return_Err"
                                                 ELSE "May_Return_Err">>})
     /\ ErrSelectInstSet' = IF errs # {} THEN ErrSelectInstSet \cup {i} ELSE ErrSelectInstSet
  /\ UNCHANGED <<body, pc, next, todo>>

(* Two error codes mark the block; one makes the select itself a check.       *)
Select ==
  /\ Take({"select"})
  /\ LET i == Head(EEV)
         values == <<body.op[i].yes, body.op[i].no>>
         errs == {k \in 1 .. 2 : IsValueErrno(body, values[k])} IN
     /\ EEV' = Tail(EEV) \o Followed(values[1]) \o Followed(values[2])
     /\ bbErrMap' = IF errs = {} THEN bbErrMap
                    ELSE Marked({<<body.home[i], IF errs = 1 .. 2 THEN "Must_Return_Err"
                                                 ELSE "May_Return_Err">>})
     /\ ErrSelectInstSet' = IF errs \in {{1}, {2}} THEN ErrSelectInstSet \cup {i}
                            ELSE ErrSelectInstSet
  /\ UNCHANGED <<body, pc, next, todo>>

(* Mutant: whatever the branch tests, it is taken to test the result.         *)
Call_Unchecked ==
  /\ Take({"call"})
  /\ LET i == Head(EEV)
         b == body.home[i]
         callee == body.op[i].callee IN
     bbErrMap' =
       CASE callee = "errPtr" -> Marked({<<b, "Must_Return_Err">>})
         [] callee = "noErr"  -> Marked({<<b, "May_Return_Err">>})
         [] callee = "mayErr" ->
              IF Len(body.succ[b]) > 1
              THEN Marked({<<b, "May_Return_Err">>, <<body.succ[b][1], "Must_Return_Err">>})
              ELSE Marked({<<b, "May_Return_Err">>})
         [] callee \in {"indirect", "unresolved"} -> bbErrMap
  /\ EEV' = Tail(EEV)
  /\ UNCHANGED <<body, ErrSelectInstSet, pc, next, todo>>

(* The block of a call that may return an error is marked May, and, when the    *)
(* branch at its end tests the result, the branch's first successor Must:       *)
(* inferErrBranch is 0.                                                       *)
Call ==
  /\ Take({"call"})
  /\ LET i == Head(EEV)
         b == body.home[i]
         callee == body.op[i].callee IN
     bbErrMap' =
       CASE callee = "errPtr" -> Marked({<<b, "Must_Return_Err">>})
         [] callee = "noErr"  -> Marked({<<b, "May_Return_Err">>})
         [] callee = "mayErr" ->
              IF Len(body.succ[b]) > 1 /\ body.test[b] \cap SameVariables(body, i) # {}
              THEN Marked({<<b, "May_Return_Err">>, <<body.succ[b][1], "Must_Return_Err">>})
              ELSE Marked({<<b, "May_Return_Err">>})
         [] callee \in {"indirect", "unresolved"} -> bbErrMap
  /\ EEV' = Tail(EEV)
  /\ UNCHANGED <<body, ErrSelectInstSet, pc, next, todo>>

Binary ==
  /\ Take({"binary"})
  /\ bbErrMap' = Marked({<<body.home[Head(EEV)], "May_Return_Err">>})
  /\ EEV' = Tail(EEV)
  /\ UNCHANGED <<body, ErrSelectInstSet, pc, next, todo>>

(* A comparison, or an instruction the analysis does not know.                *)
Other ==
  /\ Take({"other"})
  /\ EEV' = Tail(EEV)
  /\ UNCHANGED <<body, bbErrMap, ErrSelectInstSet, pc, next, todo>>

EndFlow ==
  /\ pc = "flow" /\ EEV = <<>>
  /\ pc' = "return"
  /\ UNCHANGED <<body, bbErrMap, ErrSelectInstSet, next, EEV, PV, todo>>

-----------------------------------------------------------------------------
(* checkErrHandle.                                                           *)

(* Mutant: the mark replaces what the block had.                             *)
CheckBlock_Replace ==
  /\ pc = "handle" /\ next \in Block
  /\ bbErrMap' = IF next \in body.handlers
                 THEN [bbErrMap EXCEPT ![next] = {"Must_Handle_Err"}] ELSE bbErrMap
  /\ next' = next + 1
  /\ UNCHANGED <<body, ErrSelectInstSet, pc, EEV, PV, todo>>

(* Mutant: the loop runs past the last block.                                *)
CheckBlock_Past ==
  /\ pc = "handle" /\ next <= N + 1
  /\ bbErrMap' = IF next \in body.handlers THEN Marked({<<next, "Must_Handle_Err">>}) ELSE bbErrMap
  /\ next' = next + 1
  /\ UNCHANGED <<body, ErrSelectInstSet, pc, EEV, PV, todo>>

CheckBlock ==
  /\ pc = "handle" /\ next \in Block
  /\ bbErrMap' = IF next \in body.handlers THEN Marked({<<next, "Must_Handle_Err">>}) ELSE bbErrMap
  /\ next' = next + 1
  /\ UNCHANGED <<body, ErrSelectInstSet, pc, EEV, PV, todo>>

EndBlocks ==
  /\ pc = "handle" /\ next = N + 1
  /\ pc' = "done"
  /\ UNCHANGED <<body, bbErrMap, ErrSelectInstSet, next, EEV, PV, todo>>

Done == pc = "done" /\ UNCHANGED vars

-----------------------------------------------------------------------------
Flow == Skip \/ LoadPhiUnary \/ VisitSite \/ EndSites \/ Select \/ Call \/ Binary \/ Other \/ EndFlow

Next == CheckReturn \/ EndReturns \/ Flow \/ CheckBlock \/ EndBlocks \/ Done

Spec == Init /\ [][Next]_vars /\ WF_vars(Next)
-----------------------------------------------------------------------------
(* Properties.                                                               *)

ReturnMarked == UNION {{<<b, m>> : m \in Returns(bbErrMap[b])} : b \in Block}

(* A block is marked only for a value that flows into a returned one, at every   *)
(* moment and in every order of stores and incoming values.                     *)
FlowSound == ReturnMarked \subseteq ReturnMarks(body)

(* After checkErrReturn no such mark is missing, although the returns share PV     *)
(* and a value is followed once only: what a value is followed for does not        *)
(* depend on who asks.                                                            *)
FlowExact == pc \in {"handle", "done"} => ReturnMarked = ReturnMarks(body)

(* The selects kept as checks are those that choose between an error code and       *)
(* something else for a returned value.                                            *)
SelectsExact ==
  /\ ErrSelectInstSet \subseteq {i \in Origins(body) : OneErrno(body, i)}
  /\ pc \in {"handle", "done"} => ErrSelectInstSet = {i \in Origins(body) : OneErrno(body, i)}

(* checkErrHandle adds to what checkErrReturn has found: a block that sets an error    *)
(* code and calls a handler keeps both marks.                                       *)
HandlersAdded ==
  pc = "done" =>
    \A b \in Block : bbErrMap[b] = {m[2] : m \in {n \in ReturnMarks(body) : n[1] = b}}
                                     \cup {"Must_Handle_Err" : x \in body.handlers \cap {b}}

(* The worklist empties, although values may flow in cycles.                          *)
Termination == <>(pc = "done")
=============================================================================
