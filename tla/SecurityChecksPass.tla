--------------------------- MODULE SecurityChecksPass ---------------------------
(***************************************************************************)
(* SecurityChecksPass::doModulePass over all functions, once for -sc and once    *)
(* more for -mc: for every function ErrValueFlow fills bbErrMap, MarkEdges marks   *)
(* the edges and finds the branches that are checks, and the selects of the       *)
(* function that are in ErrSelectInstSet are added.  That set is static and never  *)
(* cleared.  A function is what its blocks are in the whole program, since the     *)
(* value a global variable holds may come from another function.  phase:         *)
(*   "start"    before a function       "blocks"   its bbErrMap is filled         *)
(*   "edges"    its edges are marked and its branches looked at                    *)
(*   "done".                                                                   *)
(* A record of Programs has, besides the fields of FlowIR's Bodies:               *)
(*   owner[b]   the function of block b, with entry 1 or without branches to it;   *)
(*   returns, pointer   those of each function;                                  *)
(*   cond[b], selectCond[i]   the value the terminator of b, or select i, tests,   *)
(*              named by a block number;                                         *)
(*   order      the functions that have a body, are unified and not too large;     *)
(*   runs       how often the pass is run.                                      *)
(***************************************************************************)
EXTENDS Integers, Sequences, FiniteSets, Functions

CONSTANTS N, Instr, Cell, Fun, Programs

VARIABLES
  prog,                                    \* never changes
  phase, run, n,
  CheckInstSets, NumSecurityChecks,        \* members of GlobalContext
  body, bbErrMap, ErrSelectInstSet, flowPc, next, EEV, PV, sites,      \* ErrValueFlow
  fn, edgeErr, markPc, cur, outer, todo, EB, PB, EEP, PE, at, IntFlag, checks   \* MarkEdges

flowVars == <<body, bbErrMap, ErrSelectInstSet, flowPc, next, EEV, PV, sites>>
markVars == <<fn, edgeErr, markPc, cur, outer, todo, EB, PB, EEP, PE, at, IntFlag, checks>>
passVars == <<phase, run, n, CheckInstSets, NumSecurityChecks>>
vars == <<prog, passVars, flowVars, markVars>>

Block == 1 .. N
Value == Instr \cup {"errno", "null", "constant", "argument"}

Flow == INSTANCE ErrValueFlow WITH pc <- flowPc, todo <- sites, Bodies <- {}
Mark == INSTANCE MarkEdges WITH pc <- markPc, Functions <- {}

ASSUME NAssumption == N \in Nat \ {0}

ASSUME InstrAssumption == Instr \cap {"errno", "null", "constant", "argument"} = {}

ASSUME ProgramsAssumption ==
  \A q \in Programs :
    /\ q.succ \in [Block -> Seq(Block)] /\ q.test \in [Block -> SUBSET Instr]
    /\ q.home \in [Instr -> Block] /\ q.op \in [Instr -> Flow!Op]
    /\ q.stores \subseteq Flow!Store /\ q.handlers \subseteq Block
    /\ q.owner \in [Block -> Fun]
    /\ q.returns \in [Fun -> Seq(Flow!Site)] /\ q.pointer \in [Fun -> BOOLEAN]
    /\ q.cond \in [Block -> Block] /\ q.selectCond \in [Instr -> Block]
    /\ q.order \in Seq(Fun) /\ q.order # <<>> /\ IsInjective(q.order)
    /\ q.runs \in Nat \ {0}
    /\ \A b \in Block : \A k \in DOMAIN q.succ[b] : q.succ[b][k] # 1

BodyOf(f) ==
  [succ |-> prog.succ, test |-> prog.test, home |-> prog.home, op |-> prog.op, stores |-> prog.stores,
   returns |-> prog.returns[f], pointer |-> prog.pointer[f],
   handlers |-> {b \in prog.handlers : prog.owner[b] = f}]

GraphOf(f, flags) ==
  [succ |-> [b \in Block |-> IF prog.owner[b] = f THEN prog.succ[b] ELSE <<>>],
   bbErr |-> [b \in Block |-> IF prog.owner[b] = f THEN flags[b] ELSE {}],
   cond |-> prog.cond]

F == prog.order[n]

Init ==
  /\ prog \in Programs
  /\ phase = "start" /\ run = 1 /\ n = 1
  /\ CheckInstSets = [f \in Fun |-> {}] /\ NumSecurityChecks = 0
  /\ body = BodyOf(prog.order[1]) /\ ErrSelectInstSet = {}
  /\ bbErrMap = [b \in Block |-> {}]
  /\ flowPc = "return" /\ next = 1 /\ EEV = <<>> /\ PV = {} /\ sites = {}
  /\ fn = GraphOf(prog.order[1], bbErrMap) /\ edgeErr = [e \in Block \X Block |-> {}]
  /\ markPc = "block" /\ cur = 1 /\ outer = {} /\ todo = {} /\ EB = <<>> /\ PB = {}
  /\ EEP = <<>> /\ PE = {} /\ at = <<1, 1>> /\ IntFlag = {} /\ checks = {}

(* Mutant: the selects found before are forgotten.                              *)
StartFunction_Reset ==
  /\ phase = "start" /\ phase' = "blocks"
  /\ body' = BodyOf(F)
  /\ bbErrMap' = [b \in Block |-> {}]
  /\ flowPc' = "return" /\ next' = 1 /\ EEV' = <<>> /\ PV' = {} /\ sites' = {}
  /\ ErrSelectInstSet' = {}
  /\ UNCHANGED <<prog, run, n, CheckInstSets, NumSecurityChecks, markVars>>

StartFunction ==
  /\ phase = "start" /\ phase' = "blocks"
  /\ body' = BodyOf(F)
  /\ bbErrMap' = [b \in Block |-> {}]
  /\ flowPc' = "return" /\ next' = 1 /\ EEV' = <<>> /\ PV' = {} /\ sites' = {}
  /\ UNCHANGED <<prog, run, n, CheckInstSets, NumSecurityChecks, ErrSelectInstSet, markVars>>

FindErrBlocks ==
  /\ phase = "blocks" /\ flowPc # "done"
  /\ Flow!Next
  /\ UNCHANGED <<prog, passVars, markVars>>

StartMarking ==
  /\ phase = "blocks" /\ flowPc = "done" /\ phase' = "edges"
  /\ fn' = GraphOf(F, bbErrMap)
  /\ edgeErr' = [e \in Block \X Block |-> {}]
  /\ markPc' = "block" /\ cur' = 1 /\ outer' = {} /\ todo' = {} /\ EB' = <<>> /\ PB' = {}
  /\ EEP' = <<>> /\ PE' = {} /\ at' = <<1, 1>> /\ IntFlag' = {} /\ checks' = {}
  /\ UNCHANGED <<prog, run, n, CheckInstSets, NumSecurityChecks, flowVars>>

FindChecks ==
  /\ phase = "edges" /\ markPc # "done"
  /\ Mark!Next
  /\ UNCHANGED <<prog, passVars, flowVars>>

(* Mutant: all selects are taken, those of other functions, too.                   *)
Selects_All(f) == ErrSelectInstSet
Selects(f) == {i \in ErrSelectInstSet : prog.owner[prog.home[i]] = f}

(* SCSet in the end: a condition is in it once, whether a branch or a select tests it. *)
SCSet == {c.cond : c \in checks} \cup {prog.selectCond[i] : i \in Selects(F)}

(* Mutant: the checks of branches and of selects are counted one by one.             *)
Counted_Apart(S) == Cardinality(checks) + Cardinality(Selects(F))
Counted(S) == Cardinality(S)

(* The next function, or the next run.                                          *)
EndFunction ==
  /\ phase = "edges" /\ markPc = "done"
  /\ CheckInstSets' = [CheckInstSets EXCEPT ![F] = @ \cup SCSet]
  /\ NumSecurityChecks' = NumSecurityChecks + Counted(SCSet)
  /\ IF n < Len(prog.order) THEN n' = n + 1 /\ phase' = "start" /\ UNCHANGED run
     ELSE IF run < prog.runs THEN n' = 1 /\ phase' = "start" /\ run' = run + 1
     ELSE phase' = "done" /\ UNCHANGED <<n, run>>
  /\ UNCHANGED <<prog, flowVars, markVars>>

Done == phase = "done" /\ UNCHANGED vars

Next == StartFunction \/ FindErrBlocks \/ StartMarking \/ FindChecks \/ EndFunction \/ Done

Spec == Init /\ [][Next]_vars /\ WF_vars(Next)
-----------------------------------------------------------------------------

Analysed == Range(prog.order)
MustBlocks(f) ==
  {b \in Block : prog.owner[b] = f /\ <<b, "Must_Return_Err">> \in Flow!ReturnMarks(BodyOf(f))}
Graph(f) ==
  GraphOf(f, [b \in Block |-> IF b \in prog.handlers THEN {"Must_Handle_Err"} ELSE {}])

(* The branches of f one of whose edges leads straight to a handler.               *)
Guards(f) ==
  LET straight == Mark!HandleEdges(Graph(f)) IN
  {b \in Block : \E d \in straight, e \in Mark!EdgesOf(Graph(f)) \ straight : d[1] = b /\ e[1] = b}
Near(f) ==
  LET m == MustBlocks(f) IN Mark!Ahead(Graph(f), m) \cup Mark!Behind(Graph(f), m)

(* The selects of one error code that f returns, and those it finds by the end: its own, *)
(* and those of it that a function analysed before, or in the run before, returns from   *)
(* a global variable.                                                          *)
Returned(f) == {i \in Flow!Origins(BodyOf(f)) : Flow!OneErrno(BodyOf(f), i)}
Known(f) ==
  LET before == IF prog.runs > 1 THEN DOMAIN prog.order
                ELSE {k \in DOMAIN prog.order : f \in Range(SubSeq(prog.order, k, Len(prog.order)))} IN
  {i \in UNION {Returned(prog.order[k]) : k \in before} : prog.owner[prog.home[i]] = f}

(* Of every function the branches that guard a handler and the known selects are found,  *)
(* whatever its other marks are.                                                *)
ChecksFound ==
  phase = "done" =>
    \A f \in Analysed :
      {prog.cond[b] : b \in Guards(f)} \cup {prog.selectCond[i] : i \in Known(f)} \subseteq CheckInstSets[f]

(* No other check is found: what is not a known select is the condition of a branch that *)
(* guards a handler or lies on a path with a block that a returned error marks.       *)
ChecksExplained ==
  phase = "done" =>
    \A f \in Analysed :
      CheckInstSets[f] \subseteq
        {prog.selectCond[i] : i \in Known(f)}
          \cup {prog.cond[b] : b \in {x \in Guards(f) \cup Near(f) : Len(Graph(f).succ[x]) > 1}}

(* NumSecurityChecks counts every check once per run.  Each run finds the same, unless a *)
(* block is marked both Must and May or a switch has three targets, where the order of   *)
(* predecessors matters, or a function returns the selects of another, which the first   *)
(* run may find too late.                                                       *)
SameInAllRuns ==
  \A f \in Analysed :
    /\ Mark!TwoWay(Graph(f))
    /\ Flow!Origins(BodyOf(f)) \subseteq {i \in Instr : prog.owner[prog.home[i]] = f}
    /\ \A b \in Block : ~Flow!ReturnMask \subseteq {m[2] : m \in {x \in Flow!ReturnMarks(BodyOf(f)) : x[1] = b}}
CountsAgree ==
  phase = "done" /\ SameInAllRuns =>
    NumSecurityChecks =
      prog.runs * Cardinality({x \in Analysed \X Block : x[2] \in CheckInstSets[x[1]]})
=============================================================================
