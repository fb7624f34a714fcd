---------------------------- MODULE MissingChecks ----------------------------
(***************************************************************************)
(* MissingChecksPass: the checks of sources and uses are counted over all        *)
(* functions, then, for the same sources and uses, the calls where slicing finds     *)
(* no check; those that are seldom unchecked are reported.  A source is the result  *)
(* of a function (arg -1), what it writes through a parameter, or an argument of     *)
(* an indirect call; a use is an argument of a call.  pc tells where it is:          *)
(*   "aliases"    PointerAnalysisPass, function n                              *)
(*   "checks"     stage 1, function n; todo holds its checks                     *)
(*   "calls"      stage 2, function n; todo holds its calls                      *)
(*   "uses"       stage 2, the arguments of call ci, from arg on                  *)
(*   "backward"   isCheckedBackward of argument arg of ci                         *)
(*   "report"     stage 3;  "done".                                             *)
(***************************************************************************)
EXTENDS DataFlow

VARIABLES
  pc, n, todo, ci, arg,
  CheckCount, UncheckCount, TotalCount,   \* bags of keys: SrcCheckCount, UseCheckCount, ...
  ChecksMap,       \* set of <<key, model of a check>>: SrcChecksMap, UseChecksMap
  UnchecksMap,     \* set of <<key, value>>: SrcUnchecksMap, UseUnchecksMap
  stack,           \* the calls of isCheckedBackward still to be made, the next first
  VSet, isChecked,
  reports          \* the keys printed

countVars == <<CheckCount, UncheckCount, TotalCount, ChecksMap, UnchecksMap>>
sliceVars == <<stack, VSet, isChecked>>
control == <<pc, n, todo, ci, arg>>
vars == <<prog, FuncPAResults, control, countVars, sliceVars, reports>>

Key(role, of, no) == [role |-> role, of |-> of, arg |-> no]
Checked == BagToSet(CheckCount)   \* CheckedSrcSet, CheckedUseSet
Copies(key, counts) == IF key \in DOMAIN counts THEN counts[key] ELSE 0

Init ==
  /\ prog \in Programs
  /\ FuncPAResults = [f \in Fun |-> {}]
  /\ pc = "aliases" /\ n = 1 /\ todo = {} /\ ci = 0 /\ arg = 0
  /\ CheckCount = EmptyBag /\ UncheckCount = EmptyBag /\ TotalCount = EmptyBag
  /\ ChecksMap = {} /\ UnchecksMap = {}
  /\ stack = <<>> /\ VSet = {} /\ isChecked = FALSE
  /\ reports = {}

F == prog.order[n]
Comparisons(f) == {v \in prog.fn[f].checks : Is(v, {"cmp"})}

(* doModulePass skips functions without a body, with too many blocks, or that       *)
(* another stands for.                                                        *)
Analysed == {f \in Range(prog.order) : prog.fn[f].entry # 0 /\ prog.fn[f].analysed}
Work(phase, f) ==
  CASE phase = "checks" /\ f \in Analysed -> Comparisons(f)
    [] phase = "calls" /\ f \in Analysed  -> Of(f, {"call"})
    [] OTHER -> {}

(* Mutant: PointerAnalysisPass says that it changed something.                   *)
Following_Changed(phase) ==
  CASE phase = "aliases" -> "aliases" [] phase = "checks" -> "calls" [] OTHER -> "report"
Following(phase) == CASE phase = "aliases" -> "checks" [] phase = "checks" -> "calls" [] OTHER -> "report"

(* The next function, or the next pass or stage.                               *)
NextFunction ==
  LET last == n = Len(prog.order) IN
  /\ pc' = IF last THEN Following(pc) ELSE pc
  /\ n' = IF last THEN 1 ELSE n + 1
  /\ todo' = Work(pc', prog.order[n'])
  /\ UNCHANGED <<prog, ci, arg, countVars, sliceVars, reports>>

FunctionAliases == pc = "aliases" /\ DetectAliasPointers(F) /\ NextFunction

EndFunction == pc \in {"checks", "calls"} /\ todo = {} /\ NextFunction /\ UNCHANGED FuncPAResults

-----------------------------------------------------------------------------
(* Stage 1.  A key per time it is counted: <<what counts it, key>>.             *)
Counted(E) == [key \in {e[2] : e \in E} |-> Cardinality({e \in E : e[2] = key})]

(* modelCheck; conditions other than constants are not told apart.               *)
SCO(pred) == CASE pred = "ge" -> "gt" [] pred = "le" -> "lt" [] OTHER -> pred
ModelCheck(sc) == <<SCO(prog.op[sc].pred), Is(Arg(sc, 2), {"constant", "global"})>>

(* The function a direct call goes to: the first callee, or the one it names.      *)
Called(c) == IF prog.op[c].callees # <<>> THEN prog.op[c].callees[1] ELSE prog.op[c].callee
Direct(c) == prog.op[c].callee # NoFun
Callers(f) == {c \in Value : Is(c, {"call"}) /\ f \in Range(prog.op[c].callees)}

(* identifyCheckedTargets and the filter behind it.                             *)
Targets(sc) ==
  IF prog.op[sc].pred = "float" THEN {}
  ELSE {v \in Sources(Arg(sc, 1)) \cup Sources(Arg(sc, 2)) : ~Is(v, {"constant", "global"})}

SourceKeys(sc, t) ==
  LET f == FunOf(sc) IN
  CASE Is(t, {"argument"}) ->
         IF ~prog.fn[f].taken THEN {}
         ELSE {<<<<t, c, 0>>, Key("src", c, ParamNo(f, t) - 1)>> : c \in {d \in Callers(f) : ~Direct(d)}}
    [] Is(t, {"call"}) -> IF Direct(t) THEN {<<<<t, t, 0>>, Key("src", Called(t), -1)>>} ELSE {}
    [] OTHER ->
         {<<<<t, p[1], p[2]>>, Key("src", Called(p[1]), ArgNo(p[1], t))>> :
            p \in {q \in UNION {{u} \X DOMAIN prog.op[u].args : u \in Users(t)} :
                     /\ Arg(q[1], q[2]) = t
                     /\ Is(q[1], {"call"}) /\ Direct(q[1]) /\ Home(q[1]) \in PredReach(Home(sc))}}
UseKeys(sc, t) ==
  {<<<<t, u[1], u[2]>>, Key("use", Called(u[1]), u[2])>> : u \in {x \in Uses(sc, t) : Direct(x[1])}}

Events(sc) == UNION {SourceKeys(sc, t) \cup UseKeys(sc, t) : t \in Targets(sc)}

(* A set of models is ordered by the source or use, of which there is one to a key:  *)
(* the first model of a key is kept.                                            *)
AddModels(keys, model) ==
  ChecksMap' = ChecksMap \cup {<<key, model>> : key \in {k \in keys : \A e \in ChecksMap : e[1] # k}}

CountSrcUseChecks ==
  /\ pc = "checks"
  /\ \E sc \in todo :
       /\ todo' = todo \ {sc}
       /\ CheckCount' = CheckCount (+) Counted(Events(sc))
       /\ AddModels({e[2] : e \in Events(sc)}, ModelCheck(sc))
  /\ UNCHANGED <<prog, FuncPAResults, pc, n, ci, arg, UncheckCount, TotalCount, UnchecksMap, sliceVars, reports>>

(* inModeledCheckSet looks the model up in that order.                          *)
InModeledCheckSet(key) == \E e \in ChecksMap : e[1] = key

-----------------------------------------------------------------------------
(* isCheckedForward: the search marks what it has seen, so that it finds what the     *)
(* closure of its steps does.  f is the function whose aliases and checks it asks.   *)
(* Mutant: a value is not followed through memory.                             *)
ForwardSteps_Values(f, scope, v) ==
  {u \in Users(v) : Home(u) \in scope /\ Is(u, {"gep", "phi", "cast", "alloca", "load", "binary"})}

ForwardSteps(f, scope, v) ==
  LET users == {u \in Users(v) : Home(u) \in scope} IN
  {u \in users : Is(u, {"gep", "phi", "cast", "alloca", "load", "binary"})}
    \cup {l \in Value : /\ Is(l, {"load"})
                        /\ \E u \in users : /\ Is(u, {"store"}) /\ Arg(u, 1) = v
                                            /\ Arg(l, 1) \in Aliases(Arg(u, 2), f)}

(* A value is taken for checked by a comparison, a switch or a call that is a check;  *)
(* going forward, also when it is returned.                                     *)
Tests(f, scope, key, v, more) ==
  {u \in Users(v) : /\ Home(u) \in scope
                    /\ \/ Is(u, {"cmp"}) /\ InModeledCheckSet(key)
                       \/ Is(u, {"switch"} \cup more)
                       \/ Is(u, {"call"}) /\ u \in prog.fn[f].checks}

IsCheckedForward(f, key, start, scope) ==
  \E v \in Closure(start, Len(prog.op), [w \in Value |-> ForwardSteps(f, scope, w)]) :
    Tests(f, scope, key, v, {"return"}) # {}

LoadsOf(p, f, scope) == {l \in Value : Is(l, {"load"}) /\ Home(l) \in scope /\ Arg(l, 1) \in Aliases(p, f)}

(* The blocks in which a parameter of g may be checked when c calls g.            *)
(* Mutant: those behind the call.                                             *)
CalleeScope_Caller(c, f) == SuccReach(Home(c))
CalleeScope(c, f) == SuccReach(prog.fn[f].entry)

(* Stage 2, the sources at call c: <<key, value to report, whether it is checked>>.   *)
(* At an indirect call they are the parameters of the callees that have a body; the  *)
(* search in a callee asks for the aliases and the checks of the caller.             *)
ArgumentSources(c) ==
  {LET called == p[1]
       v == prog.fn[called].params[p[2]]
       scope == CalleeScope(c, called)
       key == Key("src", c, p[2] - 1) IN
   <<key, v, IsCheckedForward(FunOf(c), key, {v} \cup (IF v \in prog.pointer THEN LoadsOf(v, called, scope) ELSE {}), scope)>> :
     p \in {q \in Range(prog.op[c].callees) \X DOMAIN prog.op[c].args :
              Key("src", c, q[2] - 1) \in Checked /\ prog.fn[q[1]].entry # 0}}

(* At a direct call: the result, if it is used, and the parameters that are pointers. *)
CallSources(c) ==
  LET called == Called(c)
      scope == SuccReach(Home(c))
      outputs == {k \in DOMAIN prog.op[c].args \cap DOMAIN prog.fn[called].params : Arg(c, k) \in prog.pointer}
      start(no) == IF no = -1 THEN {c} ELSE LoadsOf(Arg(c, no + 1), FunOf(c), scope) IN
  {<<Key("src", called, no), c, IsCheckedForward(FunOf(c), Key("src", called, no), start(no), scope)>> :
     no \in {k \in (IF Users(c) = {} THEN {} ELSE {-1}) \cup {k - 1 : k \in outputs} :
               Key("src", called, k) \in Checked}}

(* Mutant: a call with no known callee goes to the function it names.             *)
Passed_Named(c) == Direct(c) /\ (prog.fn[Called(c)].ignored \/ (Users(c) = {} /\ prog.op[c].args = <<>>))

(* Calls that are passed over, besides indirect ones.                            *)
Passed(c) ==
  \/ prog.op[c].callees = <<>> \/ prog.fn[Called(c)].ignored
  \/ Users(c) = {} /\ prog.op[c].args = <<>>

(* Mutant: the total counts the checked ones only.                             *)
AddSources_Checked(S) ==
  /\ UncheckCount' = UncheckCount (+) Counted({<<s, s[1]>> : s \in {t \in S : ~t[3]}})
  /\ TotalCount' = TotalCount (+) Counted({<<s, s[1]>> : s \in {t \in S : t[3]}})
  /\ UnchecksMap' = UnchecksMap \cup {<<s[1], s[2]>> : s \in {t \in S : ~t[3]}}

AddSources(S) ==
  /\ UncheckCount' = UncheckCount (+) Counted({<<s, s[1]>> : s \in {t \in S : ~t[3]}})
  /\ TotalCount' = TotalCount (+) Counted({<<s, s[1]>> : s \in S})
  /\ UnchecksMap' = UnchecksMap \cup {<<s[1], s[2]>> : s \in {t \in S : ~t[3]}}

CountSrcUnchecks ==
  /\ pc = "calls" /\ todo # {}
  /\ LET c == Min(todo) IN
     /\ ci' = c /\ arg' = 0 /\ todo' = todo \ {c}
     /\ CASE ~Direct(c) -> AddSources(ArgumentSources(c)) /\ UNCHANGED pc
          [] Direct(c) /\ Passed(c) -> AddSources({}) /\ UNCHANGED pc
          [] OTHER -> AddSources(CallSources(c)) /\ pc' = "uses"
  /\ UNCHANGED <<prog, FuncPAResults, n, CheckCount, ChecksMap, sliceVars, reports>>

-----------------------------------------------------------------------------
(* Stage 2, the uses: isCheckedBackward of one argument after the other, in the       *)
(* blocks before the call but not its own.                                      *)
MaxDepth == 5
Frame(f, v, scope, depth) == [fun |-> f, value |-> v, scope |-> scope, depth |-> depth]
UseKey == Key("use", Called(ci), arg)
(* Mutant: the blocks behind the call instead.                                 *)
ScopeOf_Behind(c) == SuccReach(Home(c)) \ {Home(c)}
ScopeOf(c) == PredReach(Home(c)) \ {Home(c)}
StartFrame == Frame(F, Arg(ci, arg + 1), ScopeOf(ci), 1)

UseOfArgument ==
  /\ pc = "uses" /\ arg < Len(prog.op[ci].args)
  /\ IF UseKey \in Checked
     THEN /\ pc' = "backward"
          /\ stack' = <<StartFrame>> /\ VSet' = {} /\ isChecked' = FALSE
          /\ UNCHANGED arg
     ELSE arg' = arg + 1 /\ UNCHANGED <<pc, sliceVars>>
  /\ UNCHANGED <<prog, FuncPAResults, n, todo, ci, countVars, reports>>

EndUses ==
  /\ pc = "uses" /\ arg = Len(prog.op[ci].args)
  /\ pc' = "calls"
  /\ UNCHANGED <<prog, FuncPAResults, n, todo, ci, arg, countVars, sliceVars, reports>>

(* Sets of pointers are gone through in any order.                              *)
Orders(S) == {s \in [1 .. Cardinality(S) -> S] : Range(s) = S}

Slicing == pc = "backward" /\ stack # <<>> /\ ~isChecked
Top == Head(stack)

(* The callers of the function of a parameter, with what they pass.              *)
CallerFrames(fr) ==
  LET f == fr.fun
      no == ParamNo(f, fr.value) IN
  {Frame(FunOf(c), Arg(c, no), PredReach(Home(c)), fr.depth + 1) :
     c \in {d \in Callers(f) : no \in DOMAIN prog.op[d].args}}

(* The values that a value comes from: the operands, in order, or what is stored to   *)
(* and loaded from the aliases of a load's pointer.                              *)
Origins(fr) ==
  LET v == fr.value
      users == UNION {{u \in Users(a) : Home(u) \in fr.scope} : a \in Aliases(Arg(v, 1), fr.fun)} IN
  CASE Is(v, {"load"}) ->
         Orders({u \in users : Is(u, {"load"})} \cup {Arg(u, 1) : u \in {s \in users : Is(s, {"store"})}})
    [] Is(v, {"phi", "select", "gep", "cast", "binary", "alloca"}) -> {prog.op[v].args}
    [] OTHER -> {<<>>}

(* Mutant: the search ends a call too early.                                    *)
Skips_Early == Top.value \in VSet \/ Top.depth >= MaxDepth
(* A value is looked at once in a search, and not beyond a number of calls.        *)
Skips == Top.value \in VSet \/ Top.depth > MaxDepth

Descend(frames) ==
  /\ VSet' = VSet \cup {Top.value}
  /\ stack' = frames \o Tail(stack)
  /\ UNCHANGED <<prog, FuncPAResults, control, countVars, isChecked, reports>>

SkipValue == Slicing /\ Skips /\ Descend(<<>>)

VisitArgument ==
  /\ Slicing /\ ~Skips /\ Is(Top.value, {"argument"})
  /\ \E frames \in Orders(CallerFrames(Top)) : Descend(frames)

FindsTest(fr) == Tests(fr.fun, fr.scope, UseKey, fr.value, {}) # {}

FindTest ==
  /\ Slicing /\ ~Skips /\ ~Is(Top.value, {"argument"}) /\ FindsTest(Top)
  /\ isChecked' = TRUE
  /\ UNCHANGED <<prog, FuncPAResults, control, countVars, stack, VSet, reports>>

VisitValue ==
  /\ Slicing /\ ~Skips /\ ~Is(Top.value, {"argument"}) /\ ~FindsTest(Top)
  /\ \E values \in Origins(Top) :
       Descend([k \in DOMAIN values |-> [Top EXCEPT !.value = values[k]]])

CountUseUnchecks ==
  /\ pc = "backward" /\ (stack = <<>> \/ isChecked)
  /\ TotalCount' = TotalCount (+) SetToBag({UseKey})
  /\ IF isChecked THEN UNCHANGED <<UncheckCount, UnchecksMap>>
     ELSE /\ UncheckCount' = UncheckCount (+) SetToBag({UseKey})
          /\ UnchecksMap' = UnchecksMap \cup {<<UseKey, Arg(ci, arg + 1)>>}
  /\ pc' = "uses" /\ arg' = arg + 1
  /\ stack' = <<>> /\ VSet' = {} /\ isChecked' = FALSE
  /\ UNCHANGED <<prog, FuncPAResults, n, todo, ci, CheckCount, ChecksMap, reports>>

-----------------------------------------------------------------------------
(* processResults.  The share of unchecks is a float, compared with a double that is   *)
(* a little smaller for the same number: a share of just 0.3 or 0.1 is too much.       *)
Total(key) ==
  Min({Copies(key, TotalCount), Copies(key, CheckCount) + Copies(key, UncheckCount)})
Rare(key) ==
  LET unchecks == 10 * Copies(key, UncheckCount) IN
  IF key.role = "src" THEN unchecks < 3 * Total(key) ELSE unchecks < Total(key)

ProcessResults ==
  /\ pc = "report"
  /\ reports' = {key \in Checked : Copies(key, UncheckCount) > 0 /\ Rare(key)}
  /\ pc' = "done"
  /\ UNCHANGED <<prog, FuncPAResults, n, todo, ci, arg, countVars, sliceVars>>

Done == pc = "done" /\ UNCHANGED vars

Next ==
  \/ FunctionAliases \/ EndFunction
  \/ CountSrcUseChecks
  \/ CountSrcUnchecks \/ UseOfArgument \/ EndUses
  \/ SkipValue \/ VisitArgument \/ FindTest \/ VisitValue \/ CountUseUnchecks
  \/ ProcessResults \/ Done

Spec == Init /\ [][Next]_vars /\ WF_vars(Next)
-----------------------------------------------------------------------------
Keys == [role : {"src", "use"}, of : Fun \cup Value, arg : Nat \cup {-1}]

TypeOK ==
  /\ FuncPAResults \in [Fun -> SUBSET (Value \X Value)]
  /\ pc \in {"aliases", "checks", "calls", "uses", "backward", "report", "done"}
  /\ n \in DOMAIN prog.order /\ todo \subseteq Value /\ ci \in Value \cup {0} /\ arg \in Nat
  /\ IsABag(CheckCount) /\ IsABag(UncheckCount) /\ IsABag(TotalCount)
  /\ Checked \subseteq Keys /\ Checked = {e[1] : e \in ChecksMap}
  /\ BagToSet(UncheckCount) = {e[1] : e \in UnchecksMap}
  /\ UncheckCount \sqsubseteq TotalCount /\ BagToSet(TotalCount) \subseteq Checked
  /\ VSet \subseteq Value /\ isChecked \in BOOLEAN
  /\ \A k \in DOMAIN stack : stack[k].value \in Value /\ stack[k].depth \in 1 .. MaxDepth + 1
  /\ reports \subseteq Checked

(* The calls whose result a check of stage 1 was counted for.                      *)
ChecksOf(t) == UNION {{sc \in Comparisons(f) : t \in Targets(sc)} : f \in Analysed}
NoSelect == \A v \in Value : ~Is(v, {"select"})

(* A result that is no pointer, or one that LLVM takes for the same only as what comes   *)
(* from it: a function may return a pointer that it was given.                       *)
OwnResult(t) == \A p \in Value : {p, t} \in prog.must => SourcePointer(p) = {t}

(* Where nothing is selected, the two slices agree on such results: a call whose result   *)
(* is what a counted check tests is not among the unchecked ones.                     *)
StagesAgree ==
  pc = "done" /\ NoSelect =>
    \A e \in UnchecksMap :
      e[1].role = "src" /\ e[1].arg = -1 /\ OwnResult(e[2]) => ChecksOf(e[2]) = {}

(* They agree on the parameters of functions that are called indirectly, too, as long   *)
(* as the function has no aliases: the search in it asks for those of the caller.      *)
ParametersAgree ==
  pc = "done" /\ NoSelect =>
    \A e \in UnchecksMap :
      e[1].role = "src" /\ e[1].of \in Value =>
        \A sc \in ChecksOf(e[2]) : FuncPAResults[FunOf(sc)] # {}

(* The checks of a result are weighed against calls that were looked at.  A function no   *)
(* call resolves to, such as one without a body, is never reported; where nothing is   *)
(* selected, a checked result of its own is found again, next to the unchecked ones, if *)
(* its call is resolved, stands in an analysed function and calls none that is ignored. *)
Results(g) == {t \in Value : Is(t, {"call"}) /\ Direct(t) /\ Called(t) = g /\ ChecksOf(t) # {}}
FoundAgain(g) ==
  {t \in Results(g) : FunOf(t) \in Analysed /\ prog.op[t].callees # <<>> /\ ~prog.fn[g].ignored /\ OwnResult(t)}
TotalsCover ==
  pc = "done" /\ NoSelect =>
    \A key \in Checked :
      key.role = "src" /\ key.arg = -1 =>
        LET looked == Copies(key, TotalCount) IN
        /\ Copies(key, UncheckCount) + Cardinality(FoundAgain(key.of)) <= looked
        /\ (\A t \in Value : Is(t, {"call"}) => key.of \notin Range(prog.op[t].callees)) => looked = 0

(* The values a search may come to when it forgets what it has seen, and whether one    *)
(* of them is tested.                                                           *)
OriginFrames(fr) ==
  IF fr.depth > MaxDepth THEN {}
  ELSE IF Is(fr.value, {"argument"}) THEN CallerFrames(fr)
  ELSE {[fr EXCEPT !.value = v] : v \in UNION {Range(values) : values \in Origins(fr)}}
AnyFrame == [fun : Fun, value : Value, scope : SUBSET Block, depth : Nat]
Frames == Closure({StartFrame}, 2 * Len(prog.op), [fr \in AnyFrame |-> OriginFrames(fr)])
Tested ==
  \E fr \in Frames : fr.depth <= MaxDepth /\ ~Is(fr.value, {"argument"}) /\ FindsTest(fr)

(* isCheckedBackward says checked only if some value that the argument comes from is      *)
(* tested on the way, and says so whenever no value is come to in two ways.           *)
BackwardExact ==
  pc = "backward" /\ (stack = <<>> \/ isChecked) =>
    /\ isChecked => Tested
    /\ Tested /\ (\A fr, gr \in Frames : fr.value = gr.value => fr = gr) => isChecked

(* A comparison by a counted check in an earlier block of what is passed.           *)
ComparedBefore(v) ==
  \E sc \in Comparisons(F) :
    v \in Range(prog.op[sc].args) /\ Home(sc) \in PredReach(Home(ci)) /\ Home(sc) # Home(ci)

(* What is passed is found checked if it was compared before; but not a parameter.    *)
SeesCheckBefore ==
  pc = "backward" /\ stack = <<>> /\ ~isChecked =>
    Is(Arg(ci, arg + 1), {"argument"}) \/ ~ComparedBefore(Arg(ci, arg + 1))

(* "Also do backward slicing and see if Arg is ever checked" (MissingChecks.cc:1068).   *)
SeesEveryCheckBefore ==
  pc = "backward" /\ stack = <<>> /\ ~isChecked => ~ComparedBefore(Arg(ci, arg + 1))

(* "Counted as a check only when the check is in the modeled check set"                *)
(* (MissingChecks.cc:568): where comparisons are all that a result is tested by, it     *)
(* counts as checked only if one of them has the operator and the kind of operand of a  *)
(* counted check of the function.                                                  *)
Models(g) == {ModelCheck(sc) : sc \in UNION {ChecksOf(t) : t \in Results(g)}}
CountedAsChecked(t) ==
  LET key == Key("src", Called(t), -1) IN
  /\ FunOf(t) \in Analysed /\ ~Passed(t) /\ key \in Checked
  /\ <<key, t>> \notin UnchecksMap
OnlyCompared(t) ==
  /\ \E u \in Users(t) : Is(u, {"cmp"})
  /\ \A u \in Users(t) : Is(u, {"cmp"}) \/ (Is(u, {"call"}) /\ u \notin prog.fn[FunOf(t)].checks)
CountedLikeModels ==
  pc = "done" =>
    \A t \in Value :
      Is(t, {"call"}) /\ Direct(t) /\ OnlyCompared(t) /\ CountedAsChecked(t) =>
        \E u \in Users(t) : Is(u, {"cmp"}) /\ ModelCheck(u) \in Models(Called(t))

(* All stages end, on recursive functions too.                                   *)
Termination == <>(pc = "done")
=============================================================================
