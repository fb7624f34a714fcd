---------------------------- MODULE PassManager ----------------------------
(***************************************************************************)
(* main of Analyzer.cc and IterativeModulePass::run, with the five passes     *)
(* reduced to what they leave in GlobalContext for later passes to read: for  *)
(* each loaded module, how often it has been visited for which work.  The      *)
(* work of one pass on one module is an action; MissingChecks' stage machine   *)
(* is there in full.  phase is the loop the program is in:                     *)
(*   "load"     the loop over InputFilenames                                   *)
(*   "main"     between two entries of the plan                                *)
(*   "init", "iterate", "final"   the three loops of run, over the modules      *)
(*   "done".                                                                   *)
(***************************************************************************)
EXTENDS Naturals, Sequences

CONSTANT Files    \* the number of files on the command line

ASSUME FilesAssumption == Files \in Nat \ {0}

MAX_STAGE == 2

(* What is computed per module and stored in GlobalContext or in a static       *)
(* table: TypeValueMap; the tables of function definitions; Callees and         *)
(* Callers; FuncPAResults; SecurityCheckSets; the counts of stages 1 and 2.      *)
Work == {"types", "functions", "calls", "aliases", "checks", "srcUseChecks", "srcUseUnchecks"}

Pass == {"TypeInitializer", "CallGraph", "SecurityChecks", "PointerAnalysis", "MissingChecks"}
Step == Pass \cup {"BuildTypeStructMap", "processResults"}

VARIABLES
  sc, mc,          \* the options
  file,            \* the next file to load
  modules,         \* GlobalCtx.Modules.size(); the modules are 1..modules
  plan,            \* what main has still to do, the head being under way
  phase,
  i,               \* the module the loop of run is at
  again, changed,  \* the flags of run's while loops
  AnalysisStage, MIdx,
  times,           \* times[w][m]: how often w was done for module m
  structs,         \* BuildTypeStructMap has run
  reported         \* processResults has run

runVars == <<phase, i, again, changed>>
stageVars == <<AnalysisStage, MIdx>>
vars == <<sc, mc, file, modules, plan, runVars, stageVars, times, structs, reported>>

Module == 1 .. modules

(* Mutants: call graph before type information; report before the last pass.  *)
Plan_CallsFirst(isSc, isMc) ==
  <<"CallGraph", "TypeInitializer", "BuildTypeStructMap">>
    \o (IF isSc THEN <<"SecurityChecks">> ELSE <<>>)
    \o (IF isMc THEN <<"PointerAnalysis", "SecurityChecks", "MissingChecks", "processResults">>
                ELSE <<>>)
Plan_ReportFirst(isSc, isMc) ==
  <<"TypeInitializer", "BuildTypeStructMap", "CallGraph">>
    \o (IF isSc THEN <<"SecurityChecks">> ELSE <<>>)
    \o (IF isMc THEN <<"PointerAnalysis", "SecurityChecks", "processResults", "MissingChecks">>
                ELSE <<>>)

(* The main workflow.                                                        *)
Plan(isSc, isMc) ==
  <<"TypeInitializer", "BuildTypeStructMap", "CallGraph">>
    \o (IF isSc THEN <<"SecurityChecks">> ELSE <<>>)
    \o (IF isMc THEN <<"PointerAnalysis", "SecurityChecks", "MissingChecks", "processResults">>
                ELSE <<>>)

Init ==
  /\ sc \in BOOLEAN /\ mc \in BOOLEAN
  /\ file = 1 /\ modules = 0
  /\ plan = Plan(sc, mc)
  /\ phase = "load" /\ i = 1 /\ again = FALSE /\ changed = 0
  /\ AnalysisStage = 1 /\ MIdx = 0
  /\ times = [w \in Work |-> [m \in 1 .. Files |-> 0]]
  /\ structs = FALSE /\ reported = FALSE

-----------------------------------------------------------------------------
(* Loading.  A file that does not parse is skipped.                          *)
LoadFile ==
  /\ phase = "load" /\ file <= Files
  /\ file' = file + 1
  /\ modules' \in {modules, modules + 1}
  /\ UNCHANGED <<sc, mc, plan, runVars, stageVars, times, structs, reported>>

EndLoad ==
  /\ phase = "load" /\ file > Files
  /\ phase' = "main"
  /\ UNCHANGED <<sc, mc, file, modules, plan, i, again, changed, stageVars, times, structs, reported>>

-----------------------------------------------------------------------------
(* The statements of main between two passes.                               *)
BuildTypeStructMap ==
  /\ phase = "main" /\ plan # <<>> /\ Head(plan) = "BuildTypeStructMap"
  /\ structs' = TRUE
  /\ plan' = Tail(plan)
  /\ UNCHANGED <<sc, mc, file, modules, runVars, stageVars, times, reported>>

ProcessResults ==
  /\ phase = "main" /\ plan # <<>> /\ Head(plan) = "processResults"
  /\ reported' = TRUE
  /\ plan' = Tail(plan)
  /\ UNCHANGED <<sc, mc, file, modules, runVars, stageVars, times, structs>>

(* The constructor of MissingChecksPass sets MIdx; AnalysisStage is static.   *)
StartPass ==
  /\ phase = "main" /\ plan # <<>> /\ Head(plan) \in Pass
  /\ phase' = "init" /\ i' = 1 /\ again' = FALSE
  /\ MIdx' = IF Head(plan) = "MissingChecks" THEN 0 ELSE MIdx
  /\ UNCHANGED <<sc, mc, file, modules, plan, changed, AnalysisStage, times, structs, reported>>

EndMain ==
  /\ phase = "main" /\ plan = <<>>
  /\ phase' = "done"
  /\ UNCHANGED <<sc, mc, file, modules, plan, i, again, changed, stageVars, times, structs, reported>>

-----------------------------------------------------------------------------
(* What doInitialization, doModulePass and doFinalization of the passes do to  *)
(* one module, and what they return.                                         *)
InitWork(pass) ==
  CASE pass = "TypeInitializer" -> {"types"}
    [] pass = "CallGraph"       -> {"functions"}
    [] OTHER                    -> {}

ModuleWork(pass) ==
  CASE pass = "CallGraph"       -> {"calls"}
    [] pass = "PointerAnalysis" -> {"aliases"}
    [] pass = "SecurityChecks"  -> {"checks"}
    [] pass = "MissingChecks" /\ AnalysisStage = 1 -> {"srcUseChecks"}
    [] pass = "MissingChecks" /\ AnalysisStage = 2 -> {"srcUseUnchecks"}
    [] OTHER                    -> {}

(* Mutant: a pass keeps the default of the base class.                        *)
FinalReturns_Default(pass) == TRUE

(* Every pass overrides the base class, whose defaults are TRUE.             *)
InitReturns(pass) == FALSE
FinalReturns(pass) == FALSE

Did(works) == [w \in Work |-> IF w \in works THEN [times[w] EXCEPT ![i] = @ + 1] ELSE times[w]]

-----------------------------------------------------------------------------
(* IterativeModulePass::run.                                                 *)
DoInitialization ==
  /\ phase = "init" /\ i <= modules
  /\ times' = Did(InitWork(Head(plan)))
  /\ again' = (again \/ InitReturns(Head(plan)))
  /\ i' = i + 1
  /\ UNCHANGED <<sc, mc, file, modules, plan, phase, changed, stageVars, structs, reported>>

EndInitialization ==
  /\ phase = "init" /\ i > modules
  /\ i' = 1 /\ again' = FALSE
  /\ phase' = IF again THEN "init" ELSE "iterate"
  /\ changed' = 0
  /\ UNCHANGED <<sc, mc, file, modules, plan, stageVars, times, structs, reported>>

(* doModulePass of the first four passes; they return false.                 *)
DoModulePass ==
  /\ phase = "iterate" /\ i <= modules
  /\ Head(plan) # "MissingChecks"
  /\ times' = Did(ModuleWork(Head(plan)))
  /\ i' = i + 1
  /\ UNCHANGED <<sc, mc, file, modules, plan, phase, again, changed, stageVars, structs, reported>>

(* Mutants: the index is compared before it is advanced; with size() - 1 after.*)
LastOfSweep_Late == MIdx = modules
LastOfSweep_Early == MIdx + 2 = modules

(* MissingChecksPass::doModulePass: the last module of a sweep moves the        *)
(* analysis to the next stage, and asks for another sweep while there is one.  *)
LastOfSweep == MIdx + 1 = modules

(* Mutant: another sweep is asked for after the last stage, too.               *)
DoMissingChecks_NoLimit ==
  /\ phase = "iterate" /\ i <= modules
  /\ Head(plan) = "MissingChecks"
  /\ times' = Did(ModuleWork("MissingChecks"))
  /\ MIdx' = IF LastOfSweep THEN 0 ELSE MIdx + 1
  /\ AnalysisStage' = IF LastOfSweep THEN AnalysisStage + 1 ELSE AnalysisStage
  /\ changed' = IF LastOfSweep THEN changed + 1 ELSE changed
  /\ i' = i + 1
  /\ UNCHANGED <<sc, mc, file, modules, plan, phase, again, structs, reported>>

DoMissingChecks ==
  /\ phase = "iterate" /\ i <= modules
  /\ Head(plan) = "MissingChecks"
  /\ times' = Did(ModuleWork("MissingChecks"))
  /\ MIdx' = IF LastOfSweep THEN 0 ELSE MIdx + 1
  /\ AnalysisStage' = IF LastOfSweep THEN AnalysisStage + 1 ELSE AnalysisStage
  /\ changed' = IF LastOfSweep /\ AnalysisStage' <= MAX_STAGE THEN changed + 1 ELSE changed
  /\ i' = i + 1
  /\ UNCHANGED <<sc, mc, file, modules, plan, phase, again, structs, reported>>

EndSweep ==
  /\ phase = "iterate" /\ i > modules
  /\ i' = 1 /\ changed' = 0 /\ again' = FALSE
  /\ phase' = IF changed # 0 THEN "iterate" ELSE "final"
  /\ UNCHANGED <<sc, mc, file, modules, plan, stageVars, times, structs, reported>>

DoFinalization ==
  /\ phase = "final" /\ i <= modules
  /\ again' = (again \/ FinalReturns(Head(plan)))
  /\ i' = i + 1
  /\ UNCHANGED <<sc, mc, file, modules, plan, phase, changed, stageVars, times, structs, reported>>

EndFinalization ==
  /\ phase = "final" /\ i > modules
  /\ i' = 1 /\ again' = FALSE
  /\ phase' = IF again THEN "final" ELSE "main"
  /\ plan' = IF again THEN plan ELSE Tail(plan)
  /\ UNCHANGED <<sc, mc, file, modules, changed, stageVars, times, structs, reported>>

Done == phase = "done" /\ UNCHANGED vars

Main == LoadFile \/ EndLoad \/ BuildTypeStructMap \/ ProcessResults \/ StartPass \/ EndMain

Run ==
  \/ DoInitialization \/ EndInitialization
  \/ DoModulePass \/ DoMissingChecks \/ EndSweep
  \/ DoFinalization \/ EndFinalization

Next == Main \/ Run \/ Done

Spec == Init /\ [][Next]_vars /\ WF_vars(Next)

-----------------------------------------------------------------------------
(* Properties.                                                               *)
TypeOK ==
  /\ sc \in BOOLEAN /\ mc \in BOOLEAN
  /\ file \in 1 .. Files + 1
  /\ modules \in 0 .. file - 1
  /\ plan \in Seq(Step)
  /\ phase \in {"load", "main", "init", "iterate", "final", "done"}
  /\ i \in 1 .. modules + 1
  /\ again \in BOOLEAN /\ changed \in Nat
  /\ AnalysisStage \in 1 .. MAX_STAGE + 1
  /\ MIdx \in 0 .. Files
  /\ times \in [Work -> [1 .. Files -> Nat]]
  /\ structs \in BOOLEAN /\ reported \in BOOLEAN

(* The cross-check compares like with like: while the absence of checks is     *)
(* counted in any module, the checks of every module have been counted, once.  *)
StageBarrier ==
  \A m, n \in Module : times["srcUseUnchecks"][m] > 0 => times["srcUseChecks"][n] = 1

(* The counts that are reported are those of the whole program: each module     *)
(* went through both stages exactly once, although run sweeps over the modules   *)
(* until nothing changes and the stage is kept in a static variable.            *)
ReportComplete ==
  reported => \A m \in Module : times["srcUseChecks"][m] = 1 /\ times["srcUseUnchecks"][m] = 1

(* <<w, v>>: work w on one module reads what work v left of any module.        *)
Reads ==
  {<<"calls", "functions">>, <<"calls", "types">>, <<"checks", "calls">>,
   <<"srcUseChecks", "checks">>, <<"srcUseChecks", "aliases">>, <<"srcUseUnchecks", "calls">>}

(* Whole-program tables are complete when they are first read: no pass resolves    *)
(* calls, finds checks or counts them from the tables of a part of the modules,    *)
(* and type confinement finds GlobalTypes, which is filled between two passes.     *)
TablesComplete ==
  /\ \A r \in Reads : \A m, n \in Module : times[r[1]][m] > 0 => times[r[2]][n] > 0
  /\ \A m \in Module : times["functions"][m] > 0 => structs

(* main returns: no pass keeps asking for another round.                           *)
Termination == <>(phase = "done")

Abstract == INSTANCE CrossCheck WITH
  loaded <- modules,
  collected <- {m \in Module : times["srcUseChecks"][m] > 0},
  counted <- {m \in Module : times["srcUseUnchecks"][m] > 0}

(* The passes and their sweeps implement collect, then count, then report.         *)
ImplementsCrossCheck == Abstract!Spec
=============================================================================
