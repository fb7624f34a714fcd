# Crix: specifications, model-checking runs and proofs

Crix (`kanalyzer`) reads LLVM bitcode files and looks for missing security
checks. It finds the branches that are checks (their edges differ in whether an
error is returned or handled), computes what the checks are about, and reports
uses that most places check and some do not. The modules here model its
algorithms as TLA+ state machines; TLC checks them on small instances and TLAPS
proves some of the results for all instances. File names below are relative to
`src/analyzer/src/lib/`.

The program is sequential. There are no threads, messages or persistent state,
and so nothing here is about crashes or concurrency. What makes it hard to test
is different: worklists that test the marks they are changing, results that
could depend on the order in which LLVM lists predecessors or `std::set<Value *>`
its elements, passes that rely on tables other passes must have completed, a
stage machine spread over a static variable, a member and the loop of a base
class, and values kept from one function, module or run to the next.

## Inventory

| Component | State | Operations | Interaction | Hard, and what must hold |
|---|---|---|---|---|
| Driver and pass manager (`Analyzer.cc`, `Analyzer.h`) | `GlobalCtx`; the flags `again`, `changed` of `run` | load files; `IterativeModulePass::run` for each of five passes | every pass gets the `GlobalContext` and calls back into `doInitialization`, `doModulePass`, `doFinalization` | sweeps repeated until nothing changes; tables complete when first read; skipped files; the loops end |
| Type initializer (`TypeInitializer.cc`) | `TypeValueMap`, `VnameToTypenameMap`, `TypeToTNameMap` | `doInitialization`, `BuildTypeStructMap` | `typeHash` reads `TypeToTNameMap` | first value of a type wins; must run before the call graph |
| Call graph (`CallGraph.cc`) | `typeFuncsMap`, `typeConfineMap`, `typeTransitMap`, `typeEscapeSet`, `AddressTakenFuncs`, `sigFuncsMap`, `GlobalFuncs`, `UnifiedFuncMap`, `Callees`, `Callers` | type confinement of initializers, stores and casts; `findCalleesWithMLTA`; resolution of direct calls | all later passes read `Callees`, `Callers`, `UnifiedFuncSet` | layer-by-layer narrowing must keep real targets; first/last-wins unification; data layout of the last module; truncated hashes |
| Pointer analysis (`PointerAnalysis.cc`) | `FuncPAResults`, `FuncAAResults` | `detectAliasPointers` per function | MissingChecks reads the aliases | alias results of the last function are asked about all; cap of 1000 addresses |
| Security checks, error blocks (`SecurityChecks.cc`) | `bbErrMap`, `ErrSelectInstSet` (static) | `checkErrReturn`, `checkErrValueFlow`, `checkErrHandle`, `mayReturnErr`, `findSameVariablesFrom` | reads `Callees`; feeds the marking | value flow through loads, phis, calls; visited set shared by all returns; a static set that crosses functions and runs |
| Security checks, marking | `edgeErrMap`, `SCSet`, `SecurityCheckSets`, `CheckInstSets`, `NumSecurityChecks` | `markAllEdgesErrFlag` and four worklist procedures, `identifySecurityChecks`, `addSecurityCheck` | MissingChecks reads `CheckInstSets` | worklists on cyclic graphs; overwriting, merging and stopping; order independence |
| Missing checks (`MissingChecks.cc`) | `AnalysisStage`, `MIdx`, the count maps and the tracked sets | stage 1 `countSrcUseChecks`, stage 2 `countSrcUseUnchecks`, `processResults`; slicing with `isCheckedBackward`, `isCheckedForward`, `identifyCheckedTargets` | reads everything above | counts compared across the whole program; depth limits and visited sets; 8-bit argument numbers; a comparator that ignores most of a model |
| Data-flow helpers (`DataFlowAnalysis.cc`) | none of their own | `findInFuncSourceCV`, `findUses`, the reachability collectors, `getAliasPointers` | called by MissingChecks | uses attributed to the wrong argument; scope restrictions |
| Common helpers, configuration (`Common.cc`, `Config.h`, `configs/`) | `CurrentLayout`, `TypeToTNameMap` | hashes, source lines, static tables | used everywhere | hash collisions and widths |

`findCalleesWithType` and `unrollLoops` are not compiled, `markEdgesToErrReturn`
and `augmentMustAlias` are not called, `PrintResults` is commented out, and half
of `DataFlowAnalysis.cc` is dead; none of this is modelled. `disable-inline/` and
`llvm/` are patches and scripts for building LLVM.

`PROJECT.json` lists the hazards at their lines, with the properties that would
catch each going wrong, or the reason why no property covers it.

## Modules

| Module | Models |
|---|---|
| `ErrFlags` | the flags of `SecurityChecks.h`; `updateReturnFlag`, `updateHandleFlag`, `mergeFlag` |
| `CFG` | flow graphs with the flags of their blocks, as the marking walks them |
| `MarkEdges` | `identifySecurityChecks` from the filled `bbErrMap` on: all of `markAllEdgesErrFlag`, then the branch and switch checks |
| `HandleClosure` | the abstract specification of the error-handling half of the marking |
| `MarkEdgesRerun` | two runs of `MarkEdges` over one function |
| `MCMarkEdges` | the functions TLC checks `MarkEdges` on |
| `MCMarkEdgesRerun` | the same for `MarkEdgesRerun` |
| `FlowIR` | what the value-flow analysis reads of a function's LLVM code: operations, stores, returns, handlers; `findSameVariablesFrom`; the reference definition of the marks |
| `ErrValueFlow` | how `bbErrMap` is filled: `checkErrReturn`, `checkErrValueFlow`, `checkErrHandle` |
| `MCErrValueFlow` | the functions TLC checks `ErrValueFlow` on |
| `MayReturnErr` | `mayReturnErr`, a search over the call graph |
| `MCMayReturnErr` | the call graphs TLC checks it on |
| `SecurityChecksPass` | `SecurityChecksPass::doModulePass` over all functions, for one and for two runs of the pass; instantiates `ErrValueFlow` and `MarkEdges` |
| `MCSecurityChecksPass` | the programs TLC checks it on |
| `CallIR` | what the call graph reads of the modules: functions, types, initializers, stores, casts, calls |
| `TypeNames` | `TypeInitializerPass` and `typeHash` |
| `TypeConfinement` | the tables of multi-layer type analysis and `findCalleesWithMLTA` |
| `CallGraph` | `CallGraphPass` over all modules; extends `TypeConfinement` |
| `MCCallGraph` | the programs TLC checks it on |
| `ValueIR` | what MissingChecks reads of the program: values, blocks, checks, aliases; reachability |
| `PointerAnalysis` | `PointerAnalysisPass` |
| `DataFlow` | `findInFuncSourceCV`, `findUses`, `getAliasPointers` |
| `MissingChecks` | `MissingChecksPass`: what the two stages count, the slicing, `processResults`; extends `DataFlow` |
| `MCMissingChecks` | the programs TLC checks it on |
| `PassManager` | `main` and `IterativeModulePass::run`, with the stage machine of MissingChecks |
| `CrossCheck` | the abstract specification: collect in all modules, count in all, report |
| `PassManagerProofs` | theorems about `PassManager` |
| `MarkEdgesProofs` | theorems about `MarkEdges`: types, the handle half, the return marks, where marks and checks come from |
| `MarkEdgesRerunProofs` | the result does not depend on the order of predecessors: theorem |
| `ErrValueFlowProofs` | theorems about `ErrValueFlow` |
| `MayReturnErrProofs` | theorems about `MayReturnErr` |
| `CallGraphProofs` | theorems about `CallGraph`: functions, calls, layers |
| `SecurityChecksPassProofs` | theorems about `SecurityChecksPass`, from those about its two halves |
| `MissingChecksProofs` | theorems about `MissingChecks` |

### MarkEdges

The C++ is one call tree of loops. `pc` names the loop the program is in, and
the other variables are the C++ locals under their own names (`EB`, `PB`, `EEP`,
`PE`, `IntFlag`; `at` is `TEP.first`, `cur` the iterator of the block loop,
`outer` and `todo` what the outer and the inner `for` have still to visit). One
action is one turn of a loop, with everything its body does. An `int` of flag
bits is a set of flags.

- `edgeErrMap` is total, with `{}` for a missing entry; `operator[]` inserts 0,
  and no code distinguishes the two but the filter at lines 725-727, which
  returns early only when no edge has a mark and no branch could be a check.
- Successors are visited by index. Predecessors are visited in any order: LLVM
  uses the order of the terminator's use list, an accident of how the module was
  built. The model is thus checked for more orders than a given module has.
- A switch may name a block several times; an edge is then visited once per arc
  but marked once, since `CFGEdge` is a pair of terminator and block.
- `bbErrMap` is an input: any assignment of flags, except that no code marks
  `May_Handle_Err`. `markBBErr` or-s flags, so a block may be both Must and May.
- Left out: select checks, which `SecurityChecksPass` adds, and
  `NumCondStatements`, which only `PrintResults` would read. Terminators other than branches and
  switches are no checks in the code; the model gives a check to every block with
  two successors, as the bitcode of C has no other kind but `callbr`.

### ErrValueFlow and MayReturnErr

A function body is a record of `Bodies`: every instruction has a block and an
operation of one of seven kinds, the stores are a set, the returns a sequence.
`pc` names the loop as in `MarkEdges`; `EEV` and `PV` are the C++ locals, `todo`
the stores or incoming values an inner `for` has still to visit, in any order.
`BBErrMap` is total, `{}` for a missing entry.

- A constant is an error code (`errno`), a null pointer or another one
  (`constant`). `isValueErrno` takes null for an error code only in a function
  that returns a pointer. Which integers are error codes is left to the C++.
- `unary` stands for `getelementptr`, casts and the other unary instructions, all
  handled alike; `other` for comparisons and what the analysis does not know.
- A call carries what the code asks about it: direct or not, `ERR_PTR`/`PTR_ERR`,
  a known body, the answer of `mayReturnErr`, which `MayReturnErr` models by
  itself. The first of the callees is an input: `FuncSet` is a `SmallPtrSet` of
  eight, in order of insertion up to eight elements and of address beyond. `inferErrBranch` is 0, so the first successor is marked.
- The edge that `EEV` carries with each value is read by no code and left out. The
  branch for `CopyFuncs` cannot be taken, as no entry has -1 for its destination.
- A constant in the `return` itself is dropped without a mark (832), although the
  comment at 700 speaks of all blocks that set an error code; constants are looked at
  only as operands of what is visited. `Marks` and `Feeds` say so too.
- Incoming values and stores form sets, so that a value named twice by a phi for
  one block is followed once; the second visit would find it in `PV`.

The reference is a graph on values, defined without any order: `Marks(f, i)` and
`Feeds(f, i)` say what instruction `i` calls for and leads to, `Origins(f)` is the
least set that holds the returned values and what they lead to, and
`ReturnMarks(f)` the union of its marks. For `MayReturnErr` it is `Searched`.

### SecurityChecksPass

`doModulePass` handles one function after the other and composes the two halves:
`Flow == INSTANCE ErrValueFlow` and `Mark == INSTANCE MarkEdges` share their
variables with it, so that the marking starts from a `bbErrMap` that the value
flow has really produced. `FindErrBlocks` is any step of the one, `FindChecks` any
step of the other; `StartFunction`, `StartMarking` and `EndFunction` hand over
what the C++ hands over. A function is a set of blocks of the whole program,
because a value stored to a global variable may come from a function before it.
`ErrSelectInstSet` is static and is never emptied: `EndFunction` takes the
selects of the function at hand out of what all functions so far, and the first
run, have put there. `CheckInstSets` of a function grows with each run;
`NumSecurityChecks` is added to each time.

### CallGraph

`i` is the module and `k` what is visited in it; `pc` names the loop. The maps
from keys to sets are sets of pairs. A hash is the tuple of what is hashed: the
name and the number of elements of a struct and the data layout its size depends
on, and for a field the index too; different strings are taken to have different
hashes.

- A pointer is the chain of instructions that computes it, the last first. That is
  all `nextLayerBaseType` walks over.
- `CurrentLayout` is left by the last `doInitialization`, so calls are looked up
  with `LastModule` and fields were filed with their own module.
- `typeHash` is cut to `unsigned` on its way into the lookup of casts. On a machine
  where `size_t` is wider it finds nothing; both cases are inputs (`wide`).
- A name that starts with `SyS_` becomes a `StringRef` to a string that is freed at
  once. Reading it is undefined: the key may be the renamed one, the name of any
  other function, whose definition is then replaced, or `Dangling`, which is nobody's.
- `escapeType` takes the index -1 for the whole type (`EscapeKey`).
- The sets of functions and of casts are gone through in any order. Vectors are
  left out, arrays have no size.

### MissingChecks

Values of all functions, and blocks, are numbers. A key is the role (`src`, `use`),
what is called and the argument number; `CheckCount` and the other two counters are
bags of keys. Stage 1 takes the checks of a function in any order, stage 2 its
calls in order. The forward search, the search for sources and that for uses
visit each value once and go on to everything else, so that what they find does
not depend on the order: they are closures. `isCheckedBackward` does depend on it,
because it has a depth, a visited set and a scope that changes from function to
function. It is therefore a machine of its own: `stack` holds the calls still to
be made, and `SkipValue`, `VisitArgument`, `FindTest` and `VisitValue` are the
ways one of them goes. Callers and aliases come in any order, as the sets are
ordered by address.

- The alias analysis of LLVM is an input: any symmetric relation.
- Of a comparison the operator counts, and whether the second operand is a
  constant. `ModelSC` is ordered by its source or use alone, so `ChecksMap` keeps
  the first model of a key and `InModeledCheckSet` finds any.
- Where the C++ passes the caller instead of the callee for the aliases (line
  946) so does the model.
- Argument numbers are below 128; `int8_t` wraps there and the loop over the
  arguments (line 908) would end.

### PassManager

The five passes are reduced to what later passes read: `times[w][m]` says how
often work `w` was done for module `m`. `plan` is the rest of `main`; its head is
under way. `phase` says which of the three loops of `run` is active, `i` at which
module. The stage machine of `MissingChecksPass` (`AnalysisStage`, static and
never reset; `MIdx`, set by the constructor) is there in full. Any subset of the
files may fail to load.

### Mutants

Definitions with a suffix (`UpdateReturnFlag_Or`, `LastOfSweep_Late`, ...) are
variants with a bug a programmer could have made in the C++. Nothing uses them;
replacing the definition by its variant must make a run fail, and PROJECT.json
says which property it breaks. They show that the properties can fail.

## Runs

| Run | Instance | Shows |
|---|---|---|
| `return_marks` | every flow graph of 3 reachable blocks with up to two successors in either order, block 2 twice included; every assignment of Must, May or both to at most two blocks; two runs over each | `ErrBlocksFenced`, `MustHasOrigin`, `TypeOK`; `OrderIndependent`: the two runs agree whatever the orders of predecessors |
| `handle_marks` | every such graph with successors sorted, flags of both halves | `HandleSound` at every step and `HandleExact` at the end; `MarksKept`; `MarkEdges` implements `HandleClosure`, fairness included; the worklists empty |
| `checks` | a diamond, a loop left from its middle, a switch with shared targets, 5 blocks each; all flags on up to three blocks; conditions separate or shared | `HandlerGuardsFound`, `ChecksHaveCause`, `OneCheckPerCondition` |
| `passes` | up to 4 files, all options | the stage barrier, completeness of tables and report, termination, refinement of `CrossCheck` |
| `error_blocks` | two instructions on a forked graph: of any of the seven kinds, with one store and one return; cycles of phis and unary operations asked for by up to two returns; results stored up to twice and loaded again under a test, with null, with and without a pointer return type | `FlowSound`, `FlowExact`, `SelectsExact`, `HandlersAdded`, `TypeOK`; the worklist empties |
| `may_return_err` | three functions, one of them of up to two instructions | `AnswerExact` |
| `security_checks` | two functions of three blocks with a branch each; two instructions and one, which load from and are stored to one global variable; both orders, one run and two | `ChecksFound`, `ChecksExplained`: the checks of a function are exactly accounted for by its handlers, its error blocks and the selects known by then; `CountsAgree`: the counter is the size of the sets times the runs, except where the order of predecessors or of functions matters |
| `call_graph` | three modules with two definitions and a declaration that share name, type, linkage or neither, system calls included, whose freed names spell any name; two modules with up to two stores, escapes (of the index -1 too) or casts over two struct types, calls through one field, through the index -1 and through two; nested initializers, literal types with names from either module, two data layouts, modules in both orders | `DirectExact`: what the linker would take, or its stand-in; `CallersInverse`; `KeepsCallee`: an indirect call never loses its last callee, whatever the layers say; `OneLayerExact`: calls through one field get what is put into it; `OnlyNarrows` |
| `missing_checks` | two functions in which a result or a parameter flows through one instruction of each kind to a check and a call; the same through memory, with any alias answers for three pointers; chains of up to six functions that each pass a parameter on, with a second caller and recursion; up to eleven peers, some unchecked | `StagesAgree`, `ParametersAgree`: forward and backward slicing mean the same by checked; `TotalsCover`; `BackwardExact`, `SeesCheckBefore`; `TypeOK`, which ties the four counters to each other; the search ends on recursive functions |
| `syscalls_consistent` | as `call_graph` | a comment that the code does not do, see *Findings* |
| `sees_every_check_before`, `counted_like_models` | as `missing_checks` | two comments that the code does not do, see *Findings* |

Bounds. Three blocks contain every local situation the walks tell apart: a
self-loop, a loop of two, a join with two predecessors, a branch whose edges are
marked differently, a double edge; the runs with five and six blocks add a
nested join and a chain longer than a walk's first step. At most two (three)
flagged blocks: the interactions are pairwise, each block overwriting what one
before it left. Two instructions make a cycle of values, a value reached from two
returns, and a result reloaded under a test; three functions a recursion beside
the way to the answer. Four files are enough for a sweep to be wrong in its
first, last and an inner module. In `call_graph` the third module lets a
declaration, a definition before it and one after it meet; two layers and two
casts are what it takes for one to undo the other. In `missing_checks` the chain of six
functions is one longer than `MaxDepth`, so that the search is cut off before it comes
to the test in the last one; eleven peers put the share of unchecked ones below, at and above
one of ten and three of ten. In `security_checks` two functions are what a value
that crosses functions takes, and two runs what main does for `-sc -mc`.

The end of the loops of `MayReturnErr`, `CallGraph` and `SecurityChecksPass` is not
a property of its own: each counts through a finite list or takes out of a worklist
what it never puts back.

Fairness. `Spec` has `WF_vars(Next)`: the program is sequential, runs alone and
has no blocking call, so a step that can be taken is taken. Nothing stronger is
assumed; in particular no order of predecessors is fair.

Order dependence. `OrderIndependent` fails if blocks may be flagged both Must and
May: `mergeFlag` of Must with such a flag is Must, and if a May is merged in
between it is May, so what a join gets depends on the order of its incoming
edges. It fails too where a switch has three different targets. When the walk to
the entry takes one of the three edges it looks at the other two: both unmarked, it
stops; one of them marked Must by then, it goes on with May. On such a function
the order of predecessors decides which of the two the walk sees. The property
excludes functions of both kinds, and the hazard list says so.

### Findings

Three comments say more than the code does; each has a run in which TLC finds
the difference.

- "Also do backward slicing and see if Arg is ever checked" (1068): a parameter is
  followed to the callers (376-416) before its users are looked at, so that a check
  of it in the function itself is never seen. `SeesCheckBefore` is what holds
  instead; it speaks of the blocks before the call's own, as that one is taken out of
  the scope (1075). (`MissingChecks.cc`)
- "Counted as a check only when the check is in the modeled check set" (568):
  `ModelSC` compares `SrcUse` alone (`MissingChecks.h:41`), so any comparison of the
  value is in the set. In the run the only counted check of the function's results is
  `lt`, and a result that is compared by `gt` alone counts as checked.
  (`MissingChecks.cc`)
- "Special case: make the names of syscalls consistent" (584): the renamed string is
  freed before its `StringRef` is used as key (586, and 660 at the call), so that a
  definition `SyS_x` may be filed under a name that is not its own. In the run a call of `sys_x` then
  has no callee, although an external `SyS_x` is defined. `DirectExact` says what holds
  instead. (`CallGraph.cc`)

## Proofs

`PassManagerProofs` proves, for every number of files and whichever of them load:

- `TypeCorrect`: `Spec => []TypeOK`;
- `StageBarrierHolds`: no missing check is counted anywhere before the checks of
  every module are;
- `ReportCompleteHolds`: the report covers every module, each once per stage;
- `Refinement`: `Spec => Abstract!Spec` for `CrossCheck`.

The only assumption is `FilesAssumption` (at least one file, which the command
line requires). None of these is inductive: whether the last visit of a sweep
moves the stage depends on `MIdx`, `i` and `changed`, which are kept by different
parts of the program. The invariant `IInv` ties them together. `StageInv` has one
formula for each part of the life of the last pass: `Collecting` and `Counting`
say that `MIdx = i - 1` and that exactly the modules before `i` have been counted
in this sweep; `Collected` and `Counted` describe the end of a sweep, with
`changed` saying whether another follows; before the pass nothing is counted
(`Fresh`), after it everything (`Complete`). `PlanOK` keeps MissingChecks last
but for `processResults`, so that `Fresh` lasts until it starts. With no module at
all the single sweep ends in stage 1, and `Complete` holds because it is vacuous.
The proof has one lemma per group of actions; `QuietStep` covers the steps that
leave stage, counts and plan alone.

`TablesCompleteHolds` needs the order of the passes themselves. `TablesInv` has
`OrderOK`: what a pass still in the plan reads is filled for all modules, or its
provider is before it in the plan; `LoopInv`:
the loop under way has done its part for the modules before `i`, and the loops
before it for all; and `NoneLoaded`: while files load nothing has been done.
`PlanOrder` shows for each of the four combinations of options that providers come
first.

`MarkEdgesProofs` proves, for every number of blocks, every flow graph and every
assignment of flags to blocks:

- `TypeCorrect`: `Spec => []TypeOK`;
- `HandleSoundHolds` and `HandleExactHolds`: the handle marks are never on an edge
  outside `HandleEdges`, and on all of them when checks are identified;
- `MarksKeptHolds`: no step takes a mark back;
- `HandleRefinement`: the safety part of the refinement of `HandleClosure`.

The assumptions are those of `CFG`: at least one block, and functions that are
records of the right types (`FunctionsAssumption`). `HandleExact` is the hard one,
because a walk stops early in two ways: at a block it has taken before (`PB`) and
at an edge that is marked already, maybe by the walk from another handler.
`HandleInv` says why neither loses anything. A block is `Settled` when all edges
into it are marked, `Queued` when the present walk has it in `EB` or `PB`.
`MarksPassedOn`: if the only edge out of a block is marked, the block is settled
or queued. `HandlersServed`: so is every handler the loop has passed.
`WalkThorough`: an edge into a taken block is marked or in `todo`. So when a walk
ends, all it has taken is settled, and when the loop ends the settled blocks form
a closed set (`Complete`); `HandledBlocks` is the least one. `WalkSound` is the
other direction: what is in `EB` or `todo` leads to a handler. Of the 27 actions
only four touch any of this; the others are `QuietStep`s.

For the return half it proves `ErrBlocksFencedHolds` (invariant `FenceInv`: which edges
around the current block the two loops have done; a flag once there is rewritten,
never removed), `OneCheckPerConditionHolds` and `HandlerGuardsFoundHolds`
(`ChecksInv`, together with `HandleExact`). `MustHasOriginHolds` says that a
`Must_Return_Err` is only on an edge that a block that must return an error can be
reached from, or can reach; not that every path leads there. The marks alone do not carry it (`MustSure`), since
marks travel through `EEP`, are raised to Must over all predecessors and merged at
joins: `QueueSure` speaks of the flags in the queue, `RaiseSure` of the blocks whose
edges are being raised, `MergeSure` of the flag being merged, and `OuterArcs` of what
the loops around them have left. `ChecksHaveCauseHolds` follows for the checks of
both kinds (`CauseInv`): the flags of two edges of a block differ only if one is
such a Must, so that the block lies ahead of or behind one that must return an error,
or if one leads straight to a handler and the other does not.

`MarkEdgesRerunProofs` proves `OrderIndependentHolds`, for every function without a
switch to three blocks and without a block that is both Must and May. Two runs are
not compared step by step; the order decides how many steps a walk takes. Instead
every run is shown to go through the states of one machine in which nothing is left
open (`AfterStep`). It keeps the return half of the marks only, and takes the
predecessor phase of a block in one step and the edges that are merged in another.

- What a predecessor phase marks does not depend on its order because it is a least
  set: `Back`, the blocks from which a May is on its way, and `Raised`, the edges
  that become Must once all edges out of the block behind them are. `PredInv` bounds
  the marks from both sides while the walks are under way. For a Must block the
  switch matters: of two edges out of a block the later one finds the other one
  marked, whichever it is; of three it may not.
- The phase of the successors is a queue filled by index, so only the merging of the
  other edges into a block is open; it amounts to whether one of them is May
  (`Joined`).
- `PathInv` says that the machine comes to the state the run is in, and
  `NextOrder` goes through the actions. As `AfterStep` is a function, the machine
  stands still in one state at most (`OneEnd`), so the return marks at the end are
  determined. With `HandleExact` the handle marks are too, and `ListedInv` makes the
  checks a function of both (`EndedOnce`). `RerunInv` carries this for the first run
  through the second.

`MayReturnErrProofs` proves `AnswerExactHolds` for every set of functions and every
code of theirs: `OnlySearched`, what is taken or queued is in `Searched`, and
`NothingMissed`, what a taken function leads to is taken or queued, but for the rest
of the function that is scanned. When the search ends with no error found, the taken
functions are closed and hold no error, and `Searched` is the least closed set.

`CallGraphProofs` proves, for all programs of `CallIR`:

- `CallersInverseHolds`, `KeepsCalleeHolds`, `OnlyNarrowsHolds`;
- `DirectExactHolds`: the callee of a direct call, unless it is declared by a `SyS_`
  name, is what the linker takes or its stand-in, or an external `SyS_` definition,
  since that may be filed under any name. Without such definitions it is exact;
- `OneLayerExactHolds`: with one data layout, a call through one field of a type that
  nothing casts into goes to the functions of its signature put there, or to all of the
  signature if there is none, or if the field or the whole type escapes.

The assumptions: constants that stand for nothing are not among the names, functions
and nodes (`NullAssumption`), renaming maps names to names (`NameAssumption`),
programs are records of the right types (`ProgramsAssumption`), and a call is in a
function of its own module (`CallersAssumption`). `IInv` follows the pass:
`SigsInv`, `UnifiedInv` and `GlobalsInv` give the tables of functions in terms of the
functions come to so far; `CalleesInv`, `DirectInv` and `KeepsInv` say what has been
resolved of the calls come to so far, and nothing of the others; `LayersInv` that the
loop over layers keeps the callees within the signature, and one of them.
For the layers there are `NamesInv` (a type's name is that of the first global or
value that gives it one, in the order of the modules), `TablesInv` (the tables hold
exactly what the initializers and statements so far place, let escape and cast),
`LayerInv` (where the worklist of the present call is) and `OneLayerInv` (what the
calls of one layer before got). The walk over nested initializers is a function
of the number of turns; `TurnsExist` and `NestedInside` unfold it.

`MissingChecksProofs` proves, for all well-formed programs of `ValueIR`:
`TypeCorrect`, `SeesCheckBeforeHolds`, `StagesAgreeHolds`, `ParametersAgreeHolds`,
`TotalsCoverHolds` and `BackwardExactHolds`. `WellFormedAssumption` is what LLVM's verifier guarantees
(operands are values, what uses an instruction is behind it, a parameter is used in
its function), with one restriction: a call through a pointer passes as many arguments
as its callees have parameters, so that variadic functions are called directly only.
`NameAssumption` keeps functions and values apart.

- `TypeInv` is inductive: where the pass is (`ControlOK`), alias results, counts, the
  calls of the search still to be made (`StackOK`). For the counts each step adds two
  bags, one below the other; the lemmas before it are about sums of bags.
- `StartInv`: a search that has gone past its argument found no test of it, or the
  argument is a parameter. With the fact that a key that is looked at has a model,
  this is `SeesCheckBefore`.
- `StagesAgree` compares two searches, back in stage 1 and forward in stage 2.
  `UnseenInv` records that the forward search for an entry of `UnchecksMap` failed.
  `ForwardFinds` shows that it cannot have if stage 1 came to the value from a check:
  each step back, from a load to the value stored, say, is undone by a step
  forward. For this the alias relation must be symmetric, `AliasInv`, and the blocks
  behind the definition must contain all uses, `ScopeOK`. Where it is the result of
  a call that a load may read, `OwnResult` makes the load's pointer come from it.
- `TotalsCover` is about programs without selects. The results found again are those
  a counted check tests whose call resolves, stands in an analysed function, calls none
  that is ignored and is no alias of another pointer; stage 1 counts others too, which
  the total does not take in. `GotInv` is the balance at every moment, the unchecked and the
  results come to and found again together no more than the total; the results are
  those of the functions before `n` and, of `n`, the calls no longer in `todo`.
  `CalledInv` says that only functions some call goes to are in the total.
- `BackwardExact` compares a search in depth, which drops a value it has seen at
  whatever depth, with `Frames`, a closure that forgets nothing. `SearchInv` has the
  two directions. Every call on the stack is within as many steps of the start as
  there are values (`Within`), and what was found tested is one of `Frames`. The other
  way (`NoneMissed`): where no value is come to in two ways (`OneWay`), each step on
  from a value that has been visited has been visited or is on the stack. So when the
  stack is empty the visited calls are closed under steps, and a test is found.

`ErrValueFlowProofs` proves, for every number of blocks, instructions and returns
and every function over them, `TypeCorrect`, `FlowSoundHolds`, `FlowExactHolds`,
`SelectsExactHolds` and `HandlersAddedHolds`. The assumptions are those of
`FlowIR`: one block or more, instructions that are not constants, records of the
right types. `FlowExact` is not inductive: it says nothing before the last return
is done. `FlowInv` says of a value in `PV` that its marks are in `AllMarks` and
what it leads to in `PV` or `Ahead`, where `AllMarks` counts the marks that the
sites in `todo` are going to make and `Ahead` the values they are going to queue.
With these two every turn of the worklist is one of two abstract steps: `Takes`,
which adds the marks and feeds of one new instruction, or `Passes`, which changes
neither. When the returns are done `Ahead` is empty, so `PV` is closed and, as
`Origins` is the least closed set, the two are equal on instructions.
`HandlersMarked` gives the handle half for the blocks passed so far.

`SecurityChecksPassProofs` proves `ChecksFoundHolds` and `ChecksExplainedHolds` for
every program, every order of its functions and every number of runs, under the
assumptions of `SecurityChecksPass` on `Programs`. It instantiates the two proof
modules above it (`FlowP`, `MarkP`), whose invariants are stated of the instance at
hand, so that their step lemmas apply while that half is under way. `FlowHalf` and
`MarkHalf` say of which function `body` and `fn` are, and that the invariants of
the half hold; what each half has found when it ends comes from `FlowExact`,
`HandlersAdded`, `GuardsFromInv` and `CauseFromInv`. `Seen` are the functions this run
has passed, or all from the second run on, and `SelectsInv` says that
`ErrSelectInstSet` holds what those have returned. `FoundInv` bounds `CheckInstSets`
of each of them from below and above, the selects by what had been returned up to
it (`Before`); at the end that is `Known`.

`CountsAgreeHolds` uses `MarkEdgesRerunProofs` the same way. `MarkOrder` says that the
run of the marking under way is one of those that end alike. A turn of a function then
finds a set that is determined by the function (`FoundOnce`, `OnlyOne`): the flags it
starts from are `Flags`, and the selects its own. `CountInv` counts pairs of function
and condition; from the second run on a turn adds to the counter what the sets hold
already. `CountsAgree` was restated for this, from a sum over the functions to the
number of these pairs.

What recursion computes is within reach where the proof only needs sets: the
closure of `ValueIR` and the walk of `TypeConfinement` are recursive functions of a
number of rounds, and induction over that number is done by the least number at which
something fails (`LeastNat`, `SetInduction`), from `NatLessThanWellFounded`. With it
`ClosureLeast` (a closure is in every closed set around its start) and `ClosureClosed`
(with as many rounds as there are members, it is closed) are lemmas.

Only model-checked: termination and everything else under fairness, which is
beyond the proof system (of the refinement of `HandleClosure` the safety part is
proved; `CrossCheck` has no other). Every invariant of a run that passes is also
proved.

What the proofs changed in the models. `StagesAgree` was false as first stated: a
function may return a pointer that it was given, a load of one is then taken for a
load of the other, and what stage 1 finds back through it stage 2 does not find
forward. `OwnResult` excludes it, and `MCMissingChecks` has the program
(`ReturnedPrograms`). One of the programs there used a value where it is not defined;
`WellFormed` now says what every program satisfies. `getelementptr` has at least one
index in `CallIR`, calls are in functions of their module, and
`BuildTypeStructMap` with no module goes straight to the end. `OrderIndependent` was
stated for all functions without blocks that are both Must and May; the attempt to
prove it led to the switch with three targets, which needs four blocks, one more
than the run has. It and `CountsAgree` now exclude it (`TwoWay`).
`SecurityChecksPass` says what its programs are (`ProgramsAssumption`).

## Not modelled

- `Config.h` and the files it reads, `Common.cc` but for the hashes: static tables
  and printing. Which integers are error codes, which functions handle errors, and
  which are passed over, are inputs of the models.
- Code that is not compiled or not called: `findCalleesWithType`, `unrollLoops`,
  `markEdgesToErrReturn`, `augmentMustAlias`, `findClosestBranch`,
  `findParallelPaths`, `identifyIndirectTargets`, `PrintResults`, half of
  `DataFlowAnalysis.cc`.
- LLVM itself: its alias analysis, the order of use lists and the shape of the
  bitcode are inputs.
- Collisions of hashes, vectors, more than 127 arguments.
- `PassManager` keeps its view of a pass as one visit per module; that the visits do
  what the other modules say is not composed with it. The tables are the
  interface: `TablesComplete` is what the others assume when they start from
  complete ones.
