------------------------------ MODULE CallGraph ------------------------------
(***************************************************************************)
(* TypeInitializerPass and CallGraphPass over all modules: main runs the first,  *)
(* then BuildTypeStructMap, then doInitialization of the second for every module,  *)
(* then its doModulePass.  pc names the loop the program is in:                 *)
(*   "types"    the modules, for TypeInitializerPass                            *)
(*   "globals", "nodes"   the globals of module i; the worklist of one of them    *)
(*   "funs"     the functions of module i                                       *)
(*   "calls"    the calls of module i                                           *)
(*   "layers", "transits"   the two loops of findCalleesWithMLTA                *)
(*   "done".                                                                   *)
(***************************************************************************)
EXTENDS TypeConfinement

VARIABLES
  pc, i, k,            \* the module, and the global, function or call in it
  AddressTakenFuncs,
  sigFuncsMap,         \* set of <<signature, function>>
  GlobalFuncs,         \* set of <<name, function>>
  UnifiedFuncMap,      \* set of <<hash, function>>
  UnifiedFuncSet,
  Callees,             \* set of <<call, functions>>; a call is <<module, index>>
  Callers,             \* set of <<function, call>>
  IndirectCallInsts

funVars == <<AddressTakenFuncs, sigFuncsMap, GlobalFuncs, UnifiedFuncMap, UnifiedFuncSet>>
callVars == <<Callees, Callers, IndirectCallInsts>>
control == <<pc, i, k>>
vars == <<prog, nameVars, tableVars, LU, layerVars, funVars, callVars, control>>

Module == DOMAIN prog.mod
LastModule == Len(prog.mod)
CallAt(c) == prog.mod[c[1]].calls[c[2]]
Calls == UNION {{m} \X DOMAIN prog.mod[m].calls : m \in Module}

FuncHash(f) == <<prog.fn[f].sig, prog.fn[f].name>>

Init ==
  /\ prog \in Programs
  /\ NamesInit /\ ConfinementInit
  /\ AddressTakenFuncs = {} /\ sigFuncsMap = {} /\ GlobalFuncs = {}
  /\ UnifiedFuncMap = {} /\ UnifiedFuncSet = {}
  /\ Callees = {} /\ Callers = {} /\ IndirectCallInsts = <<>>
  /\ pc = "types" /\ i = 1 /\ k = 1

-----------------------------------------------------------------------------
(* The loops over the modules.                                               *)
TypesOfModule ==
  /\ pc = "types" /\ i <= LastModule
  /\ NameTypes(i)
  /\ i' = i + 1
  /\ UNCHANGED <<prog, tableVars, LU, layerVars, funVars, callVars, pc, k>>

BuildStructs ==
  /\ pc = "types" /\ i > LastModule
  /\ BuildTypeStructMap
  /\ pc' = IF LastModule = 0 THEN "done" ELSE "globals"
  /\ i' = 1
  /\ UNCHANGED <<prog, tableVars, LU, layerVars, funVars, callVars, k>>

NextModule(first, next) ==
  /\ k' = 1
  /\ IF i < LastModule THEN pc' = first /\ i' = i + 1 ELSE pc' = next /\ i' = 1
  /\ UNCHANGED <<prog, nameVars, tableVars, LU, layerVars, funVars, callVars>>

EndGlobals ==
  /\ pc = "globals" /\ k > Len(prog.mod[i].globals)
  /\ pc' = "funs" /\ k' = 1
  /\ UNCHANGED <<prog, nameVars, tableVars, LU, layerVars, funVars, callVars, i>>

EndFunctions == pc = "funs" /\ k > Len(prog.mod[i].funs) /\ NextModule("globals", "calls")

EndCalls == pc = "calls" /\ k > Len(prog.mod[i].calls) /\ NextModule("calls", "done")

-----------------------------------------------------------------------------
(* doInitialization: the initializers of global variables,                      *)
GlobalVariable ==
  /\ pc = "globals" /\ k <= Len(prog.mod[i].globals)
  /\ StartInitializer(prog.mod[i].globals[k].ini)
  /\ pc' = "nodes"
  /\ UNCHANGED <<prog, nameVars, layerVars, funVars, callVars, i, k>>

InitializerNode ==
  /\ pc = "nodes" /\ LU # <<>>
  /\ VisitInitializer(i)
  /\ UNCHANGED <<prog, nameVars, layerVars, funVars, callVars, control>>

EndInitializer ==
  /\ pc = "nodes" /\ LU = <<>>
  /\ pc' = "globals" /\ k' = k + 1
  /\ UNCHANGED <<prog, nameVars, tableVars, LU, layerVars, funVars, callVars, i>>

(* then the functions.  The name of a system call is made to start with sys_,    *)
(* but its StringRef outlives the string: the bytes read may spell that name, the  *)
(* name of another function, or nothing.                                       *)
KeyNames(name) == IF name \in DOMAIN Renamed THEN Name \cup {Dangling} ELSE {name}

(* The last definition of a name replaces the others.                        *)
Defines(f, name) ==
  IF prog.fn[f].external THEN {e \in GlobalFuncs : e[1] # name} \cup {<<name, f>>}
  ELSE GlobalFuncs

(* The first function with a hash stands for all of them.                     *)
Unifies(f) == At(UnifiedFuncMap, FuncHash(f)) = {}

FunctionDefinition ==
  /\ pc = "funs" /\ k <= Len(prog.mod[i].funs)
  /\ LET f == prog.mod[i].funs[k]
         taken == IF prog.fn[f].taken THEN {f} ELSE {}
         unified == IF Unifies(f) THEN {f} ELSE {} IN
     /\ ConfineCode(prog.fn[f].code, i)
     /\ AddressTakenFuncs' = AddressTakenFuncs \cup taken
     /\ sigFuncsMap' = sigFuncsMap \cup {<<prog.fn[g].sig, g>> : g \in taken}
     /\ \E name \in KeyNames(prog.fn[f].name) : GlobalFuncs' = Defines(f, name)
     /\ UnifiedFuncMap' = UnifiedFuncMap \cup {<<FuncHash(g), g>> : g \in unified}
     /\ UnifiedFuncSet' = UnifiedFuncSet \cup unified
  /\ k' = k + 1
  /\ UNCHANGED <<prog, nameVars, layerVars, callVars, pc, i>>

-----------------------------------------------------------------------------
(* doModulePass.  Calls in functions that another stands for are passed over.     *)
Skipped(caller) == caller \notin UnifiedFuncSet

Visited(kind) ==
  /\ pc = "calls" /\ k <= Len(prog.mod[i].calls)
  /\ prog.mod[i].calls[k].kind = kind
  /\ ~Skipped(prog.mod[i].calls[k].caller)

SkipCall ==
  /\ pc = "calls" /\ k <= Len(prog.mod[i].calls)
  /\ Skipped(prog.mod[i].calls[k].caller)
  /\ k' = k + 1
  /\ UNCHANGED <<prog, nameVars, tableVars, LU, layerVars, funVars, callVars, pc, i>>

(* Mutant: a function keeps its last caller only.                             *)
Resolve_Last(c, fs) ==
  /\ Callees' = Callees \cup {<<c, fs>>}
  /\ Callers' = {e \in Callers : e[1] \notin fs} \cup (fs \X {c})
  /\ k' = k + 1

Resolve(c, fs) ==
  /\ Callees' = Callees \cup {<<c, fs>>}
  /\ Callers' = Callers \cup (fs \X {c})
  /\ k' = k + 1

(* Mutant: the definition in another module is not looked up.                 *)
Linked_Own(cf, name) == cf
(* A declared function is replaced by the definition of its name, if there is one.*)
Linked(cf, name) ==
  IF prog.fn[cf].body \/ At(GlobalFuncs, name) = {} THEN cf
  ELSE CHOOSE gf \in At(GlobalFuncs, name) : TRUE

DirectCall ==
  /\ Visited("direct")
  /\ LET cf == prog.mod[i].calls[k].callee IN
     \E name \in KeyNames(prog.fn[cf].name) :
       Resolve(<<i, k>>, At(UnifiedFuncMap, FuncHash(Linked(cf, name))))
  /\ UNCHANGED <<prog, nameVars, tableVars, LU, layerVars, funVars, IndirectCallInsts, pc, i>>

InlineAsm ==
  /\ Visited("asm")
  /\ Resolve(<<i, k>>, {})
  /\ UNCHANGED <<prog, nameVars, tableVars, LU, layerVars, funVars, IndirectCallInsts, pc, i>>

(* The first layer: all functions of the signature.  With none the layers are    *)
(* not looked at.                                                            *)
IndirectCall ==
  /\ Visited("indirect")
  /\ LET ci == prog.mod[i].calls[k]
         first == At(sigFuncsMap, ci.sig) IN
     StartLayers(IF first = {} THEN <<>> ELSE ci.called, first)
  /\ pc' = "layers"
  /\ UNCHANGED <<prog, nameVars, tableVars, LU, funVars, callVars, i, k>>

Layer ==
  /\ pc = "layers" /\ MoreLayers(LastModule)
  /\ EnterLayer(LastModule)
  /\ pc' = "transits"
  /\ UNCHANGED <<prog, nameVars, tableVars, LU, funVars, callVars, i, k>>

Transit ==
  /\ pc = "transits"
  /\ \E h \in transits : MergeTransit(h)
  /\ UNCHANGED <<prog, nameVars, tableVars, LU, funVars, callVars, control>>

EndLayer ==
  /\ pc = "transits" /\ transits = {}
  /\ LeaveLayer
  /\ pc' = "layers"
  /\ UNCHANGED <<prog, nameVars, tableVars, LU, funVars, callVars, i, k>>

EndLayers ==
  /\ pc = "layers" /\ ~MoreLayers(LastModule)
  /\ Resolve(<<i, k>>, FS1)
  /\ IndirectCallInsts' = Append(IndirectCallInsts, <<i, k>>)
  /\ pc' = "calls"
  /\ UNCHANGED <<prog, nameVars, tableVars, LU, layerVars, funVars, i>>

Done == pc = "done" /\ UNCHANGED vars

Next ==
  \/ TypesOfModule \/ BuildStructs
  \/ GlobalVariable \/ InitializerNode \/ EndInitializer \/ EndGlobals
  \/ FunctionDefinition \/ EndFunctions
  \/ SkipCall \/ DirectCall \/ InlineAsm
  \/ IndirectCall \/ Layer \/ Transit \/ EndLayer \/ EndLayers \/ EndCalls
  \/ Done

Spec == Init /\ [][Next]_vars /\ WF_vars(Next)
-----------------------------------------------------------------------------
Definitions == UNION {Range(prog.mod[m].funs) : m \in Module}

Duplicate(f) == f \in Definitions \ UnifiedFuncSet

(* A direct call has as callee what the linker takes: the called function itself if   *)
(* it has a body, an external definition of the name if there is one, or a stand-in   *)
(* of the same name and type; a static function of another module only if it has     *)
(* both.  Only where a definition's name starts with SyS_ may it be that definition   *)
(* instead, which is filed under any name; and what is called is not declared by      *)
(* such a name itself.                                                         *)
Linkable(cf) ==
  LET external == {g \in Definitions : prog.fn[g].external /\ prog.fn[g].name = prog.fn[cf].name} IN
  IF prog.fn[cf].body \/ external = {} THEN {cf} ELSE external
StandsFor(fs, f) ==
  IF \A g \in Definitions : FuncHash(g) # FuncHash(f) THEN fs = {}
  ELSE \E g \in UnifiedFuncSet : fs = {g} /\ FuncHash(g) = FuncHash(f)
Plain(cf) == prog.fn[cf].body \/ prog.fn[cf].name \notin DOMAIN Renamed
Misfiled(cf) ==
  IF prog.fn[cf].body THEN {}
  ELSE {g \in Definitions : prog.fn[g].external /\ prog.fn[g].name \in DOMAIN Renamed}

DirectExact ==
  pc = "done" =>
    \A e \in Callees :
      LET ci == CallAt(e[1]) IN
      ci.kind = "direct" /\ Plain(ci.callee) =>
        \E f \in Linkable(ci.callee) \cup Misfiled(ci.callee) : StandsFor(e[2], f)

(* "Special case: make the names of syscalls consistent" (CallGraph.cc:584): a        *)
(* direct call of a system call that is declared as SyS_ or sys_ goes to an external  *)
(* definition of it by either name.                                             *)
SyscallName(name) == IF name \in DOMAIN Renamed THEN Renamed[name] ELSE name
SyscallsConsistent ==
  pc = "done" =>
    \A e \in Callees :
      LET ci == CallAt(e[1])
          name == SyscallName(prog.fn[ci.callee].name)
          defined == {g \in Definitions : prog.fn[g].external /\ SyscallName(prog.fn[g].name) = name} IN
      ci.kind = "direct" /\ ~prog.fn[ci.callee].body /\ name \in Range(Renamed) /\ defined # {} =>
        \E f \in defined : StandsFor(e[2], f)

(* Each call outside the duplicates of a function gets its callees, once, the calls   *)
(* in the duplicates get none, and the callers of a function are the calls it is a     *)
(* callee of, whichever copy of it came first.                                     *)
CallersInverse ==
  pc = "done" =>
    /\ {e[1] : e \in Callees} = {c \in Calls : ~Duplicate(CallAt(c).caller)}
    /\ \A d, e \in Callees : d[1] = e[1] => d = e
    /\ Callers = UNION {e[2] \X {e[1]} : e \in Callees}

(* An indirect call has for callees functions of its signature whose address is       *)
(* taken, and at least one of them if there is one, whatever the layers say.            *)
Typed(sig) == {f \in Definitions : prog.fn[f].taken /\ prog.fn[f].sig = sig}
KeepsCallee ==
  pc = "done" =>
    \A e \in Callees :
      LET ci == CallAt(e[1]) IN
      ci.kind = "indirect" => e[2] \subseteq Typed(ci.sig) /\ (e[2] = {} => Typed(ci.sig) = {})

(* The name of a literal type: that of the struct that the first operand anywhere     *)
(* named like the first global of the type points to, if it points to one.           *)
Positions(field) == UNION {{m} \X DOMAIN prog.mod[m][field] : m \in Module}
First(S) ==
  {p \in S : \A q \in S : p[1] < q[1] \/ (p[1] = q[1] /\ p[2] <= q[2])}
FirstGlobals(t) == First({p \in Positions("globals") : prog.mod[p[1]].globals[p[2]].type = t})
FirstValues(name) == First({p \in Positions("values") : prog.mod[p[1]].values[p[2]][1] = name})
StructName(t) ==
  IF Literal(t)
  THEN UNION {{prog.mod[q[1]].values[q[2]][2] : q \in FirstValues(prog.mod[p[1]].globals[p[2]].name)} :
                p \in FirstGlobals(t)}
  ELSE {prog.ty[t].name}
Same(t, u) ==
  \/ t = u
  \/ /\ {t, u} \subseteq Struct
     /\ StructName(t) = StructName(u) /\ prog.ty[t].elements = prog.ty[u].elements

(* Which functions the program puts into field idx of type t, and whether something    *)
(* unknown goes there or into field -1, which stands for all of the type, whatever    *)
(* the order of modules and of the worklist.                                        *)
Field(ptr, t, idx) == HasLayer(ptr) /\ Same(LayerTy(ptr), t) /\ LayerIdx(ptr) = idx
Statements == UNION {prog.fn[f].code : f \in Definitions}
Initializers ==
  LET roots == (UNION {{g.ini : g \in Range(prog.mod[m].globals)} : m \in Module}) \cap Node
      inside(n) == Range(prog.node[n].ops) \cap Node
      closed == {S \in SUBSET Node : roots \subseteq S /\ \A n \in S : inside(n) \subseteq S} IN
  {n \in Node : \A S \in closed : n \in S}
Placed(t, idx) ==
  {s.value : s \in {r \in Statements : r.kind = "storeFunction" /\ Field(r.to, t, idx)}}
    \cup {prog.node[n].ops[idx + 1] :
            n \in {x \in Initializers : Same(prog.node[x].type, t) /\ idx + 1 \in DOMAIN prog.node[x].ops}}
Unknown(t, idx) ==
  \E s \in Statements : \E x \in {idx, -1} :
    s.kind = "storePointer" /\ ~isCompositeType(s.elem) /\ Field(s.to, t, x)
CastInto(t) ==
  \E s \in Statements : s.kind = "cast" /\ Same(s.into, t) /\ isCompositeType(s.from)

(* A call through one field, of a type that nothing is cast into, can reach the      *)
(* functions of its signature that are put into that field; all of the signature if   *)
(* there is none or if something unknown is put there, or is put at index -1, for     *)
(* which the whole type escapes.                                                *)
OneLayerExact ==
  pc = "done" /\ (\A m \in Module : prog.mod[m].layout = prog.mod[1].layout) =>
    \A e \in Callees :
      LET ci == CallAt(e[1])
          type == LayerTy(ci.called)
          idx == LayerIdx(ci.called) IN
      ci.kind = "indirect" /\ HasLayer(ci.called) /\ ~HasLayer(Below(ci.called)) /\ ~CastInto(type) =>
        LET here == Typed(ci.sig) \cap Placed(type, idx) IN
        e[2] = IF Unknown(type, idx) \/ here = {} THEN Typed(ci.sig) ELSE here

(* While the layers of a call are looked at, functions only leave, never all.        *)
OnlyNarrows ==
  [][\/ pc \notin {"layers", "transits"}
     \/ FS1' \subseteq FS1 /\ (FS1' = {} => FS1 = {})]_vars
=============================================================================
