--------------------------- MODULE CallGraphProofs ---------------------------
(***************************************************************************)
(* Proofs about CallGraph, for every set of programs.  The inductive invariant  *)
(* says what the tables of functions hold of the functions that have been come   *)
(* to, what has been resolved of the calls that have, and what the loop over the   *)
(* layers of one call keeps.  The second half, from "First occurrences", is about   *)
(* calls with one layer: the names of the types come from the first literal or     *)
(* value that gives one (NamesInv), the tables hold what the initializers and      *)
(* statements visited so far place in fields, let escape and cast (TablesInv), the  *)
(* worklist of one call narrows to the functions of its field (LayerInv), and what  *)
(* was answered stays the answer (OneLayerInv).                                  *)
(***************************************************************************)
EXTENDS CallGraph, SequenceTheorems, WellFoundedInduction, TLAPS

(* What doInitialization and doModulePass have come to, in the order of the modules *)
(* and, in a module, of its functions or calls.                                *)
Before(m, j) == m < i \/ (m = i /\ j < k)

FunSeen(m, j) ==
  CASE pc \in {"globals", "nodes"}                     -> m < i
    [] pc = "funs"                                     -> Before(m, j)
    [] pc \in {"calls", "layers", "transits", "done"}  -> TRUE
    [] OTHER                                           -> FALSE
CallSeen(m, j) ==
  CASE pc \in {"calls", "layers", "transits"} -> Before(m, j)
    [] pc = "done"                            -> TRUE
    [] OTHER                                  -> FALSE

Seen == {f \in Fun : \E m \in Module : \E j \in DOMAIN prog.mod[m].funs :
                       FunSeen(m, j) /\ prog.mod[m].funs[j] = f}
CallsSeen == {c \in Calls : CallSeen(c[1], c[2])}

ControlOK ==
  /\ pc \in {"types", "globals", "nodes", "funs", "calls", "layers", "transits", "done"}
  /\ prog \in Programs
  /\ i \in Nat \ {0} /\ k \in Nat \ {0}
  /\ pc = "types" => i <= LastModule + 1
  /\ pc \notin {"types", "done"} => i \in Module
  /\ pc = "nodes" => k <= Len(prog.mod[i].globals)
  /\ pc \in {"layers", "transits"} => k <= Len(prog.mod[i].calls)

(* The tables of functions, in terms of the functions seen.                     *)
SigsInv == \A sig \in Sig : At(sigFuncsMap, sig) = {f \in Seen : prog.fn[f].taken /\ prog.fn[f].sig = sig}
UnifiedInv ==
  /\ UnifiedFuncSet \subseteq Seen
  /\ \A h : At(UnifiedFuncMap, h) = {f \in UnifiedFuncSet : FuncHash(f) = h}
  /\ \A f \in Seen : \E g \in UnifiedFuncSet : FuncHash(g) = FuncHash(f)
  /\ \A f, g \in UnifiedFuncSet : FuncHash(f) = FuncHash(g) => f = g
GlobalsInv ==
  /\ \A name : \A f \in At(GlobalFuncs, name) :
       f \in Seen /\ prog.fn[f].external /\ name \in KeyNames(prog.fn[f].name)
  /\ \A f \in Seen : prog.fn[f].external =>
       \E name \in KeyNames(prog.fn[f].name) : At(GlobalFuncs, name) # {}

(* The calls seen and what they were resolved to.                               *)
CalleesInv ==
  /\ {e[1] : e \in Callees} = {c \in CallsSeen : CallAt(c).caller \in UnifiedFuncSet}
  /\ \A d, e \in Callees : d[1] = e[1] => d = e
  /\ Callers = UNION {e[2] \X {e[1]} : e \in Callees}

KeepsInv ==
  \A e \in Callees :
    LET ci == CallAt(e[1]) IN
    ci.kind = "indirect" => e[2] \subseteq Typed(ci.sig) /\ (e[2] = {} => Typed(ci.sig) = {})
Reached(cf) == Linkable(cf) \cup Misfiled(cf)
DirectInv ==
  \A e \in Callees :
    LET ci == CallAt(e[1]) IN
    ci.kind = "direct" /\ Plain(ci.callee) => \E f \in Reached(ci.callee) : StandsFor(e[2], f)

(* The call under way, while its layers are looked at.                           *)
LayersInv ==
  pc \in {"layers", "transits"} =>
    LET ci == prog.mod[i].calls[k] IN
    /\ ci.kind = "indirect" /\ ci.caller \in UnifiedFuncSet
    /\ FS1 \subseteq Typed(ci.sig) /\ (FS1 = {} => Typed(ci.sig) = {})
    /\ pc = "transits" => FST \subseteq FS1

IInv == ControlOK /\ SigsInv /\ UnifiedInv /\ GlobalsInv /\ CalleesInv /\ KeepsInv /\ DirectInv /\ LayersInv

-----------------------------------------------------------------------------
(* The parts of a program have their types.                                    *)
LEMMA ProgFacts ==
  ASSUME prog \in Programs
  PROVE  /\ LastModule \in Nat /\ Module = 1 .. LastModule
         /\ \A m \in Module :
              /\ prog.mod[m].funs \in Seq(Fun) /\ prog.mod[m].calls \in Seq(CallInst)
              /\ \A j \in DOMAIN prog.mod[m].calls :
                   \E l \in DOMAIN prog.mod[m].funs :
                     prog.mod[m].calls[j].caller = prog.mod[m].funs[l]
         /\ \A f \in Fun : prog.fn[f] \in FunRecord
<1>1. prog \in [fn : [Fun -> FunRecord], wide : BOOLEAN, mod : Seq(ModRecord),
                ty : [Struct -> [name : Name \cup {NoName}, elements : Nat]],
                node : [Node -> [type : Type, ops : Seq(Fun \cup Node \cup {"other"})]]]
  BY ProgramsAssumption
<1>2. prog.mod \in Seq(ModRecord) /\ prog.fn \in [Fun -> FunRecord]
  BY <1>1
<1>3. LastModule \in Nat /\ Module = 1 .. LastModule
  BY <1>2, LenProperties DEF LastModule, Module
<1>4. ASSUME NEW m \in Module
      PROVE  prog.mod[m].funs \in Seq(Fun) /\ prog.mod[m].calls \in Seq(CallInst)
  <2>1. prog.mod[m] \in ModRecord
    BY <1>2, <1>3, ElementOfSeq DEF LastModule
  <2> QED
    BY <2>1 DEF ModRecord
<1>5. ASSUME NEW m \in Module, NEW j \in DOMAIN prog.mod[m].calls
      PROVE  \E l \in DOMAIN prog.mod[m].funs : prog.mod[m].calls[j].caller = prog.mod[m].funs[l]
  <2>1. m \in DOMAIN prog.mod
    BY DEF Module
  <2>2. prog.mod[m].calls[j] \in Range(prog.mod[m].calls)
    BY DEF Range
  <2>3. prog.mod[m].calls[j].caller \in Range(prog.mod[m].funs)
    BY <2>1, <2>2, CallersAssumption
  <2> QED
    BY <2>3 DEF Range
<1> QED
  BY <1>2, <1>3, <1>4, <1>5
(* What a call of a module of a program is.                                   *)
LEMMA CallFacts ==
  ASSUME prog \in Programs, NEW m \in Module, NEW j \in DOMAIN prog.mod[m].calls
  PROVE  LET ci == prog.mod[m].calls[j] IN
         /\ ci.caller \in Definitions
         /\ \/ ci.kind = "direct" /\ ci.callee \in Fun
            \/ ci.kind = "asm"
            \/ ci.kind = "indirect" /\ ci.sig \in Sig
<1>1. prog.mod[m].calls[j] \in CallInst
  BY ProgFacts, ElementOfSeq, LenProperties
<1>2. prog.mod[m].calls[j].caller \in Range(prog.mod[m].funs)
  BY ProgFacts DEF Range
<1> QED
  BY <1>1, <1>2 DEF CallInst, Definitions

(* The functions seen are among those defined, and all of them once calls are visited. *)
LEMMA DefinitionFacts ==
  ASSUME prog \in Programs
  PROVE  /\ Definitions \subseteq Fun
         /\ \A f : f \in Definitions <=> \E m \in Module : \E j \in DOMAIN prog.mod[m].funs : prog.mod[m].funs[j] = f
         /\ Seen \subseteq Definitions
         /\ pc \in {"calls", "layers", "transits", "done"} => Seen = Definitions
<1>1. \A m \in Module : \A j \in DOMAIN prog.mod[m].funs : prog.mod[m].funs[j] \in Fun
  <2>1. ASSUME NEW m \in Module, NEW j \in DOMAIN prog.mod[m].funs
        PROVE  prog.mod[m].funs[j] \in Fun
    BY ProgFacts, ElementOfSeq, LenProperties
  <2> QED
    BY <2>1
<1>2. \A f : f \in Definitions <=> \E m \in Module : \E j \in DOMAIN prog.mod[m].funs : prog.mod[m].funs[j] = f
  BY DEF Definitions, Range
<1>3. Definitions \subseteq Fun
  BY <1>1, <1>2
<1>4. Seen \subseteq Definitions
  BY <1>2 DEF Seen
<1>5. ASSUME pc \in {"calls", "layers", "transits", "done"}
      PROVE  Seen = Definitions
  <2>1. \A m, j : FunSeen(m, j)
    BY <1>5 DEF FunSeen
  <2> QED
    BY <1>2, <1>3, <2>1 DEF Seen
<1> QED
  BY <1>2, <1>3, <1>4, <1>5

(* The invariant holds initially.                                             *)
LEMMA InitIInv == Init => IInv
<1> SUFFICES ASSUME Init PROVE IInv
  OBVIOUS
<1>1. prog \in Programs /\ pc = "types" /\ i = 1 /\ k = 1
  BY DEF Init
<1>2. Seen = {} /\ CallsSeen = {}
  BY <1>1 DEF Seen, FunSeen, CallsSeen, CallSeen
<1>3. ControlOK
  BY <1>1, ProgFacts DEF ControlOK
<1>4. SigsInv /\ UnifiedInv /\ GlobalsInv
  BY <1>2 DEF Init, SigsInv, UnifiedInv, GlobalsInv, At
<1>5. CalleesInv /\ KeepsInv /\ DirectInv
  BY <1>2 DEF Init, CalleesInv, KeepsInv, DirectInv
<1> QED
  BY <1>1, <1>3, <1>4, <1>5 DEF IInv, LayersInv

-----------------------------------------------------------------------------
(* The steps that go on in the program without looking at a function or a call.     *)
Moves ==
  \/ TypesOfModule \/ BuildStructs \/ GlobalVariable \/ InitializerNode \/ EndInitializer
  \/ EndGlobals \/ EndFunctions \/ EndCalls

(* The steps that touch only names and tables, and the control.               *)
LEMMA MovesControl ==
  ASSUME ControlOK, Moves
  PROVE  /\ ControlOK' /\ pc' \notin {"layers", "transits"}
         /\ UNCHANGED <<prog, funVars, callVars>>
<1>1. LastModule \in Nat /\ Module = 1 .. LastModule
  BY ProgFacts DEF ControlOK
<1>2. UNCHANGED <<prog, funVars, callVars>>
  BY DEF Moves, TypesOfModule, BuildStructs, GlobalVariable, InitializerNode, EndInitializer,
         EndGlobals, EndFunctions, EndCalls, NextModule
<1>3. prog' = prog
  BY <1>2
<1>4. LastModule' = LastModule /\ Module' = Module
  BY <1>3 DEF LastModule, Module
<1>5. /\ pc' \in {"types", "globals", "nodes", "funs", "calls", "done"}
      /\ i' \in Nat \ {0} /\ k' \in Nat \ {0}
  BY <1>1 DEF ControlOK, Moves, TypesOfModule, BuildStructs, GlobalVariable, InitializerNode, EndInitializer,
         EndGlobals, EndFunctions, EndCalls, NextModule, control
<1>6. pc' = "types" => i' <= LastModule + 1
  BY <1>1 DEF ControlOK, Moves, TypesOfModule, BuildStructs, GlobalVariable, InitializerNode, EndInitializer,
         EndGlobals, EndFunctions, EndCalls, NextModule, control
<1>7. pc' \notin {"types", "done"} => i' \in Module
  BY <1>1 DEF ControlOK, Moves, TypesOfModule, BuildStructs, GlobalVariable, InitializerNode, EndInitializer,
         EndGlobals, EndFunctions, EndCalls, NextModule, control
<1>8. pc' = "nodes" => k' <= Len(prog.mod[i'].globals)
  BY <1>1 DEF ControlOK, Moves, TypesOfModule, BuildStructs, GlobalVariable, InitializerNode, EndInitializer,
         EndGlobals, EndFunctions, EndCalls, NextModule, control
<1> QED
  BY <1>2, <1>3, <1>4, <1>5, <1>6, <1>7, <1>8 DEF ControlOK

(* Those steps visit no function and no call.                                 *)
LEMMA MovesSeen ==
  ASSUME ControlOK, Moves
  PROVE  Seen' = Seen /\ CallsSeen' = CallsSeen
<1>1. LastModule \in Nat /\ Module = 1 .. LastModule /\ i \in Nat \ {0} /\ k \in Nat \ {0}
  BY ProgFacts DEF ControlOK
<1>2. prog' = prog /\ Module' = Module /\ Calls' = Calls
  BY MovesControl DEF Module, Calls
<1>3. ASSUME NEW m \in Module, NEW j \in DOMAIN prog.mod[m].funs
      PROVE  FunSeen(m, j)' <=> FunSeen(m, j)
  <2>1. m \in Nat /\ 1 <= m /\ m <= LastModule /\ j \in Nat /\ 1 <= j /\ j <= Len(prog.mod[m].funs)
    BY <1>1, ProgFacts, LenProperties DEF ControlOK
  <2>2. CASE TypesOfModule \/ BuildStructs \/ GlobalVariable \/ InitializerNode \/ EndInitializer
    BY <1>1, <2>1, <2>2 DEF TypesOfModule, BuildStructs, GlobalVariable, InitializerNode, EndInitializer,
       FunSeen, control
  <2>3. CASE EndGlobals
    BY <1>1, <2>1, <2>3 DEF EndGlobals, FunSeen, Before
  <2>4. CASE EndFunctions
    <3>1. /\ pc = "funs" /\ k > Len(prog.mod[i].funs)
          /\ \/ i < LastModule /\ pc' = "globals" /\ i' = i + 1
             \/ ~(i < LastModule) /\ pc' = "calls"
      BY <2>4 DEF EndFunctions, NextModule
    <3>2. i \in Module
      BY <3>1 DEF ControlOK
    <3>3. m = i => j < k
      <4>1. Len(prog.mod[i].funs) \in Nat
        BY <3>2, ProgFacts, LenProperties DEF ControlOK
      <4> QED
        BY <1>1, <2>1, <3>1, <4>1
    <3> QED
      BY <1>1, <2>1, <3>1, <3>2, <3>3 DEF FunSeen, Before
  <2>5. CASE EndCalls
    BY <2>5 DEF EndCalls, NextModule, FunSeen
  <2> QED
    BY <2>2, <2>3, <2>4, <2>5 DEF Moves
<1>4. ASSUME NEW c \in Calls
      PROVE  CallSeen(c[1], c[2])' <=> CallSeen(c[1], c[2])
  <2> PICK m \in Module : c \in {m} \X DOMAIN prog.mod[m].calls
    BY DEF Calls
  <2> DEFINE j == c[2]
  <2>1. c[1] = m /\ c[2] = j /\ j \in DOMAIN prog.mod[m].calls
    OBVIOUS
  <2> HIDE DEF j
  <2>2. m \in Nat /\ 1 <= m /\ m <= LastModule /\ j \in Nat /\ 1 <= j /\ j <= Len(prog.mod[m].calls)
    BY <1>1, <2>1, ProgFacts, LenProperties DEF ControlOK
  <2>3. CASE TypesOfModule \/ BuildStructs \/ GlobalVariable \/ InitializerNode \/ EndInitializer \/ EndGlobals
    <3>1. LastModule # 0
      BY <1>1, <2>2
    <3>2. pc \in {"types", "globals", "nodes"} /\ pc' \in {"types", "globals", "nodes", "funs"}
      BY <2>3, <3>1 DEF TypesOfModule, BuildStructs, GlobalVariable, InitializerNode, EndInitializer,
         EndGlobals, control
    <3> QED
      BY <3>2 DEF CallSeen
  <2>4. CASE EndFunctions
    BY <1>1, <2>1, <2>2, <2>4 DEF EndFunctions, NextModule, CallSeen, Before
  <2>5. CASE EndCalls
    <3>1. /\ pc = "calls" /\ k > Len(prog.mod[i].calls) /\ k' = 1
          /\ \/ i < LastModule /\ pc' = "calls" /\ i' = i + 1
             \/ ~(i < LastModule) /\ pc' = "done"
      BY <2>5 DEF EndCalls, NextModule
    <3>2. i \in Module
      BY <3>1 DEF ControlOK
    <3>3. m = i => j < k
      <4>1. Len(prog.mod[i].calls) \in Nat
        BY <3>2, ProgFacts, LenProperties DEF ControlOK
      <4> QED
        BY <1>1, <2>2, <3>1, <4>1
    <3>4. CallSeen(m, j)' <=> CallSeen(m, j)
      BY <1>1, <2>2, <3>1, <3>2, <3>3 DEF CallSeen, Before
    <3> QED
      BY <2>1, <3>4
  <2> QED
    BY <2>3, <2>4, <2>5 DEF Moves
<1>5. Seen' = Seen
  <2>1. \A m \in Module : \A j \in DOMAIN prog.mod[m].funs : FunSeen(m, j)' <=> FunSeen(m, j)
    BY <1>3
  <2>2. Seen' = {f \in Fun : \E m \in Module : \E j \in DOMAIN prog.mod[m].funs :
                   FunSeen(m, j)' /\ prog.mod[m].funs[j] = f}
    BY <1>2 DEF Seen
  <2> QED
    BY <2>1, <2>2 DEF Seen
<1>6. CallsSeen' = CallsSeen
  BY <1>2, <1>4 DEF CallsSeen
<1> QED
  BY <1>5, <1>6
(* The invariants of the tables and of what is resolved, carried over a step that   *)
(* leaves the first, or both, alone.                                            *)
LEMMA TablesKept ==
  ASSUME IInv, prog' = prog, UNCHANGED funVars, Seen' = Seen
  PROVE  SigsInv' /\ UnifiedInv' /\ GlobalsInv'
<1>1. SigsInv /\ UnifiedInv /\ GlobalsInv
  BY DEF IInv
<1>2. UNCHANGED <<sigFuncsMap, GlobalFuncs, UnifiedFuncMap, UnifiedFuncSet>>
  BY DEF funVars
<1>3. SigsInv'
  BY <1>1, <1>2 DEF SigsInv, At
<1>4. UnifiedInv'
  BY <1>1, <1>2 DEF UnifiedInv, At, FuncHash
<1>5. GlobalsInv'
  BY <1>1, <1>2 DEF GlobalsInv, At, KeyNames
<1> QED
  BY <1>3, <1>4, <1>5

(* Operators that read only the program.                                      *)
LEMMA SameTyped ==
  ASSUME prog' = prog
  PROVE  /\ Definitions' = Definitions
         /\ \A sig : Typed(sig)' = Typed(sig)
         /\ \A c : CallAt(c)' = CallAt(c)
         /\ \A cf : Reached(cf)' = Reached(cf) /\ (Plain(cf)' <=> Plain(cf))
         /\ UnifiedFuncSet' = UnifiedFuncSet => \A fs, f : StandsFor(fs, f)' <=> StandsFor(fs, f)
<1>1. Definitions' = Definitions
  BY DEF Definitions, Module
<1>2. UnifiedFuncSet' = UnifiedFuncSet => \A fs, f : StandsFor(fs, f)' <=> StandsFor(fs, f)
  BY <1>1 DEF StandsFor, FuncHash
<1> QED
  BY <1>1, <1>2 DEF Typed, CallAt, Linkable, Misfiled, Reached, Plain

(* A step that resolves no call keeps what is known of the calls resolved.    *)
LEMMA ResolvedKept ==
  ASSUME IInv, prog' = prog, UNCHANGED callVars, CallsSeen' = CallsSeen, UnifiedFuncSet' = UnifiedFuncSet
  PROVE  CalleesInv' /\ KeepsInv' /\ DirectInv'
<1>1. CalleesInv /\ KeepsInv /\ DirectInv
  BY DEF IInv
<1>2. Callees' = Callees /\ Callers' = Callers
  BY DEF callVars
<1>3. CalleesInv'
  BY <1>1, <1>2, SameTyped DEF CalleesInv
<1>4. KeepsInv'
  BY <1>1, <1>2, SameTyped DEF KeepsInv
<1>5. DirectInv'
  <2>1. \A e \in Callees : Reached(CallAt(e[1]).callee)' = Reached(CallAt(e[1]).callee)
    BY SameTyped
  <2> QED
    BY <1>1, <1>2, SameTyped DEF DirectInv, Plain
<1> QED
  BY <1>3, <1>4, <1>5

(* The steps over globals, values, initializers and ends of loops.            *)
LEMMA MovesIInv == IInv /\ Moves => IInv'
<1> SUFFICES ASSUME IInv, Moves PROVE IInv'
  OBVIOUS
<1>1. ControlOK' /\ pc' \notin {"layers", "transits"} /\ UNCHANGED <<prog, funVars, callVars>>
  BY MovesControl DEF IInv
<1>2. Seen' = Seen /\ CallsSeen' = CallsSeen
  BY MovesSeen DEF IInv
<1> QED
  BY <1>1, <1>2, TablesKept, ResolvedKept DEF IInv, LayersInv, funVars

-----------------------------------------------------------------------------
(* A function is filed.                                                        *)
LEMMA AtMember ==
  \A map, key, x : x \in At(map, key) <=> \E e \in map : e[1] = key /\ e[2] = x
  BY DEF At

(* What a table holds when one entry is added.                                *)
LEMMA AtInsert ==
  ASSUME NEW map, NEW key, NEW x
  PROVE  \A l, y : y \in At(map \cup {<<key, x>>}, l) <=> y \in At(map, l) \/ (l = key /\ y = x)
<1> SUFFICES ASSUME NEW l, NEW y
             PROVE  y \in At(map \cup {<<key, x>>}, l) <=> y \in At(map, l) \/ (l = key /\ y = x)
  OBVIOUS
<1> DEFINE more == map \cup {<<key, x>>}
<1>1. \A e : e \in more <=> e \in map \/ e = <<key, x>>
  OBVIOUS
<1>2. <<key, x>>[1] = key /\ <<key, x>>[2] = x
  OBVIOUS
<1> HIDE DEF more
<1>3. y \in At(more, l) <=> \E e \in more : e[1] = l /\ e[2] = y
  BY AtMember
<1>4. y \in At(map, l) <=> \E e \in map : e[1] = l /\ e[2] = y
  BY AtMember
<1>5. y \in At(more, l) <=> y \in At(map, l) \/ (l = key /\ y = x)
  BY <1>1, <1>2, <1>3, <1>4, Zenon
<1> QED
  BY <1>5 DEF more

(* A function definition is visited once, at its turn.                        *)
LEMMA FunctionSeen ==
  ASSUME ControlOK, FunctionDefinition
  PROVE  LET f == prog.mod[i].funs[k] IN
         /\ k \in DOMAIN prog.mod[i].funs /\ f \in Fun /\ prog.fn[f] \in FunRecord
         /\ Seen' = Seen \cup {f}
<1> DEFINE f == prog.mod[i].funs[k]
<1>1. /\ pc = "funs" /\ k <= Len(prog.mod[i].funs) /\ k' = k + 1
      /\ UNCHANGED <<prog, pc, i>>
  BY Zenon DEF FunctionDefinition
<1>3. /\ prog \in Programs
      /\ i \in Module /\ i \in Nat /\ k \in Nat \ {0} /\ prog' = prog /\ Module' = Module
  BY <1>1, ProgFacts DEF ControlOK, Module
<1>4. k \in DOMAIN prog.mod[i].funs /\ f \in Fun /\ prog.fn[f] \in FunRecord
  <2>1. prog.mod[i].funs \in Seq(Fun) /\ Len(prog.mod[i].funs) \in Nat
    BY <1>3, ProgFacts, LenProperties
  <2> QED
    BY <1>1, <1>3, <2>1, ProgFacts, ElementOfSeq, LenProperties
<1>5. Seen' = Seen \cup {f}
  <2>1. ASSUME NEW m \in Module, NEW j \in DOMAIN prog.mod[m].funs
        PROVE  FunSeen(m, j)' <=> FunSeen(m, j) \/ (m = i /\ j = k)
    <3>1. m \in Nat /\ j \in Nat
      BY <1>3, ProgFacts, LenProperties
    <3> QED
      BY <1>1, <1>3, <3>1 DEF FunSeen, Before
  <2> HIDE DEF f
  <2>2. \A m \in Module : \A j \in DOMAIN prog.mod[m].funs : m = i /\ j = k => prog.mod[m].funs[j] = f
    BY DEF f
  <2>3. prog.mod[i].funs[k] = f
    BY DEF f
  <2>4. Seen' = {g \in Fun : \E m \in Module : \E j \in DOMAIN prog.mod[m].funs :
                   FunSeen(m, j)' /\ prog.mod[m].funs[j] = g}
    BY <1>3 DEF Seen
  <2>5. \A g \in Fun : g \in Seen' <=> g \in Seen \/ g = f
    BY <1>3, <1>4, <2>1, <2>2, <2>3, <2>4 DEF Seen
  <2> QED
    BY <1>4, <2>4, <2>5 DEF Seen
<1> QED
  BY <1>4, <1>5

(* A function definition enters the tables of signatures, names and hashes.   *)
LEMMA FunctionIInv == IInv /\ FunctionDefinition => IInv'
<1> SUFFICES ASSUME IInv, FunctionDefinition PROVE IInv'
  BY ZenonT(60)
<1> DEFINE f == prog.mod[i].funs[k]
           taken == IF prog.fn[f].taken THEN {f} ELSE {}
           unified == IF Unifies(f) THEN {f} ELSE {}
<1>1. /\ pc = "funs" /\ k <= Len(prog.mod[i].funs) /\ k' = k + 1
      /\ UNCHANGED <<prog, nameVars, layerVars, callVars, pc, i>>
  BY ZenonT(60) DEF FunctionDefinition
<1>2. /\ sigFuncsMap' = sigFuncsMap \cup {<<prog.fn[g].sig, g>> : g \in taken}
      /\ UnifiedFuncMap' = UnifiedFuncMap \cup {<<FuncHash(g), g>> : g \in unified}
      /\ UnifiedFuncSet' = UnifiedFuncSet \cup unified
      /\ \E name \in KeyNames(prog.fn[f].name) : GlobalFuncs' = Defines(f, name)
  BY Zenon DEF FunctionDefinition
<1>3. /\ ControlOK /\ SigsInv /\ UnifiedInv /\ GlobalsInv /\ CalleesInv /\ prog \in Programs
      /\ i \in Module /\ i \in Nat /\ k \in Nat \ {0} /\ prog' = prog /\ Module' = Module
  BY <1>1, ProgFacts DEF IInv, ControlOK, Module
<1>4. k \in DOMAIN prog.mod[i].funs /\ f \in Fun /\ prog.fn[f] \in FunRecord
  BY <1>3, FunctionSeen
<1>5. Seen' = Seen \cup {f}
  BY <1>3, FunctionSeen
<1>6. CallsSeen = {} /\ CallsSeen' = {}
  BY <1>1 DEF CallsSeen, CallSeen
<1> HIDE DEF f
<1>7. SigsInv'
  <2>1. ASSUME NEW sig \in Sig
        PROVE  At(sigFuncsMap', sig) = {g \in Seen' : prog.fn[g].taken /\ prog.fn[g].sig = sig}
    <3>1. \A g : g \in At(sigFuncsMap, sig) <=> g \in Seen /\ prog.fn[g].taken /\ prog.fn[g].sig = sig
      BY <1>3 DEF SigsInv
    <3>2. \A g : g \in At(sigFuncsMap', sig) <=>
                   g \in At(sigFuncsMap, sig) \/ (g = f /\ prog.fn[f].taken /\ prog.fn[f].sig = sig)
      <4>1. CASE prog.fn[f].taken
        <5>1. sigFuncsMap' = sigFuncsMap \cup {<<prog.fn[f].sig, f>>}
          BY <1>2, <4>1
        <5> DEFINE key == prog.fn[f].sig
        <5>2. \A g : g \in At(sigFuncsMap \cup {<<key, f>>}, sig) <=>
                       g \in At(sigFuncsMap, sig) \/ (sig = key /\ g = f)
          BY AtInsert, ZenonT(60)
        <5> QED
          BY <4>1, <5>1, <5>2
      <4>2. CASE ~prog.fn[f].taken
        BY <1>2, <4>2
      <4> QED
        BY <4>1, <4>2
    <3> QED
      BY <1>5, <3>1, <3>2
  <2> QED
    BY <1>3, <2>1 DEF SigsInv, At
<1>8. UnifiedInv'
  <2>1. ASSUME NEW h
        PROVE  \A g : g \in At(UnifiedFuncMap', h) <=> g \in UnifiedFuncSet' /\ FuncHash(g) = h
    <3>1. \A g : g \in At(UnifiedFuncMap, h) <=> g \in UnifiedFuncSet /\ FuncHash(g) = h
      BY <1>3 DEF UnifiedInv
    <3>2. \A g : g \in At(UnifiedFuncMap', h) <=>
                   g \in At(UnifiedFuncMap, h) \/ (g \in unified /\ FuncHash(g) = h)
      <4>1. CASE Unifies(f)
        <5>1. UnifiedFuncMap' = UnifiedFuncMap \cup {<<FuncHash(f), f>>} /\ unified = {f}
          BY <1>2, <4>1
        <5> DEFINE key == FuncHash(f)
        <5> HIDE DEF key
        <5>2. \A g : g \in At(UnifiedFuncMap \cup {<<key, f>>}, h) <=>
                       g \in At(UnifiedFuncMap, h) \/ (h = key /\ g = f)
          BY AtInsert
        <5> QED
          BY <5>1, <5>2 DEF key
      <4>2. CASE ~Unifies(f)
        BY <1>2, <4>2
      <4> QED
        BY <4>1, <4>2
    <3> QED
      BY <1>2, <3>1, <3>2
  <2>2. \A g : FuncHash(g)' = FuncHash(g)
    BY <1>3 DEF FuncHash
  <2>3. Unifies(f) <=> \A g \in UnifiedFuncSet : FuncHash(g) # FuncHash(f)
    BY <1>3 DEF Unifies, UnifiedInv
  <2>4. UnifiedFuncSet' \subseteq Seen'
    BY <1>2, <1>3, <1>5 DEF UnifiedInv
  <2>5. \A g \in Seen' : \E u \in UnifiedFuncSet' : FuncHash(u) = FuncHash(g)
    BY <1>2, <1>3, <1>5, <2>3 DEF UnifiedInv
  <2>6. \A u, v \in UnifiedFuncSet' : FuncHash(u) = FuncHash(v) => u = v
    BY <1>2, <1>3, <2>3 DEF UnifiedInv
  <2>7. \A h : At(UnifiedFuncMap', h) = {g \in UnifiedFuncSet' : FuncHash(g) = h}
    BY <2>1
  <2>8. \A h : At(UnifiedFuncMap, h)' = At(UnifiedFuncMap', h)
    BY DEF At
  <2> QED
    BY <2>2, <2>4, <2>5, <2>6, <2>7, <2>8 DEF UnifiedInv
<1>9. GlobalsInv'
  <2> PICK nm \in KeyNames(prog.fn[f].name) : GlobalFuncs' = Defines(f, nm)
    BY <1>2
  <2>1. ASSUME NEW name
        PROVE  \A g : g \in At(GlobalFuncs', name) <=>
                        \/ g \in At(GlobalFuncs, name) /\ (prog.fn[f].external => name # nm)
                        \/ g = f /\ prog.fn[f].external /\ name = nm
    <3>1. CASE prog.fn[f].external
      <4> DEFINE others == {e \in GlobalFuncs : e[1] # nm}
      <4>1. GlobalFuncs' = others \cup {<<nm, f>>}
        BY <3>1 DEF Defines
      <4>2. \A g : g \in At(others, name) <=> g \in At(GlobalFuncs, name) /\ name # nm
        BY AtMember
      <4> HIDE DEF others
      <4>3. \A g : g \in At(others \cup {<<nm, f>>}, name) <=>
                     g \in At(others, name) \/ (name = nm /\ g = f)
        BY AtInsert
      <4> QED
        BY <3>1, <4>1, <4>2, <4>3
    <3>2. CASE ~prog.fn[f].external
      BY <3>2 DEF Defines
    <3> QED
      BY <3>1, <3>2
  <2>2. \A name : KeyNames(name)' = KeyNames(name)
    BY DEF KeyNames
  <2>3. \A name : \A g \in At(GlobalFuncs', name) :
          g \in Seen' /\ prog.fn[g].external /\ name \in KeyNames(prog.fn[g].name)
    BY <1>3, <1>5, <2>1 DEF GlobalsInv
  <2>4. ASSUME NEW g \in Seen', prog.fn[g].external
        PROVE  \E name \in KeyNames(prog.fn[g].name) : At(GlobalFuncs', name) # {}
    <3>1. CASE g = f
      BY <2>1, <2>4, <3>1
    <3>2. CASE g \in Seen
      <4> PICK name \in KeyNames(prog.fn[g].name) : At(GlobalFuncs, name) # {}
        BY <1>3, <2>4, <3>2 DEF GlobalsInv
      <4>1. At(GlobalFuncs', name) # {}
        BY <2>1
      <4> QED
        BY <4>1
    <3> QED
      BY <1>5, <3>1, <3>2
  <2>5. \A name : At(GlobalFuncs, name)' = At(GlobalFuncs', name)
    BY DEF At
  <2> QED
    BY <1>3, <2>2, <2>3, <2>4, <2>5 DEF GlobalsInv
<1>10. Callees = {} /\ Callees' = {} /\ Callers' = {}
  <2>1. {e[1] : e \in Callees} = {}
    BY <1>3, <1>6 DEF CalleesInv
  <2>2. Callees = {}
    BY <2>1
  <2> QED
    BY <1>1, <1>3, <2>2 DEF CalleesInv, callVars
<1>11. CalleesInv' /\ KeepsInv' /\ DirectInv'
  BY <1>6, <1>10 DEF CalleesInv, KeepsInv, DirectInv
<1>12. ControlOK'
  BY <1>1, <1>3 DEF ControlOK, LastModule
<1> QED
  BY <1>1, <1>7, <1>8, <1>9, <1>11, <1>12 DEF IInv, LayersInv
-----------------------------------------------------------------------------
(* A call is passed over or resolved.                                            *)
LEMMA CallUnderWay ==
  ASSUME IInv, pc \in {"calls", "layers"}, k <= Len(prog.mod[i].calls), k' = k + 1,
         UNCHANGED <<prog, i>>, pc' = "calls"
  PROVE  /\ k \in DOMAIN prog.mod[i].calls /\ i \in Module /\ prog \in Programs
         /\ CallsSeen' = CallsSeen \cup {<<i, k>>} /\ <<i, k>> \notin CallsSeen
         /\ CallAt(<<i, k>>) = prog.mod[i].calls[k]
         /\ Seen = Definitions /\ Seen' = Seen
         /\ ControlOK'
<1>1. /\ ControlOK /\ i \in Module /\ i \in Nat \ {0} /\ k \in Nat \ {0} /\ prog \in Programs
      /\ Module' = Module /\ Calls' = Calls /\ LastModule' = LastModule
  BY DEF IInv, ControlOK, Module, Calls, LastModule
<1>2. k \in DOMAIN prog.mod[i].calls
  BY <1>1, ProgFacts, LenProperties
<1>3. ASSUME NEW c \in Calls
      PROVE  CallSeen(c[1], c[2])' <=> CallSeen(c[1], c[2]) \/ c = <<i, k>>
  <2> PICK m \in Module : c \in {m} \X DOMAIN prog.mod[m].calls
    BY DEF Calls
  <2> DEFINE j == c[2]
  <2>1. c[1] = m /\ c[2] = j /\ j \in DOMAIN prog.mod[m].calls /\ c = <<m, j>>
    OBVIOUS
  <2> HIDE DEF j
  <2>2. m \in Nat /\ j \in Nat
    BY <1>1, <2>1, ProgFacts, LenProperties
  <2>3. CallSeen(m, j)' <=> Before(m, j)'
    BY DEF CallSeen
  <2>4. CallSeen(m, j) <=> Before(m, j)
    BY DEF CallSeen
  <2>5. Before(m, j)' <=> Before(m, j) \/ (m = i /\ j = k)
    BY <1>1, <2>2 DEF Before
  <2> QED
    BY <2>1, <2>3, <2>4, <2>5
<1>4. <<i, k>> \in Calls
  BY <1>1, <1>2 DEF Calls
<1>5. CallsSeen' = {c \in Calls : CallSeen(c[1], c[2])'}
  BY <1>1 DEF CallsSeen
<1>6. CallsSeen' = CallsSeen \cup {<<i, k>>}
  BY <1>3, <1>4, <1>5 DEF CallsSeen
<1>7. <<i, k>> \notin CallsSeen
  BY <1>1 DEF CallsSeen, CallSeen, Before
<1>8. Seen = Definitions
  BY <1>1, DefinitionFacts
<1>9. Seen' = Seen
  <2>1. \A m, j : FunSeen(m, j) /\ FunSeen(m, j)'
    BY DEF FunSeen
  <2> QED
    BY <1>1, <2>1 DEF Seen
<1>10. ControlOK'
  BY <1>1 DEF ControlOK
<1> QED
  BY <1>1, <1>2, <1>6, <1>7, <1>8, <1>9, <1>10 DEF CallAt

(* A call in a function that another one stands for.                          *)
LEMMA SkipIInv == IInv /\ SkipCall => IInv'
<1> SUFFICES ASSUME IInv, SkipCall PROVE IInv'
  OBVIOUS
<1> DEFINE c == <<i, k>>
<1>1. /\ pc = "calls" /\ k <= Len(prog.mod[i].calls) /\ k' = k + 1 /\ pc' = "calls"
      /\ prog.mod[i].calls[k].caller \notin UnifiedFuncSet
      /\ UNCHANGED <<prog, funVars, callVars, i>>
  BY DEF SkipCall, Skipped
<1>2. /\ CallsSeen' = CallsSeen \cup {c} /\ CallAt(c) = prog.mod[i].calls[k] /\ Seen' = Seen /\ ControlOK'
  BY <1>1, CallUnderWay
<1>3. SigsInv' /\ UnifiedInv' /\ GlobalsInv'
  BY <1>1, <1>2, TablesKept
<1>4. CalleesInv /\ KeepsInv /\ DirectInv
  BY DEF IInv
<1>5. UnifiedFuncSet' = UnifiedFuncSet /\ Callees' = Callees /\ Callers' = Callers
  BY <1>1 DEF funVars, callVars
<1>6. CalleesInv'
  <2> HIDE DEF c
  <2>1. {d \in CallsSeen' : CallAt(d)'.caller \in UnifiedFuncSet'} =
        {d \in CallsSeen : CallAt(d).caller \in UnifiedFuncSet}
    BY <1>1, <1>2, <1>5, SameTyped
  <2>2. {e[1] : e \in Callees'} = {e[1] : e \in Callees}
    BY <1>5
  <2> QED
    BY <1>4, <1>5, <2>1, <2>2 DEF CalleesInv
<1>7. KeepsInv'
  BY <1>1, <1>4, <1>5, SameTyped DEF KeepsInv
<1>8. DirectInv'
  <2>1. \A e \in Callees : Reached(CallAt(e[1]).callee)' = Reached(CallAt(e[1]).callee)
    BY <1>1, SameTyped
  <2> QED
    BY <1>1, <1>4, <1>5, <2>1, SameTyped DEF DirectInv, Plain
<1> QED
  BY <1>1, <1>2, <1>3, <1>6, <1>7, <1>8 DEF IInv, LayersInv

(* A call gets its callees, and they get a caller.                            *)
LEMMA ResolveIInv ==
  ASSUME IInv, pc \in {"calls", "layers"}, k <= Len(prog.mod[i].calls), pc' = "calls",
         prog.mod[i].calls[k].caller \in UnifiedFuncSet,
         UNCHANGED <<prog, funVars, i>>, NEW fs, Resolve(<<i, k>>, fs),
         prog.mod[i].calls[k].kind = "indirect" =>
           LET sig == prog.mod[i].calls[k].sig IN fs \subseteq Typed(sig) /\ (fs = {} => Typed(sig) = {}),
         LET cf == prog.mod[i].calls[k].callee IN
         prog.mod[i].calls[k].kind = "direct" /\ Plain(cf) => \E f \in Reached(cf) : StandsFor(fs, f)
  PROVE  IInv'
<1> DEFINE c == <<i, k>>
           ci == prog.mod[i].calls[k]
<1>1. /\ Callees' = Callees \cup {<<c, fs>>} /\ Callers' = Callers \cup (fs \X {c}) /\ k' = k + 1
  BY DEF Resolve
<1>2. /\ CallsSeen' = CallsSeen \cup {c} /\ c \notin CallsSeen /\ CallAt(c) = ci /\ Seen' = Seen /\ ControlOK'
  BY <1>1, CallUnderWay
<1>3. SigsInv' /\ UnifiedInv' /\ GlobalsInv'
  BY <1>2, TablesKept
<1>4. CalleesInv /\ KeepsInv /\ DirectInv
  BY DEF IInv
<1>5. UnifiedFuncSet' = UnifiedFuncSet
  BY DEF funVars
<1>6. \A d : CallAt(d)' = CallAt(d)
  BY SameTyped
<1> HIDE DEF c, ci
<1>7. <<c, fs>>[1] = c /\ <<c, fs>>[2] = fs
  OBVIOUS
<1>8. \A e : e \in Callees' <=> e \in Callees \/ e = <<c, fs>>
  BY <1>1
<1>9. \A e \in Callees : e[1] # c
  BY <1>2, <1>4 DEF CalleesInv
<1>10. CalleesInv'
  <2>1. {e[1] : e \in Callees'} = {e[1] : e \in Callees} \cup {c}
    BY <1>7, <1>8
  <2>2. {d \in CallsSeen' : CallAt(d)'.caller \in UnifiedFuncSet'} =
        {d \in CallsSeen : CallAt(d).caller \in UnifiedFuncSet} \cup {c}
    BY <1>2, <1>5, <1>6 DEF ci
  <2>3. \A d, e \in Callees' : d[1] = e[1] => d = e
    BY <1>4, <1>7, <1>8, <1>9 DEF CalleesInv
  <2>4. Callers' = UNION {e[2] \X {e[1]} : e \in Callees'}
    <3>1. \A x : x \in Callers' <=> x \in Callers \/ x \in fs \X {c}
      BY <1>1
    <3>2. \A x : x \in Callers <=> \E e \in Callees : x \in e[2] \X {e[1]}
      BY <1>4 DEF CalleesInv
    <3>3. \A x : x \in UNION {e[2] \X {e[1]} : e \in Callees'} <=> \E e \in Callees' : x \in e[2] \X {e[1]}
      OBVIOUS
    <3>4. \A x : x \in Callers' <=> \E e \in Callees' : x \in e[2] \X {e[1]}
      BY <1>7, <1>8, <3>1, <3>2
    <3> QED
      BY <3>3, <3>4
  <2> QED
    BY <1>4, <2>1, <2>2, <2>3, <2>4 DEF CalleesInv
<1>11. KeepsInv'
  <2>1. ASSUME NEW e \in Callees', CallAt(e[1]).kind = "indirect"
        PROVE  e[2] \subseteq Typed(CallAt(e[1]).sig) /\ (e[2] = {} => Typed(CallAt(e[1]).sig) = {})
    <3>1. CASE e \in Callees
      BY <1>4, <2>1, <3>1, SMTT(30) DEF KeepsInv
    <3>2. CASE e = <<c, fs>>
      BY <1>2, <1>7, <2>1, <3>2, Zenon DEF ci
    <3> QED
      BY <1>8, <3>1, <3>2
  <2> QED
    BY <1>6, <2>1, SameTyped DEF KeepsInv
<1>12. DirectInv'
  <2>1. ASSUME NEW e \in Callees', CallAt(e[1]).kind = "direct", Plain(CallAt(e[1]).callee)
        PROVE  \E f \in Reached(CallAt(e[1]).callee) : StandsFor(e[2], f)
    <3>1. CASE e \in Callees
      BY <1>4, <2>1, <3>1 DEF DirectInv
    <3>2. CASE e = <<c, fs>>
      BY <1>2, <1>7, <2>1, <3>2 DEF ci
    <3> QED
      BY <1>8, <3>1, <3>2, ZenonT(60)
  <2>2. \A e \in Callees' : Reached(CallAt(e[1]).callee)' = Reached(CallAt(e[1]).callee)
    BY <1>6, SameTyped
  <2> QED
    BY <1>5, <1>6, <2>1, <2>2, SameTyped DEF DirectInv, Plain
<1> QED
  BY <1>2, <1>3, <1>10, <1>11, <1>12 DEF IInv, LayersInv
(* What the table of unified functions answers for a function.                    *)
LEMMA UnifiedAnswer ==
  ASSUME UnifiedInv, Seen = Definitions, NEW f
  PROVE  StandsFor(At(UnifiedFuncMap, FuncHash(f)), f)
<1> DEFINE h == FuncHash(f)
<1>1. At(UnifiedFuncMap, h) = {g \in UnifiedFuncSet : FuncHash(g) = h}
  BY DEF UnifiedInv
<1>2. CASE \A g \in Definitions : FuncHash(g) # h
  <2>1. At(UnifiedFuncMap, h) = {}
    BY <1>1, <1>2 DEF UnifiedInv
  <2> QED
    BY <1>2, <2>1 DEF StandsFor
<1>3. CASE \E g \in Definitions : FuncHash(g) = h
  <2> PICK g \in UnifiedFuncSet : FuncHash(g) = h
    BY <1>3 DEF UnifiedInv
  <2>1. At(UnifiedFuncMap, h) = {g}
    BY <1>1 DEF UnifiedInv
  <2> QED
    BY <1>3, <2>1 DEF StandsFor
<1> QED
  BY <1>2, <1>3

(* The keys under which a function may be filed: its name, or any for a system call.  *)
LEMMA PlainKeys ==
  ASSUME NEW name, name \notin DOMAIN Renamed
  PROVE  /\ KeyNames(name) = {name}
         /\ \A other : name \in KeyNames(other) => other = name \/ other \in DOMAIN Renamed
  BY DEF KeyNames

(* The function a name is linked to is one that defines it, or one whose own name     *)
(* is freed before it is filed.                                                *)
LEMMA LinkedReached ==
  ASSUME ControlOK, GlobalsInv, Seen = Definitions,
         NEW cf \in Fun, Plain(cf), NEW name \in KeyNames(prog.fn[cf].name)
  PROVE  Linked(cf, name) \in Reached(cf)
<1> DEFINE own == prog.fn[cf].name
           external == {g \in Definitions : prog.fn[g].external /\ prog.fn[g].name = own}
<1>1. CASE prog.fn[cf].body
  BY <1>1 DEF Linked, Linkable, Reached
<1>2. CASE ~prog.fn[cf].body
  <2>1. own \notin DOMAIN Renamed
    BY <1>2 DEF Plain
  <2>2. name = own
    BY <2>1, PlainKeys
  <2>3. At(GlobalFuncs, own) \subseteq external \cup Misfiled(cf)
    <3> SUFFICES ASSUME NEW g \in At(GlobalFuncs, own) PROVE g \in external \cup Misfiled(cf)
      OBVIOUS
    <3>1. g \in Definitions /\ prog.fn[g].external /\ own \in KeyNames(prog.fn[g].name)
      BY DEF GlobalsInv
    <3>2. prog.fn[g].name = own \/ prog.fn[g].name \in DOMAIN Renamed
      BY <2>1, <3>1, PlainKeys
    <3> QED
      BY <1>2, <3>1, <3>2 DEF Misfiled
  <2>4. external # {} => At(GlobalFuncs, own) # {}
    <3> SUFFICES ASSUME NEW g \in external PROVE At(GlobalFuncs, own) # {}
      OBVIOUS
    <3>1. KeyNames(prog.fn[g].name) = {own}
      BY <2>1, PlainKeys
    <3> QED
      BY <3>1 DEF GlobalsInv
  <2>5. external \subseteq Linkable(cf) /\ (external = {} => cf \in Linkable(cf))
    BY <1>2 DEF Linkable
  <2> HIDE DEF external
  <2>6. CASE At(GlobalFuncs, own) = {}
    BY <2>2, <2>4, <2>5, <2>6 DEF Linked, Reached
  <2>7. CASE At(GlobalFuncs, own) # {}
    <3>1. Linked(cf, name) \in At(GlobalFuncs, own)
      BY <1>2, <2>2, <2>7 DEF Linked
    <3> QED
      BY <2>3, <2>5, <3>1 DEF Reached
  <2> QED
    BY <2>6, <2>7
<1> QED
  BY <1>1, <1>2

(* A direct call gets the one function it is linked to.                       *)
LEMMA DirectIInv == IInv /\ DirectCall => IInv'
<1> SUFFICES ASSUME IInv, DirectCall PROVE IInv'
  OBVIOUS
<1> DEFINE cf == prog.mod[i].calls[k].callee
<1>1. /\ pc = "calls" /\ k <= Len(prog.mod[i].calls) /\ prog.mod[i].calls[k].kind = "direct"
      /\ prog.mod[i].calls[k].caller \in UnifiedFuncSet
      /\ UNCHANGED <<prog, funVars, i, pc>>
  BY Zenon DEF DirectCall, Visited, Skipped
<1>2. PICK name \in KeyNames(prog.fn[cf].name) :
        Resolve(<<i, k>>, At(UnifiedFuncMap, FuncHash(Linked(cf, name))))
  BY ZenonT(60) DEF DirectCall
<1>3. k' = k + 1
  BY <1>2 DEF Resolve
<1>4. i \in Module /\ k \in DOMAIN prog.mod[i].calls /\ prog \in Programs /\ Seen = Definitions
  BY <1>1, <1>3, CallUnderWay, ZenonT(60)
<1>5. cf \in Fun
  BY <1>1, <1>4, CallFacts
<1> HIDE DEF cf
<1>6. Plain(cf) => Linked(cf, name) \in Reached(cf)
  BY <1>4, <1>5, LinkedReached DEF IInv
<1>7. StandsFor(At(UnifiedFuncMap, FuncHash(Linked(cf, name))), Linked(cf, name))
  BY <1>4, UnifiedAnswer DEF IInv
<1> QED
  BY <1>1, <1>2, <1>6, <1>7, ResolveIInv, Zenon DEF cf

(* Inline assembly has no callees.                                            *)
LEMMA AsmIInv == IInv /\ InlineAsm => IInv'
<1> SUFFICES ASSUME IInv, InlineAsm PROVE IInv'
  OBVIOUS
<1>1. /\ pc = "calls" /\ k <= Len(prog.mod[i].calls) /\ prog.mod[i].calls[k].kind = "asm"
      /\ prog.mod[i].calls[k].caller \in UnifiedFuncSet
      /\ UNCHANGED <<prog, funVars, i, pc>> /\ Resolve(<<i, k>>, {})
  BY DEF InlineAsm, Visited, Skipped
<1> QED
  BY <1>1, ResolveIInv

-----------------------------------------------------------------------------
(* The layers of a call: the first is all functions of the signature.              *)
LEMMA FirstLayer ==
  ASSUME IInv, Seen = Definitions, NEW sig \in Sig
  PROVE  At(sigFuncsMap, sig) = Typed(sig)
  BY DEF IInv, SigsInv, Typed

(* A step that leaves the tables and what is resolved alone.                      *)
LEMMA InLayers ==
  ASSUME IInv, pc \in {"calls", "layers", "transits"}, pc' \in {"layers", "transits"},
         k <= Len(prog.mod[i].calls), UNCHANGED <<prog, funVars, callVars, i, k>>, LayersInv'
  PROVE  IInv'
<1>1. ControlOK /\ prog' = prog /\ Module' = Module /\ Calls' = Calls
  BY DEF IInv, Module, Calls
<1>2. Seen' = Seen
  <2>1. \A m, j : FunSeen(m, j) /\ FunSeen(m, j)'
    BY DEF FunSeen
  <2> QED
    BY <1>1, <2>1 DEF Seen
<1>3. CallsSeen' = CallsSeen
  <2>1. \A m, j : CallSeen(m, j)' <=> CallSeen(m, j)
    BY DEF CallSeen, Before
  <2> QED
    BY <1>1, <2>1 DEF CallsSeen
<1>4. ControlOK'
  BY <1>1 DEF ControlOK, LastModule
<1> QED
  BY <1>2, <1>3, <1>4, TablesKept, ResolvedKept DEF IInv, funVars

(* An indirect call starts with the functions of its signature.               *)
LEMMA IndirectIInv == IInv /\ IndirectCall => IInv'
<1> SUFFICES ASSUME IInv, IndirectCall PROVE IInv'
  OBVIOUS
<1> DEFINE ci == prog.mod[i].calls[k]
<1>1. /\ pc = "calls" /\ pc' = "layers" /\ k <= Len(prog.mod[i].calls) /\ ci.kind = "indirect"
      /\ ci.caller \in UnifiedFuncSet /\ FS1' = At(sigFuncsMap, ci.sig)
      /\ UNCHANGED <<prog, funVars, callVars, i, k>>
  BY DEF IndirectCall, Visited, Skipped, StartLayers
<1>2. i \in Module /\ k \in DOMAIN prog.mod[i].calls /\ prog \in Programs
  BY <1>1, ProgFacts, LenProperties DEF IInv, ControlOK
<1>3. ci.sig \in Sig
  BY <1>1, <1>2, CallFacts
<1>4. Seen = Definitions
  BY <1>1, <1>2, DefinitionFacts
<1> HIDE DEF ci
<1>5. FS1' = Typed(ci.sig)
  BY <1>1, <1>3, <1>4, FirstLayer
<1>6. ci' = ci /\ Typed(ci.sig)' = Typed(ci.sig) /\ UnifiedFuncSet' = UnifiedFuncSet
  BY <1>1, SameTyped, Zenon DEF ci, funVars
<1>7. LayersInv'
  BY <1>1, <1>5, <1>6 DEF LayersInv, ci
<1> QED
  BY <1>1, <1>7, InLayers

(* A layer narrows the set, and never to nothing.                             *)
LEMMA LayerIInv == IInv /\ (Layer \/ Transit \/ EndLayer) => IInv'
<1> SUFFICES ASSUME IInv, Layer \/ Transit \/ EndLayer PROVE IInv'
  OBVIOUS
<1> DEFINE ci == prog.mod[i].calls[k]
<1>1. /\ pc \in {"layers", "transits"} /\ pc' \in {"layers", "transits"}
      /\ UNCHANGED <<prog, funVars, callVars, i, k>>
  BY DEF Layer, Transit, EndLayer, control
<1>2. /\ k <= Len(prog.mod[i].calls)
      /\ ci.kind = "indirect" /\ ci.caller \in UnifiedFuncSet
      /\ FS1 \subseteq Typed(ci.sig) /\ (FS1 = {} => Typed(ci.sig) = {})
      /\ pc = "transits" => FST \subseteq FS1
  BY <1>1 DEF IInv, ControlOK, LayersInv
<1> HIDE DEF ci
<1>3. ci' = ci /\ Typed(ci.sig)' = Typed(ci.sig) /\ UnifiedFuncSet' = UnifiedFuncSet
  BY <1>1, SameTyped DEF ci, funVars
<1>4. /\ FS1' \subseteq FS1 /\ (FS1' = {} => FS1 = {})
      /\ pc' = "transits" => FST' \subseteq FS1'
  <2>1. CASE Layer
    BY <2>1 DEF Layer, EnterLayer
  <2>2. CASE Transit
    <3> PICK h \in transits : MergeTransit(h)
      BY <2>2 DEF Transit
    <3> QED
      BY DEF MergeTransit, Narrowed
  <2>3. CASE EndLayer
    BY <1>2, <2>3 DEF EndLayer, LeaveLayer, Narrowed
  <2> QED
    BY <2>1, <2>2, <2>3
<1>5. LayersInv'
  BY <1>1, <1>2, <1>3, <1>4 DEF LayersInv, ci
<1> QED
  BY <1>1, <1>2, <1>5, InLayers

(* An indirect call gets what its last layer left.                            *)
LEMMA EndLayersIInv == IInv /\ EndLayers => IInv'
<1> SUFFICES ASSUME IInv, EndLayers PROVE IInv'
  OBVIOUS
<1>1. /\ pc = "layers" /\ pc' = "calls" /\ Resolve(<<i, k>>, FS1) /\ UNCHANGED <<prog, funVars, i>>
  BY DEF EndLayers
<1>2. /\ k <= Len(prog.mod[i].calls) /\ prog.mod[i].calls[k].kind = "indirect"
      /\ prog.mod[i].calls[k].caller \in UnifiedFuncSet
      /\ FS1 \subseteq Typed(prog.mod[i].calls[k].sig)
      /\ FS1 = {} => Typed(prog.mod[i].calls[k].sig) = {}
  BY <1>1 DEF IInv, ControlOK, LayersInv
<1> QED
  BY <1>1, <1>2, ResolveIInv

(* A step that changes nothing.                                               *)
LEMMA StutterIInv == IInv /\ UNCHANGED vars => IInv'
<1> SUFFICES ASSUME IInv, UNCHANGED vars PROVE IInv'
  OBVIOUS
<1>1. /\ UNCHANGED <<prog, funVars, callVars, pc, i, k, FS1, FST>>
      /\ Module' = Module /\ Calls' = Calls /\ LastModule' = LastModule
  BY DEF vars, control, layerVars, Module, Calls, LastModule
<1>2. Seen' = Seen /\ CallsSeen' = CallsSeen
  BY <1>1 DEF Seen, CallsSeen, FunSeen, CallSeen, Before
<1>3. ControlOK'
  BY <1>1 DEF IInv, ControlOK
<1>4. LayersInv'
  BY <1>1, SameTyped DEF IInv, LayersInv, funVars
<1> QED
  BY <1>1, <1>2, <1>3, <1>4, TablesKept, ResolvedKept DEF IInv, funVars

(* The invariant is one of the specification.                                 *)
LEMMA Inductive == Spec => []IInv
<1>1. IInv /\ [Next]_vars => IInv'
  BY MovesIInv, FunctionIInv, SkipIInv, DirectIInv, AsmIInv, IndirectIInv, LayerIInv, EndLayersIInv, StutterIInv
  DEF Next, Moves, Done
<1> QED
  BY <1>1, InitIInv, PTL DEF Spec

-----------------------------------------------------------------------------
(* For every program, whatever copy of a function came first: each call outside the  *)
(* duplicates has its callees, once, and Callers is the inverse of Callees.          *)
THEOREM CallersInverseHolds == Spec => []CallersInverse
<1>1. IInv => CallersInverse
  <2> SUFFICES ASSUME IInv, pc = "done"
               PROVE  /\ {e[1] : e \in Callees} = {c \in Calls : ~Duplicate(CallAt(c).caller)}
                      /\ \A d, e \in Callees : d[1] = e[1] => d = e
                      /\ Callers = UNION {e[2] \X {e[1]} : e \in Callees}
    BY DEF CallersInverse
  <2>1. CallsSeen = Calls
    BY DEF CallsSeen, CallSeen
  <2>2. ASSUME NEW c \in Calls
        PROVE  CallAt(c).caller \in UnifiedFuncSet <=> ~Duplicate(CallAt(c).caller)
    <3> PICK m \in Module : c \in {m} \X DOMAIN prog.mod[m].calls
      BY DEF Calls
    <3>1. CallAt(c).caller \in Definitions
      BY CallFacts DEF IInv, ControlOK, CallAt
    <3> QED
      BY <3>1 DEF Duplicate
  <2> QED
    BY <2>1, <2>2 DEF IInv, CalleesInv
<1> QED
  BY <1>1, Inductive, PTL

(* A direct call of a function whose own name is not freed has for callees what the    *)
(* linker would take, or its stand-in; or those of an external definition that is       *)
(* named SyS_ and was filed under another name, in place of what belongs there or        *)
(* beside it.  Without such definitions it is exactly what the linker takes, for every  *)
(* set of modules.                                                              *)
THEOREM DirectExactHolds == Spec => []DirectExact
<1>1. IInv => DirectExact
  BY DEF IInv, DirectInv, DirectExact, Reached
<1> QED
  BY <1>1, Inductive, PTL

(* An indirect call has callees of its signature only, and never none where there     *)
(* is one, whatever the tables of the layers hold.                                *)
THEOREM KeepsCalleeHolds == Spec => []KeepsCallee
<1>1. IInv => KeepsCallee
  BY DEF IInv, KeepsInv, KeepsCallee
<1> QED
  BY <1>1, Inductive, PTL

(* No step over the layers of a call adds a function or takes the last away.         *)
THEOREM OnlyNarrowsHolds == Spec => OnlyNarrows
<1>1. ASSUME IInv, Next, pc \in {"layers", "transits"}
      PROVE  FS1' \subseteq FS1 /\ (FS1' = {} => FS1 = {})
  <2>1. CASE Layer
    BY <2>1 DEF Layer, EnterLayer
  <2>2. CASE Transit
    <3> PICK h \in transits : MergeTransit(h)
      BY <2>2 DEF Transit
    <3> QED
      BY DEF MergeTransit, Narrowed
  <2>3. CASE EndLayer
    <3>1. FST \subseteq FS1
      BY <1>1, <2>3 DEF EndLayer, IInv, LayersInv
    <3> QED
      BY <2>3, <3>1 DEF EndLayer, LeaveLayer, Narrowed
  <2>4. CASE EndLayers
    BY <2>4 DEF EndLayers, layerVars
  <2>5. CASE Done
    BY <1>1, <2>5, Zenon DEF Done
  <2>6. Layer \/ Transit \/ EndLayer \/ EndLayers \/ Done
    BY <1>1, Zenon DEF Next, TypesOfModule, BuildStructs, GlobalVariable, InitializerNode, EndInitializer,
       EndGlobals, FunctionDefinition, EndFunctions, SkipCall, DirectCall, InlineAsm, IndirectCall,
       Visited, EndCalls
  <2> QED
    BY <2>1, <2>2, <2>3, <2>4, <2>5, <2>6
<1>2. IInv /\ [Next]_vars => [\/ pc \notin {"layers", "transits"}
                              \/ FS1' \subseteq FS1 /\ (FS1' = {} => FS1 = {})]_vars
  BY <1>1
<1> QED
  BY <1>2, Inductive, PTL DEF Spec, OnlyNarrows

-----------------------------------------------------------------------------
(* First occurrences.                                                          *)
LEMMA NatMin ==
  ASSUME NEW T \in SUBSET Nat, T # {}
  PROVE  \E n \in T : \A m \in T : n <= m
<1> DEFINE R == {ss \in Nat \X Nat : ss[1] < ss[2]}
<1>1. IsWellFoundedOn(R, Nat)
  BY NatLessThanWellFounded DEF OpToRel
<1> HIDE DEF R
<1> PICK n \in T : \A m \in T : <<m, n>> \notin R
  BY <1>1, WFMin
<1>2. ASSUME NEW m \in T PROVE n <= m
  <2>1. ~(m < n)
    <3>1. <<m, n>> \in Nat \X Nat /\ <<m, n>>[1] = m /\ <<m, n>>[2] = n
      OBVIOUS
    <3> QED
      BY <3>1 DEF R
  <2> QED
    BY <2>1
<1> QED
  BY <1>2

(* A set of positions that is not empty has a first one.                      *)
LEMMA FirstOf ==
  ASSUME NEW S \in SUBSET (Nat \X Nat), S # {}
  PROVE  \E p \in S : First(S) = {p}
<1> DEFINE rows == {p[1] : p \in S}
<1>1. rows \in SUBSET Nat /\ rows # {}
  OBVIOUS
<1> HIDE DEF rows
<1> PICK r \in rows : \A m \in rows : r <= m
  BY <1>1, NatMin
<1> DEFINE columns == {p[2] : p \in {q \in S : q[1] = r}}
<1>2. columns \in SUBSET Nat /\ columns # {}
  BY DEF rows
<1> HIDE DEF columns
<1> PICK c \in columns : \A m \in columns : c <= m
  BY <1>2, NatMin
<1>3. PICK p \in S : p[1] = r /\ p[2] = c
  BY DEF columns
<1>4. ASSUME NEW q \in S PROVE r < q[1] \/ (r = q[1] /\ c <= q[2])
  <2>1. r <= q[1] /\ r \in Nat /\ q[1] \in Nat
    BY <1>1 DEF rows
  <2>2. r = q[1] => c <= q[2]
    BY DEF columns
  <2> QED
    BY <2>1, <2>2
<1>5. p \in First(S)
  BY <1>3, <1>4 DEF First
<1>6. ASSUME NEW q \in First(S) PROVE q = p
  <2>1. q \in S /\ \A x \in S : q[1] < x[1] \/ (q[1] = x[1] /\ q[2] <= x[2])
    BY DEF First
  <2>2. (q[1] < r \/ (q[1] = r /\ q[2] <= c)) /\ (r < q[1] \/ (r = q[1] /\ c <= q[2]))
    BY <1>3, <1>4, <2>1
  <2>3. q[1] \in Nat /\ q[2] \in Nat /\ r \in Nat /\ c \in Nat /\ q = <<q[1], q[2]>> /\ p = <<r, c>>
    BY <1>1, <1>2, <1>3, <2>1
  <2> QED
    BY <2>2, <2>3
<1> QED
  BY <1>5, <1>6

(* The positions of the modules before d.                                       *)
Upto(S, d) == {p \in S : p[1] < d}

(* One more module does not move the first position, unless there was none.   *)
LEMMA FirstUpto ==
  ASSUME NEW S \in SUBSET (Nat \X Nat), NEW d \in Nat
  PROVE  First(Upto(S, d + 1)) =
           IF Upto(S, d) # {} THEN First(Upto(S, d)) ELSE First({p \in S : p[1] = d})
<1>1. \A p \in S : p[1] \in Nat /\ p[2] \in Nat
  OBVIOUS
<1>2. CASE Upto(S, d) = {}
  <2>1. Upto(S, d + 1) = {p \in S : p[1] = d}
    BY <1>1, <1>2 DEF Upto
  <2> QED
    BY <1>2, <2>1
<1>3. CASE Upto(S, d) # {}
  <2>1. ASSUME NEW p \in First(Upto(S, d + 1))
        PROVE  p \in First(Upto(S, d))
    <3>1. p \in S /\ p[1] < d + 1 /\ \A q \in Upto(S, d + 1) : p[1] < q[1] \/ (p[1] = q[1] /\ p[2] <= q[2])
      BY DEF First, Upto
    <3> PICK x \in Upto(S, d) : TRUE
      BY <1>3
    <3>2. x \in S /\ x[1] < d /\ x[1] \in Nat
      BY <1>1 DEF Upto
    <3>3. \A q \in Upto(S, d) : q \in Upto(S, d + 1)
      BY <1>1 DEF Upto
    <3>4. p[1] < d
      BY <1>1, <3>1, <3>2, <3>3
    <3> QED
      BY <3>1, <3>3, <3>4 DEF First, Upto
  <2>2. ASSUME NEW p \in First(Upto(S, d))
        PROVE  p \in First(Upto(S, d + 1))
    <3>1. p \in S /\ p[1] < d /\ \A q \in Upto(S, d) : p[1] < q[1] \/ (p[1] = q[1] /\ p[2] <= q[2])
      BY DEF First, Upto
    <3>2. ASSUME NEW q \in Upto(S, d + 1)
          PROVE  p[1] < q[1] \/ (p[1] = q[1] /\ p[2] <= q[2])
      <4>1. q \in Upto(S, d) \/ q[1] = d
        BY <1>1 DEF Upto
      <4> QED
        BY <3>1, <4>1
    <3> QED
      BY <1>1, <3>1, <3>2 DEF First, Upto
  <2> QED
    BY <1>3, <2>1, <2>2
<1> QED
  BY <1>2, <1>3

(* What a table holds at a key.                                               *)
LEMMA AtIs ==
  ASSUME NEW map, NEW key
  PROVE  \A x : x \in At(map, key) <=> \E e \in map : e[1] = key /\ e[2] = x
  BY DEF At

(* A table that keeps the first value of a key, and the entries s of one more module, *)
(* whose positions with that key are in S.                                        *)
Keeps(map, S, d, val, key) == \A x : x \in At(map, key) <=> \E p \in First(Upto(S, d)) : val[p] = x
Fits(s, S, d, val, key) ==
  /\ \E len \in Nat : DOMAIN s = 1 .. len
  /\ \A j \in Nat : <<d, j>> \in S <=> j \in DOMAIN s /\ s[j][1] = key
  /\ \A j \in DOMAIN s : val[<<d, j>>] = s[j][2]

(* Inserting the entries of one more module keeps the first value of every key. *)
LEMMA InsertedFirst ==
  ASSUME NEW S \in SUBSET (Nat \X Nat), NEW d \in Nat, NEW map, NEW s, NEW val, NEW key,
         Fits(s, S, d, val, key), Keeps(map, S, d, val, key)
  PROVE  Keeps(Inserted(map, s), S, d + 1, val, key)
<1> PICK len \in Nat : DOMAIN s = 1 .. len
  BY DEF Fits
<1>9. /\ \A j \in Nat : <<d, j>> \in S <=> j \in DOMAIN s /\ s[j][1] = key
      /\ \A j \in DOMAIN s : val[<<d, j>>] = s[j][2]
      /\ \A x : x \in At(map, key) <=> \E p \in First(Upto(S, d)) : val[p] = x
  BY DEF Fits, Keeps
<1> SUFFICES \A x : x \in At(Inserted(map, s), key) <=> \E p \in First(Upto(S, d + 1)) : val[p] = x
  BY DEF Keeps
<1> USE <1>9
<1> DEFINE new == {n \in DOMAIN s : /\ \A e \in map : e[1] # s[n][1]
                                    /\ \A l \in 1 .. n - 1 : s[l][1] # s[n][1]}
<1>1. \A e : e \in Inserted(map, s) <=> e \in map \/ \E n \in new : e = s[n]
  BY DEF Inserted
<1> HIDE DEF new
<1>6. \A x : x \in At(Inserted(map, s), key) <=> \E e \in Inserted(map, s) : e[1] = key /\ e[2] = x
  BY ONLY AtIs
<1>7. \A x : x \in At(map, key) <=> \E e \in map : e[1] = key /\ e[2] = x
  BY ONLY AtIs
<1>2. \A x : x \in At(Inserted(map, s), key) <=> x \in At(map, key) \/ \E n \in new : s[n][1] = key /\ s[n][2] = x
  <2>1. ASSUME NEW x, x \in At(Inserted(map, s), key)
        PROVE  x \in At(map, key) \/ \E n \in new : s[n][1] = key /\ s[n][2] = x
    <3> PICK e \in Inserted(map, s) : e[1] = key /\ e[2] = x
      BY <2>1, <1>6
    <3> QED
      BY <1>1, <1>7
  <2>2. ASSUME NEW x, x \in At(map, key)
        PROVE  x \in At(Inserted(map, s), key)
    BY <2>2, <1>1, <1>6, <1>7
  <2>3. ASSUME NEW x, NEW n \in new, s[n][1] = key, s[n][2] = x
        PROVE  x \in At(Inserted(map, s), key)
    <3>1. s[n] \in Inserted(map, s)
      BY <1>1
    <3> QED
      BY <2>3, <3>1, <1>6
  <2> QED
    BY <2>1, <2>2, <2>3
<1>8. \A n \in new : /\ n \in DOMAIN s /\ \A e \in map : e[1] # s[n][1]
                     /\ \A l \in 1 .. n - 1 : s[l][1] # s[n][1]
  BY DEF new
<1>3. Upto(S, d) \in SUBSET (Nat \X Nat)
  BY DEF Upto
<1>4. CASE Upto(S, d) # {}
  <2>1. PICK p \in Upto(S, d) : First(Upto(S, d)) = {p}
    BY <1>3, <1>4, FirstOf
  <2>2. At(map, key) # {}
    BY <2>1
  <2>3. \A n \in new : s[n][1] # key
    BY <2>2, <1>7, <1>8
  <2>4. At(Inserted(map, s), key) = At(map, key)
    BY <1>2, <2>3
  <2> QED
    BY <1>4, <2>4, FirstUpto
<1>5. CASE Upto(S, d) = {}
  <2> DEFINE row == {p \in S : p[1] = d}
  <2>1. First(Upto(S, d + 1)) = First(row)
    BY <1>5, FirstUpto
  <2>2. First(Upto(S, d)) = {}
    BY <1>5 DEF First
  <2>3. At(map, key) = {}
    BY <2>2
  <2>4. \A e \in map : e[1] # key
    BY <2>3, <1>7
  <2>5. ASSUME NEW n \in new, s[n][1] = key
        PROVE  <<d, n>> \in First(row)
    <3>1. <<d, n>> \in row /\ <<d, n>>[1] = d /\ <<d, n>>[2] = n /\ n \in Nat
      BY <2>5, <1>8
    <3>2. ASSUME NEW q \in row
          PROVE  d = q[1] /\ n <= q[2]
      <4>1. q = <<d, q[2]>> /\ q[2] \in Nat /\ q[1] = d
        OBVIOUS
      <4>2. q[2] \in DOMAIN s /\ s[q[2]][1] = key
        BY <4>1
      <4>3. ~(q[2] \in 1 .. n - 1)
        BY <2>5, <4>2, <1>8
      <4> QED
        BY <3>1, <4>1, <4>2, <4>3
    <3> QED
      BY <3>1, <3>2 DEF First
  <2>6. ASSUME NEW p \in First(row)
        PROVE  p[2] \in new /\ s[p[2]][1] = key /\ p = <<d, p[2]>>
    <3>1. p \in S /\ p[1] = d /\ \A q \in row : p[1] < q[1] \/ (p[1] = q[1] /\ p[2] <= q[2])
      BY DEF First
    <3>2. p = <<d, p[2]>> /\ p[2] \in Nat
      BY <3>1
    <3>3. p[2] \in DOMAIN s /\ s[p[2]][1] = key
      BY <3>1, <3>2
    <3>4. ASSUME NEW l \in 1 .. p[2] - 1 PROVE s[l][1] # key
      <4>1. l \in DOMAIN s /\ l \in Nat /\ l < p[2]
        BY <3>2, <3>3
      <4>2. <<d, l>> \in S => <<d, l>> \in row /\ <<d, l>>[1] = d /\ <<d, l>>[2] = l
        OBVIOUS
      <4>3. <<d, l>> \notin S
        BY <3>1, <3>2, <4>1, <4>2
      <4> QED
        BY <4>1, <4>3
    <3> QED
      BY <2>4, <3>2, <3>3, <3>4 DEF new
  <2> HIDE DEF row
  <2>7. \A n \in new : n \in DOMAIN s
    BY <1>8
  <2>8. \A x : x \in At(Inserted(map, s), key) <=> \E n \in new : s[n][1] = key /\ s[n][2] = x
    BY <1>2, <2>3
  <2>9. \A n \in new : s[n][1] = key => <<d, n>> \in First(row) /\ val[<<d, n>>] = s[n][2]
    BY <2>5, <2>7
  <2>10. \A p \in First(row) : p[2] \in new /\ s[p[2]][1] = key /\ val[p] = s[p[2]][2]
    BY <2>6, <2>7
  <2>11. ASSUME NEW x
         PROVE  x \in At(Inserted(map, s), key) <=> \E p \in First(row) : val[p] = x
    <3>1. ASSUME NEW n \in new, s[n][1] = key, s[n][2] = x
          PROVE  \E p \in First(row) : val[p] = x
      BY <2>9, <3>1
    <3>2. ASSUME NEW p \in First(row), val[p] = x
          PROVE  \E n \in new : s[n][1] = key /\ s[n][2] = x
      BY <2>10, <3>2
    <3> QED
      BY <2>8, <3>1, <3>2
  <2> QED
    BY <2>1, <2>11
<1> QED
  BY <1>4, <1>5

-----------------------------------------------------------------------------
(* Names of types.                                                             *)
GlobalsOf(t) == {p \in Positions("globals") : prog.mod[p[1]].globals[p[2]].type = t}
ValuesOf(name) == {p \in Positions("values") : prog.mod[p[1]].values[p[2]][1] = name}
GlobalName(p) == prog.mod[p[1]].globals[p[2]].name
ValueType(p) == prog.mod[p[1]].values[p[2]][2]
Pairs(map) == \A e \in map : e = <<e[1], e[2]>>

NamesInv ==
  /\ pc = "types" =>
       /\ \A t \in Struct : Literal(t) =>
            At(TypeValueMap, t) = {GlobalName(p) : p \in First(Upto(GlobalsOf(t), i))}
       /\ \A name \in Name :
            At(VnameToTypenameMap, name) = {ValueType(p) : p \in First(Upto(ValuesOf(name), i))}
       /\ Pairs(VnameToTypenameMap)
  /\ pc # "types" => \A t \in Struct : TypeName(t) = StructName(t)

(* The types of the names of globals and values, and of their positions.      *)
LEMMA NameFacts ==
  ASSUME prog \in Programs
  PROVE  /\ \A m \in Module :
              /\ Len(prog.mod[m].globals) \in Nat /\ Len(prog.mod[m].values) \in Nat
              /\ DOMAIN prog.mod[m].globals = 1 .. Len(prog.mod[m].globals)
              /\ DOMAIN prog.mod[m].values = 1 .. Len(prog.mod[m].values)
              /\ \A j \in DOMAIN prog.mod[m].globals :
                   prog.mod[m].globals[j] \in [name : Name, type : Type, ini : Node \cup {NoNode}]
              /\ \A j \in DOMAIN prog.mod[m].values : prog.mod[m].values[j] \in Name \X Name
         /\ Positions("globals") \subseteq Nat \X Nat /\ Positions("values") \subseteq Nat \X Nat
         /\ \A m, j : /\ <<m, j>> \in Positions("globals") <=> m \in Module /\ j \in DOMAIN prog.mod[m].globals
                      /\ <<m, j>> \in Positions("values") <=> m \in Module /\ j \in DOMAIN prog.mod[m].values
<1>1. prog.mod \in Seq(ModRecord)
  BY ProgramsAssumption
<1>2. ASSUME NEW m \in Module
      PROVE  /\ prog.mod[m].globals \in Seq([name : Name, type : Type, ini : Node \cup {NoNode}])
             /\ prog.mod[m].values \in Seq(Name \X Name)
  <2>1. prog.mod[m] \in ModRecord
    BY <1>1, ProgFacts, ElementOfSeq DEF LastModule
  <2> QED
    BY <2>1 DEF ModRecord
<1>3. ASSUME NEW m \in Module
      PROVE  /\ Len(prog.mod[m].globals) \in Nat /\ Len(prog.mod[m].values) \in Nat
             /\ DOMAIN prog.mod[m].globals = 1 .. Len(prog.mod[m].globals)
             /\ DOMAIN prog.mod[m].values = 1 .. Len(prog.mod[m].values)
             /\ \A j \in DOMAIN prog.mod[m].globals :
                  prog.mod[m].globals[j] \in [name : Name, type : Type, ini : Node \cup {NoNode}]
             /\ \A j \in DOMAIN prog.mod[m].values : prog.mod[m].values[j] \in Name \X Name
  <2>1. /\ Len(prog.mod[m].globals) \in Nat /\ Len(prog.mod[m].values) \in Nat
        /\ DOMAIN prog.mod[m].globals = 1 .. Len(prog.mod[m].globals)
        /\ DOMAIN prog.mod[m].values = 1 .. Len(prog.mod[m].values)
    BY <1>2, LenProperties
  <2>2. ASSUME NEW j \in DOMAIN prog.mod[m].globals
        PROVE  prog.mod[m].globals[j] \in [name : Name, type : Type, ini : Node \cup {NoNode}]
    BY <1>2, <2>1, ElementOfSeq
  <2>3. ASSUME NEW j \in DOMAIN prog.mod[m].values
        PROVE  prog.mod[m].values[j] \in Name \X Name
    BY <1>2, <2>1, ElementOfSeq
  <2> QED
    BY <2>1, <2>2, <2>3
<1>4. Module \subseteq Nat
  BY ProgFacts
<1>5. \A p : p \in Positions("globals") <=> \E m \in Module : \E j \in DOMAIN prog.mod[m].globals : p = <<m, j>>
  BY DEF Positions
<1>6. \A p : p \in Positions("values") <=> \E m \in Module : \E j \in DOMAIN prog.mod[m].values : p = <<m, j>>
  BY DEF Positions
<1>7. Positions("globals") \subseteq Nat \X Nat
  BY <1>3, <1>4, <1>5, SMTT(30)
<1>8. Positions("values") \subseteq Nat \X Nat
  BY <1>3, <1>4, <1>6, SMTT(30)
<1>9. ASSUME NEW m, NEW j
      PROVE  /\ <<m, j>> \in Positions("globals") <=> m \in Module /\ j \in DOMAIN prog.mod[m].globals
             /\ <<m, j>> \in Positions("values") <=> m \in Module /\ j \in DOMAIN prog.mod[m].values
  BY <1>5, <1>6
<1> QED
  BY <1>3, <1>7, <1>8, <1>9

(* One more module is read.                                                     *)
LEMMA TypesNames ==
  ASSUME IInv, NamesInv, TypesOfModule
  PROVE  NamesInv'
<1>1. /\ prog \in Programs /\ pc = "types" /\ pc' = "types" /\ prog' = prog /\ i \in Nat /\ i' = i + 1 /\ i \in Module
      /\ NameTypes(i)
  <2>1. /\ prog \in Programs /\ pc = "types" /\ pc' = "types" /\ prog' = prog /\ i \in Nat \ {0} /\ i' = i + 1
        /\ NameTypes(i) /\ i <= LastModule
    BY DEF IInv, ControlOK, TypesOfModule
  <2> QED
    BY <2>1, ProgFacts
<1>2. ASSUME NEW t \in Struct, Literal(t)
      PROVE  At(TypeValueMap', t) = {GlobalName(p) : p \in First(Upto(GlobalsOf(t), i + 1))}
  <2> DEFINE globals == prog.mod[i].globals
             s == [j \in DOMAIN globals |-> <<globals[j].type, globals[j].name>>]
             val == [p \in Positions("globals") |-> GlobalName(p)]
             S == GlobalsOf(t)
  <2>1. /\ Len(globals) \in Nat /\ DOMAIN s = 1 .. Len(globals) /\ S \in SUBSET (Nat \X Nat)
    BY <1>1, NameFacts DEF GlobalsOf
  <2>2. \A j \in Nat : <<i, j>> \in S <=> j \in DOMAIN s /\ s[j][1] = t
    <3> TAKE j \in Nat
    <3>1. <<i, j>> \in Positions("globals") <=> j \in DOMAIN s
      BY <1>1, NameFacts
    <3>2. <<i, j>> \in S <=> <<i, j>> \in Positions("globals") /\ globals[j].type = t
      BY DEF GlobalsOf
    <3>3. j \in DOMAIN s => s[j][1] = globals[j].type
      OBVIOUS
    <3> HIDE DEF S, s
    <3> QED
      BY <3>1, <3>2, <3>3
  <2>3. \A j \in DOMAIN s : val[<<i, j>>] = s[j][2]
    <3> TAKE j \in DOMAIN s
    <3>1. <<i, j>> \in Positions("globals")
      BY <1>1, NameFacts
    <3>2. val[<<i, j>>] = globals[j].name
      BY <3>1 DEF GlobalName
    <3> QED
      BY <3>2
  <2>4. ASSUME NEW d
        PROVE  {val[p] : p \in First(Upto(S, d))} = {GlobalName(p) : p \in First(Upto(S, d))}
    <3>1. \A p \in First(Upto(S, d)) : val[p] = GlobalName(p)
      BY DEF First, Upto, GlobalsOf
    <3> QED
      BY <3>1
  <2>5. Keeps(TypeValueMap, S, i, val, t)
    <3>1. At(TypeValueMap, t) = {GlobalName(p) : p \in First(Upto(S, i))}
      BY <1>1, <1>2 DEF NamesInv
    <3>2. At(TypeValueMap, t) = {val[p] : p \in First(Upto(S, i))}
      BY <2>4, <3>1
    <3> HIDE DEF val, S
    <3> QED
      BY <3>2 DEF Keeps
  <2>6. TypeValueMap' = {e \in Inserted(TypeValueMap, s) : Literal(e[1])}
    BY <1>1 DEF NameTypes
  <2> HIDE DEF s, val, S
  <2>7. Keeps(Inserted(TypeValueMap, s), S, i + 1, val, t)
    <3>1. Fits(s, S, i, val, t)
      BY <2>1, <2>2, <2>3 DEF Fits
    <3> QED
      BY <1>1, <2>1, <2>5, <3>1, InsertedFirst
  <2>11. At(Inserted(TypeValueMap, s), t) = {val[p] : p \in First(Upto(S, i + 1))}
    BY <2>7 DEF Keeps
  <2>8. \A x : x \in At(TypeValueMap', t) <=> \E e \in TypeValueMap' : e[1] = t /\ e[2] = x
    BY ONLY AtIs
  <2>9. \A x : x \in At(Inserted(TypeValueMap, s), t) <=> \E e \in Inserted(TypeValueMap, s) : e[1] = t /\ e[2] = x
    BY ONLY AtIs
  <2>10. At(TypeValueMap', t) = At(Inserted(TypeValueMap, s), t)
    BY <1>2, <2>6, <2>8, <2>9, ZenonT(60)
  <2> QED
    BY <2>4, <2>11, <2>10 DEF S
<1>3. ASSUME NEW name \in Name
      PROVE  At(VnameToTypenameMap', name) = {ValueType(p) : p \in First(Upto(ValuesOf(name), i + 1))}
  <2> DEFINE s == prog.mod[i].values
             val == [p \in Positions("values") |-> ValueType(p)]
             S == ValuesOf(name)
  <2>1. /\ Len(s) \in Nat /\ DOMAIN s = 1 .. Len(s) /\ S \in SUBSET (Nat \X Nat)
    BY <1>1, NameFacts DEF ValuesOf
  <2>2. \A j \in Nat : <<i, j>> \in S <=> j \in DOMAIN s /\ s[j][1] = name
    <3> TAKE j \in Nat
    <3>1. <<i, j>> \in Positions("values") <=> j \in DOMAIN s
      BY <1>1, NameFacts
    <3>2. <<i, j>> \in S <=> <<i, j>> \in Positions("values") /\ s[j][1] = name
      BY DEF ValuesOf
    <3> QED
      BY <3>1, <3>2
  <2>3. \A j \in DOMAIN s : val[<<i, j>>] = s[j][2]
    <3> TAKE j \in DOMAIN s
    <3>1. <<i, j>> \in Positions("values")
      BY <1>1, NameFacts
    <3> QED
      BY <3>1 DEF ValueType
  <2>4. ASSUME NEW d
        PROVE  {val[p] : p \in First(Upto(S, d))} = {ValueType(p) : p \in First(Upto(S, d))}
    <3>1. \A p \in First(Upto(S, d)) : val[p] = ValueType(p)
      BY DEF First, Upto, ValuesOf
    <3> QED
      BY <3>1
  <2>5. Keeps(VnameToTypenameMap, S, i, val, name)
    <3>1. At(VnameToTypenameMap, name) = {ValueType(p) : p \in First(Upto(S, i))}
      BY <1>1 DEF NamesInv
    <3>2. At(VnameToTypenameMap, name) = {val[p] : p \in First(Upto(S, i))}
      BY <2>4, <3>1
    <3> HIDE DEF val, S
    <3> QED
      BY <3>2 DEF Keeps
  <2>6. VnameToTypenameMap' = Inserted(VnameToTypenameMap, s)
    BY <1>1 DEF NameTypes, ValueNames
  <2> HIDE DEF s, val, S
  <2>7. Keeps(Inserted(VnameToTypenameMap, s), S, i + 1, val, name)
    <3>1. Fits(s, S, i, val, name)
      BY <2>1, <2>2, <2>3 DEF Fits
    <3> QED
      BY <1>1, <2>1, <2>5, <3>1, InsertedFirst, SMTT(30)
  <2>11. At(Inserted(VnameToTypenameMap, s), name) = {val[p] : p \in First(Upto(S, i + 1))}
    BY <2>7 DEF Keeps
  <2> QED
    BY <2>4, <2>6, <2>11 DEF S
<1>4. Pairs(VnameToTypenameMap')
  <2>1. \A j \in DOMAIN prog.mod[i].values : prog.mod[i].values[j] = <<prog.mod[i].values[j][1], prog.mod[i].values[j][2]>>
    BY <1>1, NameFacts, SMTT(30)
  <2>2. \A e \in VnameToTypenameMap' : e \in VnameToTypenameMap \/ \E j \in DOMAIN prog.mod[i].values : e = prog.mod[i].values[j]
    BY <1>1 DEF NameTypes, ValueNames, Inserted
  <2>3. Pairs(VnameToTypenameMap)
    BY <1>1 DEF NamesInv
  <2> QED
    BY <2>1, <2>2, <2>3 DEF Pairs
<1>5. /\ \A t : Literal(t)' = Literal(t) /\ GlobalsOf(t)' = GlobalsOf(t)
      /\ \A name : ValuesOf(name)' = ValuesOf(name)
      /\ \A p : GlobalName(p)' = GlobalName(p) /\ ValueType(p)' = ValueType(p)
  BY <1>1 DEF Literal, GlobalsOf, ValuesOf, Positions, Module, GlobalName, ValueType
<1> QED
  BY <1>1, <1>2, <1>3, <1>4, <1>5 DEF NamesInv

(* All have been read.                                                          *)
LEMMA StructsNames ==
  ASSUME IInv, NamesInv, BuildStructs
  PROVE  NamesInv'
<1>1. /\ prog \in Programs /\ pc = "types" /\ pc' # "types" /\ prog' = prog /\ i \in Nat /\ i > LastModule
      /\ GlobalTypes' = {e \in Struct \X Name :
                           \E v \in At(TypeValueMap, e[1]) : <<v, e[2]>> \in VnameToTypenameMap}
  BY DEF IInv, ControlOK, BuildStructs, BuildTypeStructMap
<1>2. LastModule \in Nat /\ Module = 1 .. LastModule
  BY <1>1, ProgFacts
<1>3. ASSUME NEW t
      PROVE  First(Upto(GlobalsOf(t), i)) = FirstGlobals(t)
  <2>1. \A p \in Positions("globals") : p[1] < i
    BY <1>1, <1>2 DEF Positions
  <2>2. Upto(GlobalsOf(t), i) = GlobalsOf(t)
    BY <2>1 DEF Upto, GlobalsOf
  <2> QED
    BY <2>2, SMTT(30) DEF FirstGlobals, GlobalsOf
<1>4. ASSUME NEW name
      PROVE  First(Upto(ValuesOf(name), i)) = FirstValues(name)
  <2>1. \A p \in Positions("values") : p[1] < i
    BY <1>1, <1>2 DEF Positions
  <2>2. Upto(ValuesOf(name), i) = ValuesOf(name)
    BY <2>1 DEF Upto, ValuesOf
  <2> QED
    BY <2>2 DEF FirstValues, ValuesOf
<1>5. \A p \in Positions("globals") : GlobalName(p) \in Name
  <2>1. ASSUME NEW p \in Positions("globals") PROVE GlobalName(p) \in Name
    <3>1. PICK m \in Module : \E j \in DOMAIN prog.mod[m].globals : p = <<m, j>>
      BY DEF Positions
    <3>2. PICK j \in DOMAIN prog.mod[m].globals : p = <<m, j>>
      BY <3>1
    <3>3. prog.mod[m].globals[j] \in [name : Name, type : Type, ini : Node \cup {NoNode}]
      BY <1>1, NameFacts
    <3> QED
      BY <3>2, <3>3 DEF GlobalName
  <2> QED
    BY <2>1
<1>6. \A p \in Positions("values") : ValueType(p) \in Name
  <2>1. ASSUME NEW p \in Positions("values") PROVE ValueType(p) \in Name
    <3>1. PICK m \in Module : \E j \in DOMAIN prog.mod[m].values : p = <<m, j>>
      BY DEF Positions
    <3>2. PICK j \in DOMAIN prog.mod[m].values : p = <<m, j>>
      BY <3>1
    <3>3. prog.mod[m].values[j] \in Name \X Name
      BY <1>1, NameFacts
    <3> QED
      BY <3>2, <3>3 DEF ValueType
  <2> QED
    BY <2>1
<1>7. ASSUME NEW t \in Struct, Literal(t)
      PROVE  At(GlobalTypes', t) = StructName(t)
  <2>1. At(TypeValueMap, t) = {GlobalName(p) : p \in FirstGlobals(t)}
    BY <1>1, <1>3, <1>7 DEF NamesInv
  <2>2. \A v \in At(TypeValueMap, t) : v \in Name
    BY <1>5, <2>1 DEF FirstGlobals, First
  <2>3. ASSUME NEW v \in Name, NEW n
        PROVE  <<v, n>> \in VnameToTypenameMap <=> \E q \in FirstValues(v) : ValueType(q) = n
    <3>1. At(VnameToTypenameMap, v) = {ValueType(q) : q \in FirstValues(v)}
      BY <1>1, <1>4 DEF NamesInv
    <3>2. n \in At(VnameToTypenameMap, v) <=> \E e \in VnameToTypenameMap : e[1] = v /\ e[2] = n
      BY ONLY AtIs
    <3>3. n \in At(VnameToTypenameMap, v) <=> <<v, n>> \in VnameToTypenameMap
      BY <1>1, <3>2 DEF NamesInv, Pairs
    <3> QED
      BY <3>1, <3>3
  <2>4. \A n : n \in At(GlobalTypes', t) <=> \E e \in GlobalTypes' : e[1] = t /\ e[2] = n
    BY ONLY AtIs
  <2>5. \A n : n \in At(GlobalTypes', t) <=> n \in Name /\ \E v \in At(TypeValueMap, t) : <<v, n>> \in VnameToTypenameMap
    <3>1. ASSUME NEW n, n \in At(GlobalTypes', t)
          PROVE  n \in Name /\ \E v \in At(TypeValueMap, t) : <<v, n>> \in VnameToTypenameMap
      <4> PICK e \in GlobalTypes' : e[1] = t /\ e[2] = n
        BY <2>4, <3>1
      <4> QED
        BY <1>1
    <3>2. ASSUME NEW n \in Name, NEW v \in At(TypeValueMap, t), <<v, n>> \in VnameToTypenameMap
          PROVE  n \in At(GlobalTypes', t)
      <4> DEFINE e == <<t, n>>
      <4>1. e \in Struct \X Name /\ e[1] = t /\ e[2] = n
        OBVIOUS
      <4> HIDE DEF e
      <4>2. e \in GlobalTypes'
        BY <1>1, <3>2, <4>1
      <4> QED
        BY <2>4, <4>1, <4>2
    <3> QED
      BY <3>1, <3>2
  <2>6. \A n : n \in At(GlobalTypes', t) <=> \E p \in FirstGlobals(t) : \E q \in FirstValues(GlobalName(p)) : ValueType(q) = n
    <3>1. ASSUME NEW n, n \in At(GlobalTypes', t)
          PROVE  \E p \in FirstGlobals(t) : \E q \in FirstValues(GlobalName(p)) : ValueType(q) = n
      <4>1. PICK v \in At(TypeValueMap, t) : <<v, n>> \in VnameToTypenameMap
        BY <2>5, <3>1
      <4>2. PICK p \in FirstGlobals(t) : v = GlobalName(p)
        BY <2>1
      <4>3. \E q \in FirstValues(v) : ValueType(q) = n
        BY <2>2, <2>3, <4>1
      <4> QED
        BY <4>2, <4>3
    <3>2. ASSUME NEW n, NEW p \in FirstGlobals(t), NEW q \in FirstValues(GlobalName(p)), ValueType(q) = n
          PROVE  n \in At(GlobalTypes', t)
      <4>1. GlobalName(p) \in At(TypeValueMap, t)
        BY <2>1
      <4>2. <<GlobalName(p), n>> \in VnameToTypenameMap
        BY <2>2, <2>3, <3>2, <4>1
      <4>3. n \in Name
        BY <1>6, <3>2 DEF FirstValues, First
      <4> QED
        BY <2>5, <4>1, <4>2, <4>3
    <3> QED
      BY <3>1, <3>2
  <2>7. StructName(t) = UNION {{ValueType(q) : q \in FirstValues(GlobalName(p))} : p \in FirstGlobals(t)}
    BY <1>7 DEF StructName, ValueType, GlobalName
  <2> HIDE DEF StructName, FirstGlobals, FirstValues
  <2>8. \A n : n \in StructName(t) <=> \E p \in FirstGlobals(t) : \E q \in FirstValues(GlobalName(p)) : ValueType(q) = n
    BY <2>7
  <2> QED
    BY <2>6, <2>8
<1>8. \A t : Literal(t)' = Literal(t) /\ StructName(t)' = StructName(t)
  BY <1>1 DEF Literal, StructName, FirstGlobals, FirstValues, First, Positions, Module
<1>9. ASSUME NEW t \in Struct
      PROVE  TypeName(t)' = StructName(t)
  <2>1. CASE Literal(t)
    BY <1>1, <1>7, <1>8, <2>1 DEF TypeName
  <2>2. CASE ~Literal(t)
    <3>1. StructName(t) = {prog.ty[t].name}
      BY <2>2 DEF StructName
    <3> QED
      BY <1>1, <1>8, <2>2, <3>1 DEF TypeName
  <2> QED
    BY <2>1, <2>2
<1> QED
  BY <1>1, <1>8, <1>9 DEF NamesInv

(* Then the names stay.                                                         *)
LEMMA SameProgram ==
  ASSUME prog' = prog
  PROVE  /\ \A t, u : Same(t, u)' = Same(t, u)
         /\ \A t : StructName(t)' = StructName(t)
         /\ Statements' = Statements /\ Initializers' = Initializers /\ Definitions' = Definitions
<1>1. \A t : StructName(t)' = StructName(t)
  BY DEF Literal, StructName, FirstGlobals, FirstValues, First, Positions, Module
<1>2. \A t, u : Same(t, u)' = Same(t, u)
  BY <1>1 DEF Same
<1>3. Statements' = Statements /\ Definitions' = Definitions
  BY DEF Statements, Definitions, Module
<1>4. Initializers' = Initializers
  BY DEF Initializers, Module
<1> QED
  BY <1>1, <1>2, <1>3, <1>4

(* Names are settled by the first pass over the modules and read by the rest. *)
LEMMA NamesKept ==
  ASSUME NamesInv, prog' = prog, pc # "types", pc' # "types", UNCHANGED nameVars
  PROVE  NamesInv'
<1>1. \A t : TypeName(t)' = TypeName(t)
  BY DEF TypeName, Literal, nameVars
<1> QED
  BY <1>1, SameProgram DEF NamesInv

-----------------------------------------------------------------------------
(* Hashes of types, when all modules have one data layout.                        *)
Uniform == \A m \in Module : prog.mod[m].layout = prog.mod[1].layout

(* With one layout, equal hashes are equal types: the hash is of the name.    *)
LEMMA HashSame ==
  ASSUME NamesInv, pc # "types"
  PROVE  \A t, u : TypeHash(t, 1) = TypeHash(u, 1) <=> Same(t, u)
<1> TAKE t, u
<1>1. CASE t \in Struct /\ u \in Struct
  <2>1. TypeHash(t, 1) = <<StructName(t), prog.ty[t].elements, prog.mod[1].layout>>
    BY <1>1 DEF TypeHash, NamesInv
  <2>2. TypeHash(u, 1) = <<StructName(u), prog.ty[u].elements, prog.mod[1].layout>>
    BY <1>1 DEF TypeHash, NamesInv
  <2> QED
    BY <1>1, <2>1, <2>2 DEF Same
<1>2. CASE t \in Struct /\ u \notin Struct
  <2>1. TypeHash(t, 1) = <<TypeName(t), prog.ty[t].elements, prog.mod[1].layout>> /\ TypeHash(u, 1) = <<u>>
    BY <1>2 DEF TypeHash
  <2>2. Len(TypeHash(t, 1)) = 3 /\ Len(TypeHash(u, 1)) = 1
    BY <2>1
  <2> QED
    BY <1>2, <2>2 DEF Same
<1>3. CASE t \notin Struct /\ u \in Struct
  <2>1. TypeHash(u, 1) = <<TypeName(u), prog.ty[u].elements, prog.mod[1].layout>> /\ TypeHash(t, 1) = <<t>>
    BY <1>3 DEF TypeHash
  <2>2. Len(TypeHash(u, 1)) = 3 /\ Len(TypeHash(t, 1)) = 1
    BY <2>1
  <2> QED
    BY <1>3, <2>2 DEF Same
<1>4. CASE t \notin Struct /\ u \notin Struct
  <2>1. TypeHash(u, 1) = <<u>> /\ TypeHash(t, 1) = <<t>>
    BY <1>4 DEF TypeHash
  <2> QED
    BY <1>4, <2>1 DEF Same
<1> QED
  BY <1>1, <1>2, <1>3, <1>4

(* With one layout, the module that computes a hash does not matter.          *)
LEMMA HashUniform ==
  ASSUME Uniform, NEW m \in Module
  PROVE  \A t : TypeHash(t, m) = TypeHash(t, 1)
<1>1. prog.mod[m].layout = prog.mod[1].layout
  BY DEF Uniform
<1> QED
  BY <1>1 DEF TypeHash

(* The key of a field tells type and index apart, and is never the key of a type. *)
LEMMA KeySame ==
  ASSUME NamesInv, pc # "types"
  PROVE  /\ \A t, u, x, y : TypeIdxHash(t, x, 1) = TypeIdxHash(u, y, 1) <=> Same(t, u) /\ x = y
         /\ \A t, u, x : TypeHash(t, 1) # TypeIdxHash(u, x, 1)
<1>1. \A t, u, x, y : TypeIdxHash(t, x, 1) = TypeIdxHash(u, y, 1) <=> Same(t, u) /\ x = y
  BY HashSame DEF TypeIdxHash
<1>2. ASSUME NEW t, NEW u, NEW x
      PROVE  TypeHash(t, 1) # TypeIdxHash(u, x, 1)
  <2>1. Len(TypeIdxHash(u, x, 1)) = 2
    BY DEF TypeIdxHash
  <2>2. Len(TypeHash(t, 1)) # 2
    <3>1. CASE t \in Struct
      <4>1. TypeHash(t, 1) = <<TypeName(t), prog.ty[t].elements, prog.mod[1].layout>>
        BY <3>1 DEF TypeHash
      <4> QED
        BY <4>1
    <3>2. CASE t \notin Struct
      <4>1. TypeHash(t, 1) = <<t>>
        BY <3>2 DEF TypeHash
      <4> QED
        BY <4>1
    <3> QED
      BY <3>1, <3>2
  <2> QED
    BY <2>1, <2>2
<1> QED
  BY <1>1, <1>2

-----------------------------------------------------------------------------
(* The aggregates in an aggregate.                                               *)
Inside(n) == Range(prog.node[n].ops) \cap Node

(* Induction, in the form of sets.                                               *)
LEMMA SetInduction ==
  ASSUME NEW G \in SUBSET Nat, 0 \in G, \A n \in G : n + 1 \in G
  PROVE  G = Nat
<1> SUFFICES ASSUME Nat \ G # {}
             PROVE  FALSE
  OBVIOUS
<1> PICK n \in Nat \ G : \A m \in Nat \ G : n <= m
  BY NatMin
<1>1. n # 0 /\ n - 1 \in Nat /\ (n - 1) + 1 = n /\ ~(n <= n - 1)
  OBVIOUS
<1>2. n - 1 \in G
  BY <1>1
<1> QED
  BY <1>1, <1>2

(* The loop over the operands, as a function of those that are still to come.       *)
Turns(ops, f) ==
  [j \in 0 .. Len(ops) |->
     IF j = 0 THEN <<>> ELSE IF ops[j] \in Node THEN Append(f[j - 1], ops[j]) ELSE f[j - 1]]

(* The loop over the operands is defined: one function takes these turns.     *)
LEMMA TurnsExist ==
  ASSUME NEW ops, Len(ops) \in Nat
  PROVE  \E f : f = Turns(ops, f)
<1> DEFINE Upon(f, n) ==
             /\ DOMAIN f = 0 .. n /\ f = [j \in 0 .. n |-> f[j]]
             /\ f[0] = <<>>
             /\ \A j \in 1 .. n : f[j] = IF ops[j] \in Node THEN Append(f[j - 1], ops[j]) ELSE f[j - 1]
           G == {n \in Nat : \E f : Upon(f, n)}
<1>1. 0 \in G
  <2>1. Upon([j \in 0 .. 0 |-> <<>>], 0)
    OBVIOUS
  <2> QED
    BY <2>1
<1>2. ASSUME NEW n \in G
      PROVE  n + 1 \in G
  <2>1. n \in Nat
    OBVIOUS
  <2>2. PICK f : Upon(f, n)
    OBVIOUS
  <2> DEFINE last == IF ops[n + 1] \in Node THEN Append(f[n], ops[n + 1]) ELSE f[n]
             g == [j \in 0 .. n + 1 |-> IF j = n + 1 THEN last ELSE f[j]]
  <2>3. \A j \in 0 .. n : g[j] = f[j] /\ j \in 0 .. n + 1
    BY <2>1
  <2>4. g[n + 1] = last /\ DOMAIN g = 0 .. n + 1 /\ g = [j \in 0 .. n + 1 |-> g[j]]
    BY <2>1
  <2>5. g[0] = <<>>
    BY <2>1, <2>2, <2>3
  <2>6. ASSUME NEW j \in 1 .. n + 1
        PROVE  g[j] = IF ops[j] \in Node THEN Append(g[j - 1], ops[j]) ELSE g[j - 1]
    <3>1. CASE j = n + 1
      <4>1. j - 1 = n /\ g[n] = f[n]
        BY <2>1, <2>3, <3>1
      <4> HIDE DEF g
      <4> QED
        BY <2>4, <3>1, <4>1
    <3>2. CASE j # n + 1
      <4>1. j \in 1 .. n /\ j \in 0 .. n /\ j - 1 \in 0 .. n
        BY <2>1, <3>2
      <4>2. g[j] = f[j] /\ g[j - 1] = f[j - 1]
        BY <2>3, <4>1
      <4> HIDE DEF g
      <4> QED
        BY <2>2, <4>1, <4>2
    <3> QED
      BY <3>1, <3>2
  <2> HIDE DEF g
  <2>7. Upon(g, n + 1)
    BY <2>4, <2>5, <2>6
  <2> HIDE DEF Upon
  <2>8. n + 1 \in Nat /\ \E h : Upon(h, n + 1)
    BY <2>1, <2>7
  <2> QED
    BY <2>8
<1> HIDE DEF G
<1>3. Len(ops) \in G
  <2>1. G \in SUBSET Nat
    BY DEF G
  <2> QED
    BY <1>1, <1>2, <2>1, SetInduction
<1>4. PICK f : Upon(f, Len(ops))
  BY <1>3 DEF G
<1>5. ASSUME NEW j \in 0 .. Len(ops)
      PROVE  f[j] = Turns(ops, f)[j]
  <2>1. CASE j = 0
    BY <1>4, <2>1 DEF Turns
  <2>2. CASE j # 0
    <3>1. j \in 1 .. Len(ops)
      BY <2>2
    <3> QED
      BY <1>4, <2>2, <3>1 DEF Turns
  <2> QED
    BY <2>1, <2>2
<1>6. f = Turns(ops, f)
  BY <1>4, <1>5 DEF Turns
<1> QED
  BY <1>6

(* The aggregates pushed for an aggregate are those among its operands.       *)
LEMMA NestedInside ==
  ASSUME prog \in Programs, NEW n \in Node
  PROVE  Nested(n) \in Seq(Node) /\ Range(Nested(n)) = Inside(n)
<1> DEFINE ops == prog.node[n].ops
           found == CHOOSE f : f = Turns(ops, f)
<1>1. ops \in Seq(Fun \cup Node \cup {"other"})
  BY ProgramsAssumption
<1>2. Len(ops) \in Nat /\ DOMAIN ops = 1 .. Len(ops)
  BY <1>1, LenProperties
<1>3. Nested(n) = found[Len(ops)]
  BY DEF Nested, Turns
<1> HIDE DEF ops
<1>4. found = Turns(ops, found)
  BY <1>2, TurnsExist
<1> HIDE DEF found
<1> DEFINE G == {j \in Nat : j <= Len(ops) =>
                   /\ found[j] \in Seq(Node)
                   /\ \A x : x \in Range(found[j]) <=> x \in Node /\ \E l \in 1 .. j : x = ops[l]}
<1>5. 0 \in G
  <2>1. found[0] = <<>>
    BY <1>2, <1>4 DEF Turns
  <2>2. <<>> \in Seq(Node) /\ \A x : x \notin Range(<<>>)
    BY DEF Range
  <2>3. found[0] \in Seq(Node) /\ \A x : x \notin Range(found[0])
    BY <2>1, <2>2
  <2>4. \A l : l \notin 1 .. 0
    OBVIOUS
  <2> QED
    BY <2>3, <2>4
<1>6. ASSUME NEW j \in G
      PROVE  j + 1 \in G
  <2> SUFFICES ASSUME j + 1 <= Len(ops)
               PROVE  /\ found[j + 1] \in Seq(Node)
                      /\ \A x : x \in Range(found[j + 1]) <=> x \in Node /\ \E l \in 1 .. j + 1 : x = ops[l]
    OBVIOUS
  <2>1. j \in Nat /\ j <= Len(ops) /\ j + 1 \in 0 .. Len(ops) /\ j + 1 # 0 /\ (j + 1) - 1 = j
    BY <1>2
  <2>2. /\ found[j] \in Seq(Node)
        /\ \A x : x \in Range(found[j]) <=> x \in Node /\ \E l \in 1 .. j : x = ops[l]
    BY <1>6, <2>1
  <2>3. found[j + 1] = IF ops[j + 1] \in Node THEN Append(found[j], ops[j + 1]) ELSE found[j]
    BY <1>4, <2>1, ZenonT(60) DEF Turns
  <2>4. \A l : l \in 1 .. j + 1 <=> l \in 1 .. j \/ l = j + 1
    BY <2>1
  <2>5. CASE ops[j + 1] \in Node
    <3>1. found[j + 1] = Append(found[j], ops[j + 1])
      BY <2>3, <2>5
    <3>2. Append(found[j], ops[j + 1]) = found[j] \o <<ops[j + 1]>>
      BY <2>2, <2>5, AppendIsConcat
    <3>3. found[j + 1] \in Seq(Node) /\ Range(found[j + 1]) = Range(found[j]) \cup Range(<<ops[j + 1]>>)
      <4> DEFINE x == ops[j + 1]
                 f == found[j]
      <4>1. x \in Node /\ f \in Seq(Node) /\ found[j + 1] = f \o <<x>>
        BY <2>2, <2>5, <3>1, <3>2
      <4> HIDE DEF x, f
      <4>2. <<x>> \in Seq(Node)
        BY <4>1
      <4>3. \A s1, s2 \in Seq(Node) : s1 \o s2 \in Seq(Node) /\ Range(s1 \o s2) = Range(s1) \cup Range(s2)
        <5>1. \A s1, s2 \in Seq(Node) : s1 \o s2 \in Seq(Node)
          BY ONLY ConcatProperties
        <5>2. \A s1, s2 \in Seq(Node) : Range(s1 \o s2) = Range(s1) \cup Range(s2)
          BY ONLY RangeConcatenation
        <5> QED
          BY ONLY <5>1, <5>2
      <4>4. f \o <<x>> \in Seq(Node) /\ Range(f \o <<x>>) = Range(f) \cup Range(<<x>>)
        BY ONLY <4>1, <4>2, <4>3
      <4> QED
        BY <4>1, <4>4 DEF x, f
    <3>4. Range(<<ops[j + 1]>>) = {ops[j + 1]}
      BY DEF Range
    <3> QED
      BY <2>2, <2>4, <2>5, <3>3, <3>4
  <2>6. CASE ops[j + 1] \notin Node
    BY <2>2, <2>3, <2>4, <2>6
  <2> QED
    BY <2>5, <2>6
<1>7. Len(ops) \in G
  <2>1. G \in SUBSET Nat
    OBVIOUS
  <2> HIDE DEF G
  <2> QED
    BY <1>2, <1>5, <1>6, <2>1, SetInduction
<1>8. /\ found[Len(ops)] \in Seq(Node)
      /\ \A x : x \in Range(found[Len(ops)]) <=> x \in Node /\ \E l \in 1 .. Len(ops) : x = ops[l]
  BY <1>2, <1>7
<1>9. \A x : x \in Inside(n) <=> x \in Node /\ \E l \in 1 .. Len(ops) : x = ops[l]
  BY <1>2 DEF Inside, ops, Range
<1> QED
  BY <1>3, <1>8, <1>9

-----------------------------------------------------------------------------
(* The tables: they hold what the initializers that have been taken from the       *)
(* worklist and the code that has been seen put into them.                        *)
StatementsSeen == UNION {prog.fn[f].code : f \in Seen}
RootSeen(m, j) ==
  CASE pc = "types"   -> FALSE
    [] pc = "globals" -> Before(m, j)
    [] pc = "nodes"   -> Before(m, j) \/ (m = i /\ j = k)
    [] pc = "funs"    -> m <= i
    [] OTHER          -> TRUE
Roots == {n \in Node : \E m \in Module : \E j \in DOMAIN prog.mod[m].globals :
                         RootSeen(m, j) /\ prog.mod[m].globals[j].ini = n}

(* The functions in the initializers S.                                          *)
Filed(S) == UNION {InitializerFuncs(n, 1) : n \in S}

Filled(V) ==
  /\ V \subseteq Initializers
  /\ Roots \subseteq V \cup Range(LU)
  /\ \A n \in V : Inside(n) \subseteq V \cup Range(LU)
  /\ typeFuncsMap = Filed(V) \cup StoredFuncs(StatementsSeen, 1)

TablesInv ==
  /\ LU \in Seq(Node) /\ Range(LU) \subseteq Initializers
  /\ pc # "nodes" => LU = <<>>
  /\ pc = "types" => k = 1 /\ typeFuncsMap = {} /\ typeEscapeSet = {} /\ typeTransitMap = {}
  /\ pc # "types" /\ Uniform =>
       /\ \E V \in SUBSET Node : Filled(V)
       /\ typeEscapeSet = Escapes(StatementsSeen, 1)
       /\ typeTransitMap = Transits(StatementsSeen, 1)

(* An entry filed for a set of aggregates is filed for one of them.           *)
LEMMA FiledMember ==
  ASSUME NEW S
  PROVE  \A e : e \in Filed(S) <=> \E n \in S : e \in InitializerFuncs(n, 1)
  BY DEF Filed

(* What is filed for two sets of aggregates is filed for one of the two.      *)
LEMMA FiledUnion ==
  ASSUME NEW A, NEW B
  PROVE  Filed(A \cup B) = Filed(A) \cup Filed(B)
<1>1. \A e : e \in Filed(A \cup B) <=> \E n \in A \cup B : e \in InitializerFuncs(n, 1)
  BY ONLY FiledMember
<1>2. \A e : e \in Filed(A) <=> \E n \in A : e \in InitializerFuncs(n, 1)
  BY ONLY FiledMember
<1>3. \A e : e \in Filed(B) <=> \E n \in B : e \in InitializerFuncs(n, 1)
  BY ONLY FiledMember
<1>4. \A e : e \in Filed(A \cup B) <=> e \in Filed(A) \/ e \in Filed(B)
  BY <1>1, <1>2, <1>3
<1> QED
  BY <1>4

(* Nothing is filed for no aggregate.                                         *)
LEMMA FiledNone == Filed({}) = {}
  BY DEF Filed

(* What is filed for one aggregate.                                           *)
LEMMA FiledOne == \A n : Filed({n}) = InitializerFuncs(n, 1)
  BY DEF Filed

(* Initializers is the least set with the initializers of the globals and all inside. *)
LEMMA InitializersLeast ==
  /\ Initializers \subseteq Node
  /\ \A m \in Module : \A j \in DOMAIN prog.mod[m].globals :
       prog.mod[m].globals[j].ini \in Node => prog.mod[m].globals[j].ini \in Initializers
  /\ \A n \in Initializers : Inside(n) \subseteq Initializers
  /\ \A V \in SUBSET Node :
       /\ \A m \in Module : \A j \in DOMAIN prog.mod[m].globals :
            prog.mod[m].globals[j].ini \in Node => prog.mod[m].globals[j].ini \in V
       /\ \A n \in V : Inside(n) \subseteq V
       => Initializers \subseteq V
<1> DEFINE ini == UNION {{g.ini : g \in Range(prog.mod[m].globals)} : m \in Module}
           roots == ini \cap Node
           closed == {S \in SUBSET Node : roots \subseteq S /\ \A n \in S : Inside(n) \subseteq S}
<1>1. Initializers = {n \in Node : \A S \in closed : n \in S}
  BY DEF Initializers, Inside
<1>2. \A x : x \in roots <=> x \in Node /\ \E m \in Module : \E j \in DOMAIN prog.mod[m].globals :
                                                  x = prog.mod[m].globals[j].ini
  <2>1. ASSUME NEW m
        PROVE  \A g : g \in Range(prog.mod[m].globals)
                        <=> \E j \in DOMAIN prog.mod[m].globals : g = prog.mod[m].globals[j]
    BY DEF Range
  <2>2. ASSUME NEW x
        PROVE  x \in ini <=> \E m \in Module : \E g : g \in Range(prog.mod[m].globals) /\ x = g.ini
    OBVIOUS
  <2> HIDE DEF ini
  <2>3. ASSUME NEW x, NEW m
        PROVE  (\E g : g \in Range(prog.mod[m].globals) /\ x = g.ini)
                 <=> \E j \in DOMAIN prog.mod[m].globals : x = prog.mod[m].globals[j].ini
    <3> DEFINE R == Range(prog.mod[m].globals)
    <3>1. \A g : g \in R <=> \E j \in DOMAIN prog.mod[m].globals : g = prog.mod[m].globals[j]
      BY <2>1
    <3> HIDE DEF R
    <3>2. (\E g : g \in R /\ x = g.ini) <=> \E j \in DOMAIN prog.mod[m].globals : x = prog.mod[m].globals[j].ini
      BY <3>1
    <3> QED
      BY <3>2 DEF R
  <2>4. ASSUME NEW x
        PROVE  x \in roots <=> x \in Node /\ \E m \in Module : \E j \in DOMAIN prog.mod[m].globals :
                                                    x = prog.mod[m].globals[j].ini
    <3>1. x \in roots <=> x \in ini /\ x \in Node
      OBVIOUS
    <3> DEFINE P(m) == \E g : g \in Range(prog.mod[m].globals) /\ x = g.ini
               Q(m) == \E j \in DOMAIN prog.mod[m].globals : x = prog.mod[m].globals[j].ini
    <3>2. \A m : P(m) <=> Q(m)
      BY <2>3
    <3>3. x \in ini <=> \E m \in Module : P(m)
      BY <2>2
    <3> HIDE DEF P, Q
    <3>4. x \in roots <=> x \in Node /\ \E m \in Module : Q(m)
      BY <3>1, <3>2, <3>3
    <3> QED
      BY <3>4 DEF Q
  <2> QED
    BY <2>4
<1> HIDE DEF roots
<1>3. ASSUME NEW x \in roots
      PROVE  x \in Initializers
  BY <1>1, <1>2
<1>4. ASSUME NEW n \in Initializers, NEW x \in Inside(n)
      PROVE  x \in Initializers
  <2>1. x \in Node
    BY DEF Inside
  <2>2. \A S \in closed : x \in S
    BY <1>1
  <2> QED
    BY <1>1, <2>1, <2>2
<1>5. ASSUME NEW V \in SUBSET Node,
             \A m \in Module : \A j \in DOMAIN prog.mod[m].globals :
               prog.mod[m].globals[j].ini \in Node => prog.mod[m].globals[j].ini \in V,
             \A n \in V : Inside(n) \subseteq V
      PROVE  Initializers \subseteq V
  <2>1. roots \subseteq V
    BY <1>2, <1>5
  <2>2. V \in closed
    BY <1>5, <2>1
  <2> QED
    BY <1>1, <2>2
<1> QED
  BY <1>1, <1>2, <1>3, <1>4, <1>5, ZenonT(60)

(* The layout of the module does not matter, and the hashes stay.                   *)
LEMMA TablesUniform ==
  ASSUME Uniform, NEW m \in Module
  PROVE  /\ \A n : InitializerFuncs(n, m) = InitializerFuncs(n, 1)
         /\ \A code : /\ StoredFuncs(code, m) = StoredFuncs(code, 1)
                      /\ Escapes(code, m) = Escapes(code, 1)
                      /\ Transits(code, m) = Transits(code, 1)
<1>1. \A t : TypeHash(t, m) = TypeHash(t, 1)
  BY HashUniform
<1>2. \A t, x : TypeIdxHash(t, x, m) = TypeIdxHash(t, x, 1)
  BY <1>1 DEF TypeIdxHash
<1>3. \A p : LayerKey(p, m) = LayerKey(p, 1) /\ EscapeKey(p, m) = EscapeKey(p, 1)
  BY <1>1, <1>2 DEF LayerKey, EscapeKey
<1>4. \A n : InitializerFuncs(n, m) = InitializerFuncs(n, 1)
  BY <1>2 DEF InitializerFuncs
<1>5. \A code : StoredFuncs(code, m) = StoredFuncs(code, 1) /\ Escapes(code, m) = Escapes(code, 1)
  BY <1>3 DEF StoredFuncs, Escapes
<1>6. \A code : Transits(code, m) = Transits(code, 1)
  BY <1>1 DEF Transits
<1> QED
  BY <1>4, <1>5, <1>6

(* Operators that read only the program and the names do not change with the rest. *)
LEMMA TablesSame ==
  ASSUME UNCHANGED <<prog, nameVars>>
  PROVE  /\ \A n : InitializerFuncs(n, 1)' = InitializerFuncs(n, 1) /\ Inside(n)' = Inside(n)
         /\ \A S : Filed(S)' = Filed(S)
         /\ StoredFuncs(StatementsSeen, 1)' = StoredFuncs(StatementsSeen', 1)
         /\ Escapes(StatementsSeen, 1)' = Escapes(StatementsSeen', 1)
         /\ Transits(StatementsSeen, 1)' = Transits(StatementsSeen', 1)
         /\ Uniform' = Uniform
<1>1. \A t : TypeHash(t, 1)' = TypeHash(t, 1)
  BY DEF TypeHash, TypeName, Literal, nameVars
<1>2. \A t, x : TypeIdxHash(t, x, 1)' = TypeIdxHash(t, x, 1)
  BY <1>1 DEF TypeIdxHash
<1>3. \A p : LayerKey(p, 1)' = LayerKey(p, 1) /\ EscapeKey(p, 1)' = EscapeKey(p, 1)
  BY <1>1, <1>2 DEF LayerKey, EscapeKey
<1>4. \A n : InitializerFuncs(n, 1)' = InitializerFuncs(n, 1) /\ Inside(n)' = Inside(n)
  BY <1>2 DEF InitializerFuncs, Inside
<1>5. /\ StoredFuncs(StatementsSeen, 1)' = StoredFuncs(StatementsSeen', 1)
      /\ Escapes(StatementsSeen, 1)' = Escapes(StatementsSeen', 1)
  BY <1>3 DEF StoredFuncs, Escapes
<1>6. Transits(StatementsSeen, 1)' = Transits(StatementsSeen', 1)
  BY <1>1 DEF Transits
<1>7. Uniform' = Uniform
  BY DEF Uniform, Module
<1>8. \A S : Filed(S)' = Filed(S)
  BY <1>4 DEF Filed
<1> QED
  BY <1>4, <1>5, <1>6, <1>7, <1>8

(* The entries of two sets of statements are those of the one and of the other. *)
LEMMA TablesUnion ==
  \A A, B : /\ StoredFuncs(A \cup B, 1) = StoredFuncs(A, 1) \cup StoredFuncs(B, 1)
            /\ Escapes(A \cup B, 1) = Escapes(A, 1) \cup Escapes(B, 1)
            /\ Transits(A \cup B, 1) = Transits(A, 1) \cup Transits(B, 1)
<1> TAKE A, B
<1>1. StoredFuncs(A \cup B, 1) = StoredFuncs(A, 1) \cup StoredFuncs(B, 1)
  BY DEF StoredFuncs
<1>2. Escapes(A \cup B, 1) = Escapes(A, 1) \cup Escapes(B, 1)
  BY DEF Escapes
<1>3. Transits(A \cup B, 1) = Transits(A, 1) \cup Transits(B, 1)
  BY DEF Transits
<1> QED
  BY <1>1, <1>2, <1>3

(* A step that takes the initializers N and the code of one more function, if any.   *)
LEMMA TablesStep ==
  ASSUME TablesInv, UNCHANGED <<prog, nameVars>>, pc # "types", pc' # "types",
         NEW N \in SUBSET Initializers, NEW code,
         LU' \in Seq(Node), Range(LU') \subseteq Initializers, pc' # "nodes" => LU' = <<>>,
         Uniform => /\ typeFuncsMap' = typeFuncsMap \cup Filed(N) \cup StoredFuncs(code, 1)
                    /\ typeEscapeSet' = typeEscapeSet \cup Escapes(code, 1)
                    /\ typeTransitMap' = typeTransitMap \cup Transits(code, 1),
         StatementsSeen' = StatementsSeen \cup code,
         Roots' \subseteq Roots \cup Range(LU'),
         Range(LU) \subseteq N \cup Range(LU'),
         \A n \in N : Inside(n) \subseteq N \cup Range(LU')
  PROVE  TablesInv'
<1>1. Initializers' = Initializers /\ Uniform' = Uniform
  BY SameProgram, TablesSame
<1>2. ASSUME Uniform
      PROVE  /\ \E V \in SUBSET Node : Filled(V)'
             /\ typeEscapeSet' = Escapes(StatementsSeen', 1)
             /\ typeTransitMap' = Transits(StatementsSeen', 1)
  <2>1. PICK V \in SUBSET Node : Filled(V)
    BY <1>2 DEF TablesInv
  <2> DEFINE W == V \cup N
  <2>2. W \in SUBSET Node
    BY InitializersLeast
  <2>3. /\ W \subseteq Initializers
        /\ Roots' \subseteq W \cup Range(LU')
    BY <2>1 DEF Filled
  <2>4. \A n \in W : Inside(n) \subseteq W \cup Range(LU')
    BY <2>1 DEF Filled
  <2>5. /\ StoredFuncs(StatementsSeen', 1) = StoredFuncs(StatementsSeen, 1) \cup StoredFuncs(code, 1)
        /\ Escapes(StatementsSeen', 1) = Escapes(StatementsSeen, 1) \cup Escapes(code, 1)
        /\ Transits(StatementsSeen', 1) = Transits(StatementsSeen, 1) \cup Transits(code, 1)
    BY TablesUnion
  <2>6. typeFuncsMap = Filed(V) \cup StoredFuncs(StatementsSeen, 1)
    BY <2>1 DEF Filled
  <2>7. Filed(W) = Filed(V) \cup Filed(N)
    BY FiledUnion
  <2> HIDE DEF W
  <2>8. typeFuncsMap' = Filed(W) \cup StoredFuncs(StatementsSeen', 1)
    BY <1>2, <2>5, <2>6, <2>7
  <2>9. StoredFuncs(StatementsSeen, 1)' = StoredFuncs(StatementsSeen', 1)
    BY TablesSame
  <2>10. Filed(W)' = Filed(W)
    BY TablesSame
  <2>11. typeFuncsMap' = Filed(W)' \cup StoredFuncs(StatementsSeen, 1)'
    BY <2>8, <2>9, <2>10
  <2>12. \A n \in W : Inside(n)' \subseteq W \cup Range(LU')
    BY <2>4, TablesSame
  <2>13. Range(LU)' = Range(LU')
    BY DEF Range
  <2>14. Filled(W)'
    BY <1>1, <2>3, <2>11, <2>12, <2>13 DEF Filled
  <2>15. typeEscapeSet' = Escapes(StatementsSeen', 1) /\ typeTransitMap' = Transits(StatementsSeen', 1)
    BY <1>2, <2>5 DEF TablesInv
  <2> QED
    BY <2>2, <2>14, <2>15
<1>3. Range(LU)' = Range(LU')
  BY DEF Range
<1> QED
  BY <1>1, <1>2, <1>3, TablesSame DEF TablesInv

(* A step that visits nothing new leaves the tables what they should be.      *)
LEMMA TablesStay ==
  ASSUME TablesInv, UNCHANGED <<prog, nameVars, tableVars, LU>>, pc # "types", pc' # "types",
         pc' # "nodes" => LU = <<>>, Seen' = Seen, Roots' \subseteq Roots
  PROVE  TablesInv'
<1>1. StatementsSeen' = StatementsSeen \cup {}
  BY DEF StatementsSeen
<1>2. Range(LU') = Range(LU) /\ LU' \in Seq(Node) /\ Range(LU') \subseteq Initializers
  BY DEF TablesInv
<1>3. /\ typeFuncsMap' = typeFuncsMap \cup Filed({}) \cup StoredFuncs({}, 1)
      /\ typeEscapeSet' = typeEscapeSet \cup Escapes({}, 1)
      /\ typeTransitMap' = typeTransitMap \cup Transits({}, 1)
  <2>1. StoredFuncs({}, 1) = {} /\ Escapes({}, 1) = {} /\ Transits({}, 1) = {}
    BY DEF StoredFuncs, Escapes, Transits
  <2> QED
    BY <2>1, FiledNone DEF tableVars
<1>4. {} \in SUBSET Initializers /\ \A n \in {} : Inside(n) \subseteq {} \cup Range(LU')
  OBVIOUS
<1> QED
  BY <1>1, <1>2, <1>3, <1>4, TablesStep

(* The roots still to come only shrink when no global is visited again.       *)
LEMMA RootsMember ==
  ASSUME prog' = prog,
         \A m \in Module : \A j \in DOMAIN prog.mod[m].globals : RootSeen(m, j)' => RootSeen(m, j)
  PROVE  Roots' \subseteq Roots
<1>1. Module' = Module
  BY DEF Module
<1> QED
  BY <1>1 DEF Roots

(* The numbers of a module and of a global in it are in their ranges.         *)
LEMMA GlobalPosition ==
  ASSUME prog \in Programs, NEW m \in Module, NEW j \in DOMAIN prog.mod[m].globals
  PROVE  m \in Nat /\ 1 <= m /\ m <= LastModule /\ j \in Nat /\ 1 <= j /\ j <= Len(prog.mod[m].globals)
<1>1. m \in Nat /\ 1 <= m /\ m <= LastModule
  BY ProgFacts
<1>2. Len(prog.mod[m].globals) \in Nat /\ DOMAIN prog.mod[m].globals = 1 .. Len(prog.mod[m].globals)
  BY NameFacts
<1> QED
  BY <1>1, <1>2

(* The end of a loop over a part of a module.                                    *)
LEMMA EndsTables ==
  ASSUME IInv, TablesInv, EndInitializer \/ EndGlobals \/ EndFunctions \/ EndCalls
  PROVE  TablesInv'
<1>1. /\ ControlOK /\ prog \in Programs /\ LastModule \in Nat /\ i \in Nat \ {0} /\ k \in Nat \ {0} /\ i \in Module
      /\ Moves
  BY ProgFacts DEF IInv, ControlOK, Moves, EndInitializer, EndGlobals, EndFunctions, EndCalls, NextModule
<1>2. UNCHANGED <<prog, nameVars, tableVars, LU>> /\ pc # "types" /\ pc' # "types" /\ pc' # "nodes" /\ LU = <<>>
  BY DEF TablesInv, EndInitializer, EndGlobals, EndFunctions, EndCalls, NextModule
<1>3. Seen' = Seen
  BY <1>1, MovesSeen
<1>4. ASSUME NEW m \in Module, NEW j \in DOMAIN prog.mod[m].globals, RootSeen(m, j)'
      PROVE  RootSeen(m, j)
  <2>1. m \in Nat /\ 1 <= m /\ m <= LastModule /\ j \in Nat /\ 1 <= j /\ j <= Len(prog.mod[m].globals)
    BY <1>1, GlobalPosition
  <2>2. CASE EndInitializer
    <3>1. pc = "nodes" /\ pc' = "globals" /\ k' = k + 1 /\ i' = i
      BY <2>2 DEF EndInitializer
    <3> QED
      BY <1>1, <1>4, <2>1, <3>1 DEF RootSeen, Before
  <2>3. CASE EndGlobals
    <3>1. pc = "globals" /\ pc' = "funs" /\ k > Len(prog.mod[i].globals) /\ i' = i
      BY <2>3 DEF EndGlobals
    <3>2. Len(prog.mod[i].globals) \in Nat
      BY <1>1, NameFacts
    <3>3. m <= i
      BY <1>4, <3>1 DEF RootSeen
    <3>4. m = i => j < k
      BY <1>1, <2>1, <3>1, <3>2
    <3>5. Before(m, j)
      BY <1>1, <2>1, <3>3, <3>4 DEF Before
    <3> QED
      BY <3>1, <3>5 DEF RootSeen
  <2>4. CASE EndFunctions
    <3>1. /\ pc = "funs" /\ k' = 1
          /\ \/ i < LastModule /\ pc' = "globals" /\ i' = i + 1
             \/ ~(i < LastModule) /\ pc' = "calls"
      BY <2>4 DEF EndFunctions, NextModule
    <3> QED
      BY <1>1, <1>4, <2>1, <3>1 DEF RootSeen, Before
  <2>5. CASE EndCalls
    <3>1. pc = "calls"
      BY <2>5 DEF EndCalls
    <3> QED
      BY <3>1 DEF RootSeen
  <2> QED
    BY <2>2, <2>3, <2>4, <2>5
<1>5. Roots' \subseteq Roots
  BY <1>2, <1>4, RootsMember
<1> QED
  BY <1>2, <1>3, <1>5, TablesStay

(* Once the tables are filled.                                                  *)
CallPhase == {"calls", "layers", "transits", "done"}

(* A step of the pass over the calls leaves the tables alone.                 *)
LEMMA CallsTables ==
  ASSUME IInv, TablesInv, pc \in CallPhase, pc' \in CallPhase, UNCHANGED <<prog, nameVars, tableVars, LU>>
  PROVE  TablesInv'
<1>1. pc # "types" /\ pc # "nodes" /\ pc' # "types" /\ pc' # "nodes" /\ LU = <<>>
  BY DEF TablesInv, CallPhase
<1>2. Seen' = Seen
  <2>1. \A m, j : FunSeen(m, j) /\ FunSeen(m, j)'
    BY DEF FunSeen, CallPhase
  <2> QED
    BY <2>1 DEF Seen, Module
<1>3. \A m, j : RootSeen(m, j)
  BY DEF RootSeen, CallPhase
<1>4. Roots' \subseteq Roots
  BY <1>3, RootsMember
<1> QED
  BY <1>1, <1>2, <1>4, TablesStay

(* The tables are still empty.                                                   *)
LEMMA TypesTables ==
  ASSUME IInv, TablesInv, TypesOfModule \/ BuildStructs
  PROVE  TablesInv'
<1>1. /\ ControlOK /\ prog \in Programs /\ Moves /\ pc = "types"
      /\ UNCHANGED <<prog, tableVars, LU>>
  BY DEF IInv, ControlOK, Moves, TypesOfModule, BuildStructs
<1>2. /\ LU = <<>> /\ k = 1 /\ typeFuncsMap = {} /\ typeEscapeSet = {} /\ typeTransitMap = {}
  BY <1>1 DEF TablesInv
<1>3. /\ LU' = <<>> /\ typeFuncsMap' = {} /\ typeEscapeSet' = {} /\ typeTransitMap' = {}
      /\ <<>> \in Seq(Node) /\ Range(LU') = {}
  BY <1>1, <1>2 DEF tableVars, Range
<1>4. CASE TypesOfModule
  <2>1. pc' = "types" /\ k' = k
    BY <1>4 DEF TypesOfModule
  <2>2. Range(LU)' = Range(LU')
    BY DEF Range
  <2> QED
    BY <1>2, <1>3, <2>1, <2>2 DEF TablesInv
<1>5. CASE BuildStructs
  <2>1. /\ i' = 1 /\ k' = k
        /\ \/ LastModule = 0 /\ pc' = "done"
           \/ LastModule # 0 /\ pc' = "globals"
    BY <1>5 DEF BuildStructs
  <2>2. Roots' = {}
    <3>1. ASSUME NEW m \in Module, NEW j \in DOMAIN prog.mod[m].globals
          PROVE  ~RootSeen(m, j)'
      <4>1. m \in Nat /\ 1 <= m /\ m <= LastModule /\ j \in Nat /\ 1 <= j
        BY <1>1, GlobalPosition
      <4>2. pc' = "globals" /\ i' = 1 /\ k' = 1
        BY <1>1, <1>2, <2>1, <4>1, ProgFacts
      <4> QED
        BY <4>1, <4>2 DEF RootSeen, Before
    <3> QED
      BY <1>1, <3>1 DEF Roots, Module
  <2>3. StatementsSeen' = {}
    <3>1. Seen' = Seen
      BY <1>1, MovesSeen
    <3>2. Seen = {}
      BY <1>1 DEF Seen, FunSeen
    <3> QED
      BY <3>1, <3>2 DEF StatementsSeen
  <2>4. pc' # "types" /\ pc' # "nodes" /\ Range(LU)' = {}
    BY <1>3, <2>1 DEF Range
  <2>5. StoredFuncs(StatementsSeen, 1)' = {} /\ Escapes(StatementsSeen, 1)' = {} /\ Transits(StatementsSeen, 1)' = {}
    BY <2>3 DEF StoredFuncs, Escapes, Transits
  <2>8. Filed({})' = {}
    BY DEF Filed
  <2>6. Filled({})'
    BY <1>3, <2>2, <2>4, <2>5, <2>8 DEF Filled
  <2>7. {} \in SUBSET Node
    OBVIOUS
  <2> QED
    BY <1>3, <2>4, <2>5, <2>6, <2>7 DEF TablesInv
<1> QED
  BY <1>1, <1>4, <1>5

(* The worklist of an initializer.                                              *)
LEMMA GlobalTables == IInv /\ TablesInv /\ GlobalVariable => TablesInv'
<1> SUFFICES ASSUME IInv, TablesInv, GlobalVariable PROVE TablesInv'
  OBVIOUS
<1> DEFINE n == prog.mod[i].globals[k].ini
<1>1. /\ ControlOK /\ prog \in Programs /\ i \in Module /\ i \in Nat \ {0} /\ k \in Nat \ {0} /\ Moves
      /\ pc = "globals" /\ pc' = "nodes" /\ k <= Len(prog.mod[i].globals) /\ LU = <<>>
      /\ UNCHANGED <<prog, nameVars, tableVars, i, k>>
      /\ LU' = IF n = NoNode THEN <<>> ELSE <<n>>
  BY ProgFacts DEF IInv, ControlOK, Moves, GlobalVariable, StartInitializer, TablesInv
<1>2. k \in DOMAIN prog.mod[i].globals /\ n \in Node \cup {NoNode}
  BY <1>1, NameFacts
<1> HIDE DEF n
<1>3. LU' \in Seq(Node) /\ Range(LU') = {n} \cap Node
  <2>1. CASE n = NoNode
    <3>1. LU' = <<>> /\ <<>> \in Seq(Node) /\ Range(<<>>) = {}
      BY <1>1, <2>1 DEF Range
    <3> QED
      BY <2>1, <3>1, NullAssumption
  <2>2. CASE n # NoNode
    <3>1. n \in Node /\ LU' = <<n>>
      BY <1>1, <1>2, <2>2
    <3>2. <<n>> \in Seq(Node) /\ Range(<<n>>) = {n}
      BY <3>1 DEF Range
    <3> QED
      BY <3>1, <3>2
  <2> QED
    BY <2>1, <2>2
<1>4. Range(LU') \subseteq Initializers
  <2>1. n \in Node => n \in Initializers
    BY <1>1, <1>2, InitializersLeast DEF n
  <2> QED
    BY <1>3, <2>1
<1>5. Roots' \subseteq Roots \cup Range(LU')
  <2>1. ASSUME NEW m \in Module, NEW j \in DOMAIN prog.mod[m].globals, RootSeen(m, j)'
        PROVE  RootSeen(m, j) \/ (m = i /\ j = k)
    BY <1>1, <2>1 DEF RootSeen, Before
  <2>2. Module' = Module
    BY <1>1 DEF Module
  <2>3. ASSUME NEW x \in Roots'
        PROVE  x \in Roots \cup Range(LU')
    <3>1. x \in Node /\ \E m \in Module : \E j \in DOMAIN prog.mod[m].globals :
                          RootSeen(m, j)' /\ prog.mod[m].globals[j].ini = x
      BY <1>1, <2>2 DEF Roots
    <3>2. PICK m \in Module : \E j \in DOMAIN prog.mod[m].globals :
                          RootSeen(m, j)' /\ prog.mod[m].globals[j].ini = x
      BY <3>1
    <3>3. PICK j \in DOMAIN prog.mod[m].globals : RootSeen(m, j)' /\ prog.mod[m].globals[j].ini = x
      BY <3>2
    <3>4. CASE RootSeen(m, j)
      BY <3>1, <3>3, <3>4 DEF Roots
    <3>5. CASE m = i /\ j = k
      BY <1>3, <3>1, <3>3, <3>5 DEF n
    <3> QED
      BY <2>1, <3>3, <3>4, <3>5
  <2> QED
    BY <2>3
<1>6. StatementsSeen' = StatementsSeen \cup {}
  BY <1>1, MovesSeen DEF StatementsSeen
<1>7. /\ typeFuncsMap' = typeFuncsMap \cup Filed({}) \cup StoredFuncs({}, 1)
      /\ typeEscapeSet' = typeEscapeSet \cup Escapes({}, 1)
      /\ typeTransitMap' = typeTransitMap \cup Transits({}, 1)
  <2>1. StoredFuncs({}, 1) = {} /\ Escapes({}, 1) = {} /\ Transits({}, 1) = {}
    BY DEF StoredFuncs, Escapes, Transits
  <2> QED
    BY <1>1, <2>1, FiledNone DEF tableVars
<1>8. Range(LU) \subseteq {} \cup Range(LU')
  BY <1>1 DEF Range
<1>9. {} \in SUBSET Initializers /\ \A x \in {} : Inside(x) \subseteq {} \cup Range(LU')
  OBVIOUS
<1> QED
  BY <1>1, <1>3, <1>4, <1>5, <1>6, <1>7, <1>8, <1>9, TablesStep

(* Taking an aggregate from the worklist files it and adds the aggregates inside. *)
LEMMA NodeTables == IInv /\ TablesInv /\ InitializerNode => TablesInv'
<1> SUFFICES ASSUME IInv, TablesInv, InitializerNode PROVE TablesInv'
  OBVIOUS
<1> DEFINE n == Head(LU)
           N == {n}
<1>1. /\ ControlOK /\ prog \in Programs /\ i \in Module /\ Moves
      /\ pc = "nodes" /\ pc' = "nodes" /\ LU \in Seq(Node) /\ LU # <<>> /\ Range(LU) \subseteq Initializers
      /\ UNCHANGED <<prog, nameVars, i, k, typeTransitMap, typeEscapeSet>>
      /\ typeFuncsMap' = typeFuncsMap \cup InitializerFuncs(n, i)
      /\ LU' = Tail(LU) \o Nested(n)
  BY ProgFacts DEF IInv, ControlOK, Moves, InitializerNode, VisitInitializer, TablesInv, control
<1>2. n \in Node /\ Tail(LU) \in Seq(Node) /\ Range(LU) = {n} \cup Range(Tail(LU))
  <2>1. /\ n \in Node /\ Tail(LU) \in Seq(Node)
        /\ n = LU[1] /\ Len(LU) \in Nat \ {0} /\ Len(Tail(LU)) = Len(LU) - 1
        /\ \A j \in 1 .. Len(Tail(LU)) : Tail(LU)[j] = LU[j + 1]
    BY <1>1, HeadTailProperties, EmptySeq
  <2>2. /\ Range(LU) = {LU[j] : j \in 1 .. Len(LU)}
        /\ Range(Tail(LU)) = {Tail(LU)[j] : j \in 1 .. Len(Tail(LU))}
    BY <1>1, <2>1, RangeEquality, ZenonT(60)
  <2> HIDE DEF n
  <2>3. ASSUME NEW x \in Range(LU)
        PROVE  x \in {n} \cup Range(Tail(LU))
    <3>1. PICK j \in 1 .. Len(LU) : x = LU[j]
      BY <2>2
    <3>2. CASE j = 1
      BY <2>1, <3>1, <3>2
    <3>3. CASE j # 1
      <4>1. j - 1 \in 1 .. Len(Tail(LU)) /\ (j - 1) + 1 = j
        BY <2>1, <3>3
      <4>2. Tail(LU)[j - 1] = x
        BY <2>1, <3>1, <4>1
      <4> QED
        BY <2>2, <4>1, <4>2
    <3> QED
      BY <3>2, <3>3
  <2>4. ASSUME NEW x \in Range(Tail(LU))
        PROVE  x \in Range(LU)
    <3>1. PICK j \in 1 .. Len(Tail(LU)) : x = Tail(LU)[j]
      BY <2>2
    <3>2. j + 1 \in 1 .. Len(LU) /\ x = LU[j + 1]
      BY <2>1, <3>1
    <3> QED
      BY <2>2, <3>2
  <2>5. n \in Range(LU)
    BY <2>1, <2>2
  <2> QED
    BY <2>1, <2>3, <2>4, <2>5
<1>3. Nested(n) \in Seq(Node) /\ Range(Nested(n)) = Inside(n)
  BY <1>1, <1>2, NestedInside
<1> HIDE DEF n
<1>4. LU' \in Seq(Node) /\ Range(LU') = Range(Tail(LU)) \cup Inside(n)
  <2> DEFINE t == Tail(LU)
             d == Nested(n)
  <2> HIDE DEF t, d
  <2>1. t \in Seq(Node) /\ d \in Seq(Node) /\ LU' = t \o d
    BY <1>1, <1>2, <1>3 DEF t, d
  <2>2. t \o d \in Seq(Node) /\ Range(t \o d) = Range(t) \cup Range(d)
    BY <2>1, ConcatProperties, RangeConcatenation
  <2> QED
    BY <1>3, <2>1, <2>2 DEF t, d
<1>5. n \in Initializers /\ Inside(n) \subseteq Initializers
  BY <1>1, <1>2, InitializersLeast
<1>6. Range(LU') \subseteq Initializers /\ Range(LU) \subseteq N \cup Range(LU')
  BY <1>1, <1>2, <1>4, <1>5
<1>7. \A x \in N : Inside(x) \subseteq N \cup Range(LU')
  BY <1>4
<1>8. StatementsSeen' = StatementsSeen \cup {}
  BY <1>1, MovesSeen DEF StatementsSeen
<1>9. Uniform => /\ typeFuncsMap' = typeFuncsMap \cup Filed(N) \cup StoredFuncs({}, 1)
                 /\ typeEscapeSet' = typeEscapeSet \cup Escapes({}, 1)
                 /\ typeTransitMap' = typeTransitMap \cup Transits({}, 1)
  <2>1. StoredFuncs({}, 1) = {} /\ Escapes({}, 1) = {} /\ Transits({}, 1) = {}
    BY DEF StoredFuncs, Escapes, Transits
  <2>2. Uniform => InitializerFuncs(n, i) = InitializerFuncs(n, 1)
    BY <1>1, TablesUniform
  <2>3. Filed(N) = InitializerFuncs(n, 1)
    BY FiledOne
  <2> QED
    BY <1>1, <2>1, <2>2, <2>3
<1>10. Roots' \subseteq Roots \cup Range(LU')
  <2>1. \A m \in Module : \A j \in DOMAIN prog.mod[m].globals : RootSeen(m, j)' => RootSeen(m, j)
    BY <1>1 DEF RootSeen, Before
  <2> QED
    BY <1>1, <2>1, RootsMember
<1>11. N \in SUBSET Initializers
  BY <1>5
<1> HIDE DEF N
<1> QED
  BY <1>1, <1>4, <1>6, <1>7, <1>8, <1>9, <1>10, <1>11, TablesStep

(* The code of a function.                                                      *)
LEMMA FunctionTables == IInv /\ TablesInv /\ FunctionDefinition => TablesInv'
<1> SUFFICES ASSUME IInv, TablesInv, FunctionDefinition PROVE TablesInv'
  OBVIOUS
<1> DEFINE f == prog.mod[i].funs[k]
           code == prog.fn[f].code
<1>1. /\ ControlOK /\ prog \in Programs /\ i \in Module /\ i \in Nat /\ k \in Nat
      /\ pc = "funs" /\ pc' = "funs" /\ LU = <<>> /\ i' = i /\ k' = k + 1
      /\ UNCHANGED <<prog, nameVars>>
      /\ ConfineCode(code, i)
  BY ProgFacts, Zenon DEF IInv, ControlOK, FunctionDefinition, TablesInv
<1> HIDE DEF code
<1>2. /\ typeFuncsMap' = typeFuncsMap \cup StoredFuncs(code, i)
      /\ typeEscapeSet' = typeEscapeSet \cup Escapes(code, i)
      /\ typeTransitMap' = typeTransitMap \cup Transits(code, i)
      /\ LU' = LU
  BY <1>1 DEF ConfineCode
<1>3. Seen' = Seen \cup {f}
  BY <1>1, FunctionSeen
<1>4. StatementsSeen' = StatementsSeen \cup code
  <2> HIDE DEF f
  <2>1. StatementsSeen' = UNION {prog.fn[g].code : g \in Seen'}
    BY <1>1 DEF StatementsSeen
  <2> QED
    BY <1>3, <2>1, ZenonT(60) DEF StatementsSeen, code
<1>5. /\ LU' \in Seq(Node) /\ Range(LU') = {} /\ Range(LU) = {}
  BY <1>1, <1>2 DEF Range, TablesInv
<1>6. Uniform => /\ typeFuncsMap' = typeFuncsMap \cup Filed({}) \cup StoredFuncs(code, 1)
                 /\ typeEscapeSet' = typeEscapeSet \cup Escapes(code, 1)
                 /\ typeTransitMap' = typeTransitMap \cup Transits(code, 1)
  <2>1. Uniform => /\ StoredFuncs(code, i) = StoredFuncs(code, 1) /\ Escapes(code, i) = Escapes(code, 1)
                   /\ Transits(code, i) = Transits(code, 1)
    BY <1>1, TablesUniform
  <2>2. Filed({}) = {}
    BY FiledNone
  <2> SUFFICES ASSUME Uniform
               PROVE  /\ typeFuncsMap' = typeFuncsMap \cup Filed({}) \cup StoredFuncs(code, 1)
                      /\ typeEscapeSet' = typeEscapeSet \cup Escapes(code, 1)
                      /\ typeTransitMap' = typeTransitMap \cup Transits(code, 1)
    OBVIOUS
  <2>3. /\ typeFuncsMap' = typeFuncsMap \cup StoredFuncs(code, 1)
        /\ typeEscapeSet' = typeEscapeSet \cup Escapes(code, 1)
        /\ typeTransitMap' = typeTransitMap \cup Transits(code, 1)
    BY <1>2, <2>1
  <2> QED
    BY <2>2, <2>3
<1>7. Roots' \subseteq Roots \cup Range(LU')
  <2>1. \A m \in Module : \A j \in DOMAIN prog.mod[m].globals : RootSeen(m, j)' => RootSeen(m, j)
    BY <1>1 DEF RootSeen
  <2> QED
    BY <1>1, <2>1, RootsMember
<1>8. {} \in SUBSET Initializers /\ \A x \in {} : Inside(x) \subseteq {} \cup Range(LU')
  OBVIOUS
<1> QED
  BY <1>1, <1>2, <1>4, <1>5, <1>6, <1>7, <1>8, TablesStep, Zenon

-----------------------------------------------------------------------------
(* What the full tables answer about one field.                                   *)

(* The fields are integers.                                                     *)
LEMMA LayerIdxInt ==
  ASSUME NEW ptr \in Seq(Link), HasLayer(ptr)
  PROVE  LayerIdx(ptr) \in Int
<1>1. Geps(ptr) # {} /\ Geps(ptr) \subseteq 1 .. Len(ptr) /\ Len(ptr) \in Nat
  BY LenProperties DEF HasLayer, Geps
<1>2. Geps(ptr) \in SUBSET Nat
  BY <1>1
<1>3. PICK g \in Geps(ptr) : \A h \in Geps(ptr) : g <= h
  BY <1>1, <1>2, NatMin
<1>4. Min(Geps(ptr)) \in Geps(ptr)
  BY <1>3 DEF Min
<1>5. NextGep(ptr) \in Link /\ NextGep(ptr).kind = "gep"
  BY <1>1, <1>4, ElementOfSeq DEF NextGep, Geps
<1>6. NextGep(ptr).path \in Seq(Int) /\ NextGep(ptr).path # <<>>
  BY <1>5 DEF Link
<1> DEFINE path == NextGep(ptr).path
<1> HIDE DEF path
<1>7. path \in Seq(Int) /\ path # <<>>
  BY <1>6 DEF path
<1>8. Len(path) \in 1 .. Len(path)
  BY <1>7, LenProperties, EmptySeq
<1>9. path[Len(path)] \in Int
  BY <1>7, <1>8, ElementOfSeq
<1> QED
  BY <1>9 DEF LayerIdx, path

(* A value with no link has no layer.                                         *)
LEMMA NoLayer == ~HasLayer(<<>>)
  BY DEF HasLayer, Geps

(* All has been seen.                                                           *)
LEMMA AllSeen ==
  ASSUME ControlOK, TablesInv, Uniform, pc \in {"layers", "transits"}
  PROVE  /\ Seen = Definitions /\ StatementsSeen = Statements /\ LastModule \in Module
         /\ typeFuncsMap = Filed(Initializers) \cup StoredFuncs(Statements, 1)
         /\ typeEscapeSet = Escapes(Statements, 1) /\ typeTransitMap = Transits(Statements, 1)
<1>1. prog \in Programs /\ LU = <<>> /\ i \in Module
  BY DEF ControlOK, TablesInv
<1>2. Seen = Definitions
  <2>1. \A m, j : FunSeen(m, j)
    BY DEF FunSeen
  <2> QED
    BY <1>1, <2>1, DefinitionFacts DEF Seen
<1>3. StatementsSeen = Statements
  BY <1>2 DEF StatementsSeen, Statements
<1>4. LastModule \in Module
  <2>1. LastModule \in Nat /\ Module = 1 .. LastModule
    BY <1>1, ProgFacts
  <2> QED
    BY <1>1, <2>1
<1>5. PICK V \in SUBSET Node : Filled(V)
  BY DEF TablesInv
<1>6. Range(LU) = {}
  BY <1>1 DEF Range
<1>7. \A m \in Module : \A j \in DOMAIN prog.mod[m].globals :
        prog.mod[m].globals[j].ini \in Node => prog.mod[m].globals[j].ini \in V
  <2>1. \A m, j : RootSeen(m, j)
    BY DEF RootSeen
  <2>2. Roots \subseteq V
    BY <1>5, <1>6 DEF Filled
  <2> QED
    BY <2>1, <2>2 DEF Roots
<1>8. \A n \in V : Inside(n) \subseteq V
  BY <1>5, <1>6 DEF Filled
<1>9. V = Initializers
  <2>1. Initializers \subseteq V
    BY <1>7, <1>8, InitializersLeast
  <2>2. V \subseteq Initializers
    BY <1>5 DEF Filled
  <2> QED
    BY <2>1, <2>2
<1>10. typeFuncsMap = Filed(V) \cup StoredFuncs(StatementsSeen, 1)
  BY <1>5 DEF Filled
<1>11. typeEscapeSet = Escapes(StatementsSeen, 1) /\ typeTransitMap = Transits(StatementsSeen, 1)
  BY DEF TablesInv
<1> QED
  BY <1>2, <1>3, <1>4, <1>9, <1>10, <1>11

(* Of the functions of a signature, the table has those that are placed in the field. *)
LEMMA PlacedAnswer ==
  ASSUME ControlOK, NamesInv, pc # "types", NEW t, NEW idx \in Int, NEW sig,
         typeFuncsMap = Filed(Initializers) \cup StoredFuncs(Statements, 1)
  PROVE  Typed(sig) \cap At(typeFuncsMap, TypeIdxHash(t, idx, 1)) = Typed(sig) \cap Placed(t, idx)
<1> DEFINE key == TypeIdxHash(t, idx, 1)
           ops(n) == prog.node[n].ops
<1>1. prog \in Programs /\ Typed(sig) \subseteq Fun
  BY DefinitionFacts DEF ControlOK, Typed
<1>2. \A x : x \in At(typeFuncsMap, key) <=> \E e \in typeFuncsMap : e[1] = key /\ e[2] = x
  BY ONLY AtIs
<1>3. \A u, y : TypeIdxHash(u, y, 1) = key <=> Same(u, t) /\ y = idx
  BY KeySame
<1>4. \A n \in Initializers : \A j \in DOMAIN ops(n) : j \in Int
  <2>1. ASSUME NEW n \in Initializers
        PROVE  DOMAIN ops(n) \subseteq Int
    <3>1. n \in Node
      BY InitializersLeast
    <3>2. ops(n) \in Seq(Fun \cup Node \cup {"other"})
      BY <1>1, <3>1, ProgramsAssumption
    <3> QED
      BY <3>2, LenProperties
  <2> QED
    BY <2>1
<1>5. \A e : e \in typeFuncsMap <=>
        \/ \E n \in Initializers : \E j \in DOMAIN ops(n) :
             ops(n)[j] \in Fun /\ e = <<TypeIdxHash(prog.node[n].type, j - 1, 1), ops(n)[j]>>
        \/ \E s \in Statements : Stores(s, "storeFunction") /\ e = <<LayerKey(s.to, 1), s.value>>
  <2>1. \A e : e \in StoredFuncs(Statements, 1) <=>
          \E s \in Statements : Stores(s, "storeFunction") /\ e = <<LayerKey(s.to, 1), s.value>>
    BY DEF StoredFuncs
  <2>2. \A n, e : e \in InitializerFuncs(n, 1) <=>
          \E j \in DOMAIN ops(n) : ops(n)[j] \in Fun /\ e = <<TypeIdxHash(prog.node[n].type, j - 1, 1), ops(n)[j]>>
    BY DEF InitializerFuncs
  <2>3. \A e : e \in Filed(Initializers) <=>
          \E n \in Initializers : e \in InitializerFuncs(n, 1)
    BY FiledMember
  <2>4. \A e : e \in typeFuncsMap <=> e \in Filed(Initializers) \/ e \in StoredFuncs(Statements, 1)
    OBVIOUS
  <2> HIDE DEF ops
  <2>5. ASSUME NEW e
        PROVE  e \in Filed(Initializers) <=>
                 \E n \in Initializers : \E j \in DOMAIN ops(n) :
                   ops(n)[j] \in Fun /\ e = <<TypeIdxHash(prog.node[n].type, j - 1, 1), ops(n)[j]>>
    BY <2>2, <2>3
  <2> QED
    BY <2>1, <2>4, <2>5
<1>6. \A x : x \in Placed(t, idx) <=>
        \/ \E s \in Statements : s.kind = "storeFunction" /\ Field(s.to, t, idx) /\ x = s.value
        \/ \E n \in Initializers : Same(prog.node[n].type, t) /\ idx + 1 \in DOMAIN ops(n) /\ x = ops(n)[idx + 1]
  BY DEF Placed
<1>7. \A s : Stores(s, "storeFunction") /\ LayerKey(s.to, 1) = key <=> s.kind = "storeFunction" /\ Field(s.to, t, idx)
  BY <1>3 DEF Stores, LayerKey, Field
<1> HIDE DEF key, ops
<1>8. ASSUME NEW x \in Fun, x \in At(typeFuncsMap, key)
      PROVE  x \in Placed(t, idx)
  <2> PICK e \in typeFuncsMap : e[1] = key /\ e[2] = x
    BY <1>2, <1>8
  <2>1. ASSUME NEW n \in Initializers, NEW j \in DOMAIN ops(n),
               e = <<TypeIdxHash(prog.node[n].type, j - 1, 1), ops(n)[j]>>
        PROVE  x \in Placed(t, idx)
    <3>1. TypeIdxHash(prog.node[n].type, j - 1, 1) = key /\ x = ops(n)[j]
      BY <2>1
    <3>2. Same(prog.node[n].type, t) /\ j - 1 = idx
      BY <1>3, <3>1
    <3>3. idx + 1 = j
      BY <1>4, <3>2
    <3> QED
      BY <1>6, <3>1, <3>2, <3>3
  <2>2. ASSUME NEW s \in Statements, Stores(s, "storeFunction"), e = <<LayerKey(s.to, 1), s.value>>
        PROVE  x \in Placed(t, idx)
    <3>1. LayerKey(s.to, 1) = key /\ x = s.value
      BY <2>2
    <3> QED
      BY <1>6, <1>7, <2>2, <3>1
  <2> QED
    BY <1>5, <2>1, <2>2
<1>9. ASSUME NEW x \in Fun, x \in Placed(t, idx)
      PROVE  x \in At(typeFuncsMap, key)
  <2>1. ASSUME NEW s \in Statements, s.kind = "storeFunction", Field(s.to, t, idx), x = s.value
        PROVE  x \in At(typeFuncsMap, key)
    <3>1. Stores(s, "storeFunction") /\ LayerKey(s.to, 1) = key
      BY <1>7, <2>1
    <3>2. <<key, x>> \in typeFuncsMap
      BY <1>5, <2>1, <3>1
    <3> QED
      BY <1>2, <3>2
  <2>2. ASSUME NEW n \in Initializers, Same(prog.node[n].type, t), idx + 1 \in DOMAIN ops(n), x = ops(n)[idx + 1]
        PROVE  x \in At(typeFuncsMap, key)
    <3>1. (idx + 1) - 1 = idx
      OBVIOUS
    <3>2. TypeIdxHash(prog.node[n].type, (idx + 1) - 1, 1) = key
      BY <1>3, <2>2, <3>1
    <3>3. <<TypeIdxHash(prog.node[n].type, (idx + 1) - 1, 1), ops(n)[idx + 1]>> \in typeFuncsMap
      BY <1>5, <2>2
    <3>4. <<key, x>> \in typeFuncsMap
      BY <2>2, <3>2, <3>3
    <3> QED
      BY <1>2, <3>4
  <2> QED
    BY <1>6, <1>9, <2>1, <2>2
<1>10. Typed(sig) \cap At(typeFuncsMap, key) = Typed(sig) \cap Placed(t, idx)
  BY <1>1, <1>8, <1>9
<1> QED
  BY <1>10 DEF key

(* What the three tables say of a field when all modules were visited.        *)
LEMMA FieldAnswer ==
  ASSUME ControlOK, NamesInv, TablesInv, Uniform, pc \in {"layers", "transits"},
         NEW ptr \in Seq(Link), HasLayer(ptr), NEW sig
  PROVE  LET t == LayerTy(ptr)
             idx == LayerIdx(ptr) IN
         /\ Typed(sig) \cap At(typeFuncsMap, LayerKey(ptr, LastModule)) = Typed(sig) \cap Placed(t, idx)
         /\ {TypeHash(t, LastModule), LayerKey(ptr, LastModule)} \cap typeEscapeSet # {} <=> Unknown(t, idx)
         /\ ~CastInto(t) => At(typeTransitMap, TypeHash(t, LastModule)) = {}
<1> DEFINE t == LayerTy(ptr)
           idx == LayerIdx(ptr)
<1>1. /\ LastModule \in Module
      /\ typeFuncsMap = Filed(Initializers) \cup StoredFuncs(Statements, 1)
      /\ typeEscapeSet = Escapes(Statements, 1) /\ typeTransitMap = Transits(Statements, 1)
  BY AllSeen
<1>2. TypeHash(t, LastModule) = TypeHash(t, 1)
  BY <1>1, HashUniform
<1>3. LayerKey(ptr, LastModule) = TypeIdxHash(t, idx, 1)
  BY <1>2 DEF LayerKey, TypeIdxHash
<1>4. idx \in Int
  BY LayerIdxInt
<1> HIDE DEF t, idx
<1>5. pc # "types"
  OBVIOUS
<1>6. Typed(sig) \cap At(typeFuncsMap, TypeIdxHash(t, idx, 1)) = Typed(sig) \cap Placed(t, idx)
  BY <1>1, <1>4, <1>5, PlacedAnswer
<1>7. {TypeHash(t, 1), TypeIdxHash(t, idx, 1)} \cap typeEscapeSet # {} <=> Unknown(t, idx)
  <2> DEFINE Into(s) == s.kind = "storePointer" /\ ~isCompositeType(s.elem)
             Hits(s) == EscapeKey(s.to, 1) \in {TypeHash(t, 1), TypeIdxHash(t, idx, 1)}
             Where(s) == \E x \in {idx, -1} : Field(s.to, t, x)
  <2>1. ASSUME NEW s, HasLayer(s.to)
        PROVE  Hits(s) <=> Where(s)
    <3> DEFINE u == LayerTy(s.to)
               y == LayerIdx(s.to)
    <3>1. Where(s) <=> Same(u, t) /\ y \in {idx, -1}
      BY <2>1 DEF Field
    <3>2. CASE y = -1
      <4>1. EscapeKey(s.to, 1) = TypeHash(u, 1)
        BY <3>2 DEF EscapeKey
      <4>2. Hits(s) <=> Same(u, t)
        BY <1>5, <4>1, HashSame, KeySame
      <4> QED
        BY <3>1, <3>2, <4>2
    <3>3. CASE y # -1
      <4>1. EscapeKey(s.to, 1) = TypeIdxHash(u, y, 1)
        BY <3>3 DEF EscapeKey, LayerKey
      <4>2. Hits(s) <=> Same(u, t) /\ y = idx
        BY <1>5, <4>1, KeySame
      <4> QED
        BY <3>1, <3>3, <4>2
    <3> QED
      BY <3>2, <3>3
  <2>2. \A e : e \in typeEscapeSet <=> \E s \in Statements : Into(s) /\ HasLayer(s.to) /\ e = EscapeKey(s.to, 1)
    BY <1>1 DEF Escapes, Stores
  <2>3. Unknown(t, idx) <=> \E s \in Statements : Into(s) /\ Where(s)
    BY DEF Unknown
  <2>4. \A s : Where(s) => HasLayer(s.to)
    BY DEF Field
  <2>5. (\E e \in {TypeHash(t, 1), TypeIdxHash(t, idx, 1)} : e \in typeEscapeSet)
          <=> \E s \in Statements : Into(s) /\ HasLayer(s.to) /\ Hits(s)
    BY <2>2
  <2> HIDE DEF Into, Hits, Where
  <2>6. (\E s \in Statements : Into(s) /\ HasLayer(s.to) /\ Hits(s)) <=> Unknown(t, idx)
    BY <2>1, <2>3, <2>4
  <2> QED
    BY <2>5, <2>6
<1>9. ASSUME ~CastInto(t)
      PROVE  At(typeTransitMap, TypeHash(t, 1)) = {}
  <2>1. \A u : TypeHash(u, 1) = TypeHash(t, 1) <=> Same(u, t)
    BY <1>5, HashSame
  <2>2. ASSUME NEW x \in At(typeTransitMap, TypeHash(t, 1))
        PROVE  FALSE
    <3>1. PICK e \in typeTransitMap : e[1] = TypeHash(t, 1)
      BY DEF At
    <3>2. PICK s \in Statements : /\ s.kind = "cast" /\ isCompositeType(s.from)
                                  /\ e = <<TypeHash(s.into, 1), TypeHash(s.from, 1)>>
      BY <1>1 DEF Transits
    <3>3. TypeHash(s.into, 1) = TypeHash(t, 1)
      BY <3>1, <3>2
    <3> QED
      BY <1>9, <2>1, <3>2, <3>3 DEF CastInto
  <2> QED
    BY <2>2
<1>10. /\ Typed(sig) \cap At(typeFuncsMap, LayerKey(ptr, LastModule)) = Typed(sig) \cap Placed(t, idx)
       /\ {TypeHash(t, LastModule), LayerKey(ptr, LastModule)} \cap typeEscapeSet # {} <=> Unknown(t, idx)
       /\ ~CastInto(t) => At(typeTransitMap, TypeHash(t, LastModule)) = {}
  BY <1>2, <1>3, <1>6, <1>7, <1>9
<1> QED
  BY <1>10 DEF t, idx

-----------------------------------------------------------------------------
(* The layers of a call through one field.                                       *)
OneLayer(ci) ==
  HasLayer(ci.called) /\ ~HasLayer(Below(ci.called)) /\ ~CastInto(LayerTy(ci.called))
Here(ci) == Typed(ci.sig) \cap Placed(LayerTy(ci.called), LayerIdx(ci.called))
Wild(ci) == Unknown(LayerTy(ci.called), LayerIdx(ci.called))
Answer(ci) == IF Wild(ci) \/ Here(ci) = {} THEN Typed(ci.sig) ELSE Here(ci)

LayerInv ==
  Uniform /\ pc \in {"layers", "transits"} =>
    LET ci == prog.mod[i].calls[k] IN
    OneLayer(ci) =>
      /\ pc = "layers" =>
           \/ CV = ci.called /\ FS1 = Typed(ci.sig)
           \/ CV = <<>> /\ FS1 = {} /\ Typed(ci.sig) = {}
           \/ CV = Below(ci.called) /\ ~Wild(ci) /\ FS1 = Answer(ci)
      /\ pc = "transits" =>
           /\ CV = Below(ci.called) /\ ~Wild(ci)
           /\ FS1 = Typed(ci.sig) /\ FST = Here(ci) /\ transits = {}

OneLayerInv ==
  Uniform =>
    \A e \in Callees :
      LET ci == CallAt(e[1]) IN
      ci.kind = "indirect" /\ OneLayer(ci) => e[2] = Answer(ci)

(* The answer for a call depends on the program and on the finished tables.   *)
LEMMA SameAnswer ==
  ASSUME prog' = prog
  PROVE  /\ \A ci : OneLayer(ci)' = OneLayer(ci) /\ Answer(ci)' = Answer(ci) /\ Wild(ci)' = Wild(ci)
                    /\ Here(ci)' = Here(ci) /\ Typed(ci.sig)' = Typed(ci.sig)
         /\ Uniform' = Uniform
         /\ \A c : CallAt(c)' = CallAt(c)
<1>1. /\ \A t, u : Same(t, u)' = Same(t, u)
      /\ Statements' = Statements /\ Initializers' = Initializers /\ Definitions' = Definitions
  BY SameProgram
<1>2. \A p, t, x : Field(p, t, x)' = Field(p, t, x)
  BY <1>1 DEF Field
<1>3. \A t, x : Unknown(t, x)' = Unknown(t, x)
  BY <1>1, <1>2 DEF Unknown
<1>4. \A t : CastInto(t)' = CastInto(t)
  BY <1>1 DEF CastInto
<1>5. \A t, x : Placed(t, x)' = Placed(t, x)
  <2> TAKE t, x
  <2>1. {s.value : s \in {r \in Statements' : r.kind = "storeFunction" /\ Field(r.to, t, x)'}} =
        {s.value : s \in {r \in Statements : r.kind = "storeFunction" /\ Field(r.to, t, x)}}
    BY <1>1, <1>2
  <2>2. {prog'.node[n].ops[x + 1] :
           n \in {y \in Initializers' : Same(prog.node[y].type, t)' /\ x + 1 \in DOMAIN prog'.node[y].ops}} =
        {prog.node[n].ops[x + 1] :
           n \in {y \in Initializers : Same(prog.node[y].type, t) /\ x + 1 \in DOMAIN prog.node[y].ops}}
    <3>1. \A y : Same(prog.node[y].type, t)' = Same(prog.node[y].type, t)
      BY <1>1 DEF Same
    <3> QED
      BY <1>1, <3>1
  <2> QED
    BY <2>1, <2>2 DEF Placed
<1>6. \A sig : Typed(sig)' = Typed(sig)
  BY <1>1 DEF Typed
<1>7. ASSUME NEW ci
      PROVE  Here(ci)' = Here(ci) /\ Wild(ci)' = Wild(ci) /\ OneLayer(ci)' = OneLayer(ci)
  BY <1>3, <1>4, <1>5, <1>6 DEF Here, Wild, OneLayer
<1>8. ASSUME NEW ci
      PROVE  Answer(ci)' = Answer(ci)
  BY <1>6, <1>7 DEF Answer
<1>9. Uniform' = Uniform /\ \A c : CallAt(c)' = CallAt(c)
  BY DEF Uniform, Module, CallAt
<1> QED
  BY <1>6, <1>7, <1>8, <1>9

IInv2 == NamesInv /\ TablesInv /\ LayerInv /\ OneLayerInv

(* What holds of the call under way.                                             *)
LEMMA CallType ==
  ASSUME IInv, pc \in {"layers", "transits"}
  PROVE  LET ci == prog.mod[i].calls[k] IN ci.called \in Seq(Link)
<1>1. prog \in Programs /\ i \in Module /\ k \in Nat \ {0} /\ k <= Len(prog.mod[i].calls)
  BY DEF IInv, ControlOK
<1>2. k \in DOMAIN prog.mod[i].calls
  BY <1>1, ProgFacts, LenProperties
<1>3. prog.mod[i].calls[k] \in CallInst /\ prog.mod[i].calls[k].kind = "indirect"
  BY <1>1, <1>2, ProgFacts, ElementOfSeq, LenProperties, SMTT(30) DEF IInv, LayersInv
<1> QED
  BY <1>3 DEF CallInst

(* An indirect call starts with the functions of its signature, at its own layer. *)
LEMMA IndirectLayer ==
  ASSUME IInv, IInv2, IndirectCall
  PROVE  LayerInv'
<1> DEFINE ci == prog.mod[i].calls[k]
<1>1. /\ pc = "calls" /\ pc' = "layers" /\ k <= Len(prog.mod[i].calls) /\ ci.kind = "indirect"
      /\ FS1' = At(sigFuncsMap, ci.sig)
      /\ CV' = IF At(sigFuncsMap, ci.sig) = {} THEN <<>> ELSE ci.called
      /\ UNCHANGED <<prog, i, k>>
  BY DEF IndirectCall, Visited, StartLayers
<1>2. i \in Module /\ k \in DOMAIN prog.mod[i].calls /\ prog \in Programs
  BY <1>1, ProgFacts, LenProperties DEF IInv, ControlOK
<1>3. ci.sig \in Sig
  BY <1>1, <1>2, CallFacts
<1>4. Seen = Definitions
  BY <1>1, <1>2, DefinitionFacts
<1> HIDE DEF ci
<1>5. FS1' = Typed(ci.sig) /\ CV' = IF Typed(ci.sig) = {} THEN <<>> ELSE ci.called
  BY <1>1, <1>3, <1>4, FirstLayer
<1>6. ci' = ci
  BY <1>1 DEF ci
<1>7. Typed(ci.sig)' = Typed(ci.sig)
  BY <1>1, <1>6, SameTyped, ZenonT(60)
<1> QED
  BY <1>1, <1>5, <1>6, <1>7 DEF LayerInv, ci

(* A layer takes the functions of its field.                                  *)
LEMMA EnterAnswer ==
  ASSUME IInv, IInv2, Layer
  PROVE  LayerInv'
<1> DEFINE ci == prog.mod[i].calls[k]
<1>1. /\ pc = "layers" /\ pc' = "transits" /\ HasLayer(CV) /\ ~Escaped(LastModule)
      /\ FST' = FS1 \cap At(typeFuncsMap, LayerKey(CV, LastModule))
      /\ transits' = IF prog.wide THEN {} ELSE At(typeTransitMap, TypeHash(LayerTy(CV), LastModule))
      /\ CV' = Below(CV) /\ FS1' = FS1
      /\ UNCHANGED <<prog, i, k>>
  BY DEF Layer, MoreLayers, EnterLayer
<1>2. ControlOK /\ NamesInv /\ TablesInv /\ LayerInv
  BY DEF IInv, IInv2
<1>3. ci.called \in Seq(Link)
  BY <1>1, CallType
<1> HIDE DEF ci
<1>4. ASSUME Uniform, OneLayer(ci)
      PROVE  /\ CV' = Below(ci.called) /\ ~Wild(ci)
             /\ FS1' = Typed(ci.sig) /\ FST' = Here(ci) /\ transits' = {}
  <2>1. CV = ci.called /\ FS1 = Typed(ci.sig)
    BY <1>1, <1>2, <1>4, NoLayer DEF LayerInv, OneLayer, ci
  <2>2. HasLayer(ci.called) /\ ~CastInto(LayerTy(ci.called))
    BY <1>4 DEF OneLayer
  <2> DEFINE sig == ci.sig
             ptr == ci.called
  <2> HIDE DEF sig, ptr
  <2>3. ptr \in Seq(Link) /\ HasLayer(ptr)
    BY <1>3, <2>2 DEF ptr
  <2>4. /\ Typed(sig) \cap At(typeFuncsMap, LayerKey(ptr, LastModule)) = Typed(sig) \cap Placed(LayerTy(ptr), LayerIdx(ptr))
        /\ {TypeHash(LayerTy(ptr), LastModule), LayerKey(ptr, LastModule)} \cap typeEscapeSet # {} <=>
             Unknown(LayerTy(ptr), LayerIdx(ptr))
        /\ ~CastInto(LayerTy(ptr)) => At(typeTransitMap, TypeHash(LayerTy(ptr), LastModule)) = {}
    BY <1>1, <1>2, <1>4, <2>3, FieldAnswer
  <2>5. FST' = Here(ci)
    BY <1>1, <2>1, <2>4 DEF Here, sig, ptr
  <2>6. ~Wild(ci)
    BY <1>1, <2>1, <2>4 DEF Wild, Escaped, ptr
  <2>7. transits' = {}
    BY <1>1, <2>1, <2>2, <2>4 DEF ptr
  <2> QED
    BY <1>1, <2>1, <2>5, <2>6, <2>7
<1>5. ci' = ci
  BY <1>1 DEF ci
<1>6. /\ OneLayer(ci)' = OneLayer(ci) /\ Wild(ci)' = Wild(ci) /\ Here(ci)' = Here(ci)
      /\ Typed(ci.sig)' = Typed(ci.sig) /\ Uniform' = Uniform /\ Below(ci.called)' = Below(ci.called)
  BY <1>1, <1>5, SameAnswer, ZenonT(60) DEF OneLayer, Wild, Here
<1> QED
  BY <1>1, <1>4, <1>5, <1>6 DEF LayerInv, ci

(* A type that nothing is cast into adds nothing; the layer ends with the answer. *)
LEMMA LeaveAnswer ==
  ASSUME IInv, IInv2, Transit \/ EndLayer
  PROVE  LayerInv'
<1> DEFINE ci == prog.mod[i].calls[k]
<1>1. /\ pc = "transits" /\ UNCHANGED <<prog, i, k, CV>>
  BY DEF Transit, EndLayer, MergeTransit, LeaveLayer, control
<1>2. ci' = ci
  BY <1>1 DEF ci
<1> HIDE DEF ci
<1>3. LayerInv
  BY DEF IInv2
<1>4. ASSUME Uniform, OneLayer(ci)
      PROVE  /\ CV = Below(ci.called) /\ ~Wild(ci) /\ FS1 = Typed(ci.sig) /\ FST = Here(ci) /\ transits = {}
  BY <1>1, <1>3, <1>4 DEF LayerInv, ci
<1>5. /\ OneLayer(ci)' = OneLayer(ci) /\ Wild(ci)' = Wild(ci) /\ Answer(ci)' = Answer(ci)
      /\ Uniform' = Uniform /\ Below(ci.called)' = Below(ci.called)
  BY <1>1, <1>2, SameAnswer DEF OneLayer, Wild, Answer
<1>6. ASSUME Uniform, OneLayer(ci)
      PROVE  pc' = "layers" /\ FS1' = Answer(ci)
  <2>1. ~Transit
    BY <1>4, <1>6 DEF Transit
  <2>2. EndLayer
    BY <2>1
  <2>3. pc' = "layers" /\ FS1' = IF FST # {} THEN FST ELSE FS1
    BY <2>2 DEF EndLayer, LeaveLayer, Narrowed
  <2> QED
    BY <1>4, <1>6, <2>3 DEF Answer
<1> QED
  BY <1>1, <1>2, <1>4, <1>5, <1>6 DEF LayerInv, ci

(* The callees of one more call.                                                *)
LEMMA OneLayerResolve ==
  ASSUME IInv, OneLayerInv, prog' = prog, NEW fs, Callees' = Callees \cup {<<<<i, k>>, fs>>},
         LET ci == prog.mod[i].calls[k] IN
         ci.kind = "indirect" /\ Uniform /\ OneLayer(ci) => fs = Answer(ci)
  PROVE  OneLayerInv'
<1> DEFINE c == <<i, k>>
           ci == prog.mod[i].calls[k]
<1>1. CallAt(c) = ci
  BY DEF CallAt
<1>2. <<c, fs>>[1] = c /\ <<c, fs>>[2] = fs
  OBVIOUS
<1> HIDE DEF c
<1>3. \A e : e \in Callees' <=> e \in Callees \/ e = <<c, fs>>
  BY DEF c
<1>4. ASSUME Uniform, NEW e \in Callees', CallAt(e[1]).kind = "indirect", OneLayer(CallAt(e[1]))
      PROVE  e[2] = Answer(CallAt(e[1]))
  <2>1. CASE e \in Callees
    BY <1>4, <2>1 DEF OneLayerInv
  <2>2. CASE e = <<c, fs>>
    BY <1>1, <1>2, <1>4, <2>2
  <2> QED
    BY <1>3, <2>1, <2>2
<1>5. \A d : CallAt(d)' = CallAt(d)
  BY SameAnswer
<1>6. ASSUME NEW e \in Callees'
      PROVE  OneLayer(CallAt(e[1]))' = OneLayer(CallAt(e[1])) /\ Answer(CallAt(e[1]))' = Answer(CallAt(e[1]))
  BY <1>5, SameAnswer
<1> QED
  BY <1>4, <1>5, <1>6, SameAnswer DEF OneLayerInv

(* A step that resolves no call keeps the answers given.                      *)
LEMMA OneLayerStays ==
  ASSUME OneLayerInv, prog' = prog, Callees' = Callees
  PROVE  OneLayerInv'
<1>1. \A e \in Callees : /\ CallAt(e[1])' = CallAt(e[1])
                         /\ OneLayer(CallAt(e[1]))' = OneLayer(CallAt(e[1]))
                         /\ Answer(CallAt(e[1]))' = Answer(CallAt(e[1]))
  BY SameAnswer
<1> QED
  BY <1>1, SameAnswer DEF OneLayerInv

(* The set of callees an indirect call is given is the answer.                *)
LEMMA EndLayersAnswer ==
  ASSUME IInv, IInv2, EndLayers
  PROVE  OneLayerInv'
<1> DEFINE ci == prog.mod[i].calls[k]
<1>1. /\ pc = "layers" /\ ~MoreLayers(LastModule) /\ Callees' = Callees \cup {<<<<i, k>>, FS1>>} /\ prog' = prog
  BY DEF EndLayers, Resolve
<1>2. /\ ControlOK /\ NamesInv /\ TablesInv /\ LayerInv /\ OneLayerInv
  BY DEF IInv, IInv2
<1>3. ci.called \in Seq(Link)
  BY <1>1, CallType
<1> HIDE DEF ci
<1>4. ASSUME Uniform, OneLayer(ci)
      PROVE  FS1 = Answer(ci)
  <2>1. \/ CV = ci.called /\ FS1 = Typed(ci.sig)
        \/ CV = <<>> /\ FS1 = {} /\ Typed(ci.sig) = {}
        \/ CV = Below(ci.called) /\ ~Wild(ci) /\ FS1 = Answer(ci)
    BY <1>1, <1>2, <1>4 DEF LayerInv, ci
  <2>2. CASE CV = ci.called /\ FS1 = Typed(ci.sig)
    <3>1. HasLayer(ci.called)
      BY <1>4 DEF OneLayer
    <3>2. Escaped(LastModule)
      BY <1>1, <2>2, <3>1 DEF MoreLayers
    <3> DEFINE ptr == ci.called
    <3> HIDE DEF ptr
    <3>3. ptr \in Seq(Link) /\ HasLayer(ptr)
      BY <1>3, <3>1 DEF ptr
    <3>4. {TypeHash(LayerTy(ptr), LastModule), LayerKey(ptr, LastModule)} \cap typeEscapeSet # {} <=>
               Unknown(LayerTy(ptr), LayerIdx(ptr))
      BY <1>1, <1>2, <1>4, <3>3, FieldAnswer
    <3>5. Wild(ci)
      BY <2>2, <3>2, <3>4 DEF Escaped, Wild, ptr
    <3> QED
      BY <2>2, <3>5 DEF Answer
  <2>3. CASE CV = <<>> /\ FS1 = {} /\ Typed(ci.sig) = {}
    BY <2>3 DEF Answer, Here
  <2> QED
    BY <2>1, <2>2, <2>3
<1> QED
  BY <1>1, <1>2, <1>4, OneLayerResolve DEF ci

(* The second invariant holds initially.                                      *)
LEMMA Init2 == Init => IInv2
<1> SUFFICES ASSUME Init PROVE IInv2
  OBVIOUS
<1>1. /\ pc = "types" /\ i = 1 /\ k = 1 /\ prog \in Programs /\ TypeValueMap = {} /\ VnameToTypenameMap = {}
      /\ typeFuncsMap = {} /\ typeEscapeSet = {} /\ typeTransitMap = {} /\ LU = <<>> /\ Callees = {}
  BY DEF Init, NamesInit, ConfinementInit
<1>2. ASSUME NEW S, S \subseteq Positions("globals") \/ S \subseteq Positions("values")
      PROVE  First(Upto(S, i)) = {}
  <2>1. Upto(S, 1) = {}
    <3>1. Positions("globals") \subseteq Module \X Nat /\ Positions("values") \subseteq Module \X Nat
      BY <1>1, NameFacts DEF Positions
    <3>2. \A m \in Module : 1 <= m /\ m \in Nat
      BY <1>1, ProgFacts
    <3> QED
      BY <1>2, <3>1, <3>2 DEF Upto
  <2> QED
    BY <1>1, <2>1 DEF First
<1>3. NamesInv
  <2>1. \A t : First(Upto(GlobalsOf(t), i)) = {}
    BY <1>2 DEF GlobalsOf
  <2>2. \A name : First(Upto(ValuesOf(name), i)) = {}
    BY <1>2 DEF ValuesOf
  <2> QED
    BY <1>1, <2>1, <2>2 DEF NamesInv, At, Pairs
<1>4. TablesInv
  <2>1. <<>> \in Seq(Node) /\ Range(<<>>) = {}
    BY DEF Range
  <2> QED
    BY <1>1, <2>1 DEF TablesInv
<1>5. LayerInv /\ OneLayerInv
  BY <1>1 DEF LayerInv, OneLayerInv
<1> QED
  BY <1>3, <1>4, <1>5 DEF IInv2

(* Every step keeps the second invariant.                                     *)
LEMMA Step2 == IInv /\ IInv2 /\ [Next]_vars => IInv2'
<1> SUFFICES ASSUME IInv, IInv2, [Next]_vars PROVE IInv2'
  OBVIOUS
<1>1. NamesInv /\ TablesInv /\ LayerInv /\ OneLayerInv
  BY DEF IInv2
<1>2. CASE TypesOfModule \/ BuildStructs
  <2>1. prog' = prog /\ Callees' = Callees /\ pc' \notin {"layers", "transits"}
    BY <1>2 DEF TypesOfModule, BuildStructs, callVars
  <2>2. NamesInv'
    BY <1>1, <1>2, TypesNames, StructsNames
  <2>3. TablesInv'
    BY <1>1, <1>2, TypesTables
  <2>4. LayerInv' /\ OneLayerInv'
    BY <1>1, <2>1, OneLayerStays DEF LayerInv
  <2> QED
    BY <2>2, <2>3, <2>4 DEF IInv2
<1>3. CASE \/ GlobalVariable \/ InitializerNode \/ EndInitializer \/ EndGlobals
           \/ FunctionDefinition \/ EndFunctions \/ EndCalls
  <2>1. /\ UNCHANGED <<prog, nameVars, Callees>> /\ pc # "types" /\ pc' # "types" /\ pc' \notin {"layers", "transits"}
    BY <1>3, Zenon DEF GlobalVariable, InitializerNode, EndInitializer, EndGlobals, FunctionDefinition, EndFunctions,
       EndCalls, NextModule, callVars, control
  <2>2. TablesInv'
    BY <1>1, <1>3, GlobalTables, NodeTables, FunctionTables, EndsTables
  <2>3. NamesInv' /\ LayerInv' /\ OneLayerInv'
    BY <1>1, <2>1, NamesKept, OneLayerStays DEF LayerInv
  <2> QED
    BY <2>2, <2>3, Zenon DEF IInv2
<1>4. CASE \/ SkipCall \/ DirectCall \/ InlineAsm \/ IndirectCall \/ Layer \/ Transit \/ EndLayer \/ EndLayers
  <2>1. /\ UNCHANGED <<prog, nameVars, tableVars, LU>> /\ pc \in CallPhase /\ pc' \in CallPhase
    BY <1>4, Zenon DEF SkipCall, DirectCall, InlineAsm, IndirectCall, Layer, Transit, EndLayer, EndLayers, Visited,
       CallPhase, control
  <2>2. NamesInv' /\ TablesInv'
    BY <1>1, <2>1, NamesKept, CallsTables DEF CallPhase
  <2>3. LayerInv'
    <3>1. CASE IndirectCall \/ Layer \/ Transit \/ EndLayer
      BY <3>1, IndirectLayer, EnterAnswer, LeaveAnswer
    <3>2. CASE SkipCall \/ DirectCall \/ InlineAsm \/ EndLayers
      <4>1. pc' \notin {"layers", "transits"}
        BY <3>2, ZenonT(60) DEF SkipCall, DirectCall, InlineAsm, EndLayers, Visited
      <4> QED
        BY <4>1, ZenonT(60) DEF LayerInv
    <3> QED
      BY <1>4, <3>1, <3>2
  <2>4. OneLayerInv'
    <3>1. CASE SkipCall \/ IndirectCall \/ Layer \/ Transit \/ EndLayer
      <4>1. Callees' = Callees
        BY <3>1 DEF SkipCall, IndirectCall, Layer, Transit, EndLayer, callVars
      <4> QED
        BY <1>1, <2>1, <4>1, OneLayerStays
    <3>2. CASE DirectCall \/ InlineAsm
      <4>1. PICK fs : Callees' = Callees \cup {<<<<i, k>>, fs>>}
        BY <3>2 DEF DirectCall, InlineAsm, Resolve
      <4>2. prog.mod[i].calls[k].kind # "indirect"
        BY <3>2 DEF DirectCall, InlineAsm, Visited
      <4> QED
        BY <1>1, <2>1, <4>1, <4>2, OneLayerResolve, ZenonT(60)
    <3>3. CASE EndLayers
      BY <3>3, EndLayersAnswer
    <3> QED
      BY <1>4, <3>1, <3>2, <3>3
  <2> QED
    BY <2>2, <2>3, <2>4, Zenon DEF IInv2
<1>5. CASE UNCHANGED vars
  <2>1. UNCHANGED <<prog, nameVars, tableVars, LU, pc, i, k, Callees, CV, FS1, FST, transits>>
    BY <1>5 DEF vars, callVars, control, layerVars
  <2>2. NamesInv'
    <3>1. CASE pc = "types"
      <4>1. /\ \A t : Literal(t)' = Literal(t) /\ GlobalsOf(t)' = GlobalsOf(t)
            /\ \A name : ValuesOf(name)' = ValuesOf(name)
            /\ \A p : GlobalName(p)' = GlobalName(p) /\ ValueType(p)' = ValueType(p)
        BY <2>1 DEF Literal, GlobalsOf, ValuesOf, Positions, Module, GlobalName, ValueType
      <4>2. TypeValueMap' = TypeValueMap /\ VnameToTypenameMap' = VnameToTypenameMap
        BY <2>1 DEF nameVars
      <4> QED
        BY <1>1, <2>1, <3>1, <4>1, <4>2 DEF NamesInv
    <3>2. CASE pc # "types"
      BY <1>1, <2>1, <3>2, NamesKept
    <3> QED
      BY <3>1, <3>2
  <2>3. TablesInv'
    <3>1. Seen' = Seen /\ Roots' \subseteq Roots
      BY <2>1 DEF Seen, FunSeen, Before, Module, Roots, RootSeen
    <3>2. CASE pc = "types"
      <4>1. Range(LU)' = Range(LU) /\ Initializers' = Initializers
        BY <2>1, SameProgram DEF Range
      <4> QED
        BY <1>1, <2>1, <3>2, <4>1 DEF TablesInv, tableVars
    <3>3. CASE pc # "types"
      BY <1>1, <2>1, <3>1, <3>3, TablesStay DEF TablesInv
    <3> QED
      BY <3>2, <3>3
  <2>4. LayerInv'
    <3> DEFINE ci == prog.mod[i].calls[k]
    <3>1. ci' = ci
      BY <2>1
    <3> HIDE DEF ci
    <3>2. /\ OneLayer(ci)' = OneLayer(ci) /\ Wild(ci)' = Wild(ci) /\ Here(ci)' = Here(ci) /\ Answer(ci)' = Answer(ci)
          /\ Typed(ci.sig)' = Typed(ci.sig) /\ Uniform' = Uniform /\ Below(ci.called)' = Below(ci.called)
      BY <2>1, <3>1, SameAnswer DEF OneLayer, Wild, Here, Answer
    <3> QED
      BY <1>1, <2>1, <3>1, <3>2 DEF LayerInv, ci
  <2>5. OneLayerInv'
    BY <1>1, <2>1, OneLayerStays
  <2> QED
    BY <2>2, <2>3, <2>4, <2>5 DEF IInv2
<1> QED
  BY <1>2, <1>3, <1>4, <1>5 DEF Next, Done

(* In programs of one data layout, a call through one field of a type that nothing   *)
(* is cast into gets exactly the functions of its signature that the initializers    *)
(* and the code of any module put there; or all of the signature if there is none, or  *)
(* if the field escapes or, through index -1, the whole type.  The order of modules    *)
(* and worklists does not matter, nor that the tables are keyed by hashes of names.    *)
THEOREM OneLayerExactHolds == Spec => []OneLayerExact
<1>1. IInv2 => OneLayerExact
  BY DEF IInv2, OneLayerInv, OneLayerExact, Uniform, OneLayer, Answer, Here, Wild
<1>2. Spec => []IInv2
  BY Inductive, Init2, Step2, PTL DEF Spec
<1> QED
  BY <1>1, <1>2, PTL
=============================================================================
