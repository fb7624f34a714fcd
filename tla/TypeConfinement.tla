--------------------------- MODULE TypeConfinement ---------------------------
(***************************************************************************)
(* Multi-layer type analysis: which functions are stored in which field of      *)
(* which type, which types are cast to each other, which fields escape, and       *)
(* how that narrows the functions of a signature to the callees of an indirect    *)
(* call.  The tables are keyed by the hashes of types.                          *)
(***************************************************************************)
EXTENDS TypeNames

VARIABLES
  typeFuncsMap, typeConfineMap, typeTransitMap,   \* sets of <<key, member>>
  typeEscapeSet,
  LU,            \* worklist of initializers
  CV,            \* the pointer whose layers are still to be looked at
  FieldIdx,      \* the field of the layer under way
  FS1, FST,      \* functions left; those the last table allows
  transits       \* types cast to the layer's, still to be merged

tableVars == <<typeFuncsMap, typeConfineMap, typeTransitMap, typeEscapeSet>>
layerVars == <<CV, FieldIdx, FS1, FST, transits>>

ConfinementInit ==
  /\ typeFuncsMap = {} /\ typeConfineMap = {} /\ typeTransitMap = {} /\ typeEscapeSet = {}
  /\ LU = <<>>
  /\ CV = <<>> /\ FieldIdx = 0 /\ FS1 = {} /\ FST = {} /\ transits = {}

(* nextLayerBaseType passes over loads and casts, down to a getelementptr of    *)
(* constant indices into a composite type.  The field is its last index, the     *)
(* type the one its first index steps over, whatever lies between.              *)
Geps(ptr) == {k \in DOMAIN ptr : ptr[k].kind = "gep"}
NextGep(ptr) == ptr[Min(Geps(ptr))]
HasLayer(ptr) ==
  Geps(ptr) # {} /\ isCompositeType(NextGep(ptr).type) /\ NextGep(ptr).constant
LayerTy(ptr) == NextGep(ptr).type
LayerIdx(ptr) == NextGep(ptr).path[Len(NextGep(ptr).path)]
Below(ptr) == SubSeq(ptr, Min(Geps(ptr)) + 1, Len(ptr))
LayerKey(ptr, m) == TypeIdxHash(LayerTy(ptr), LayerIdx(ptr), m)

-----------------------------------------------------------------------------
(* typeConfineInInitializer: the worklist starts with a global's initializer;   *)
(* nested aggregates are visited later, functions behind a cast never.          *)
StartInitializer(n) == LU' = (IF n = NoNode THEN <<>> ELSE <<n>>) /\ UNCHANGED tableVars

InitializerFuncs(n, m) ==
  {<<TypeIdxHash(prog.node[n].type, k - 1, m), prog.node[n].ops[k]>> :
     k \in {j \in DOMAIN prog.node[n].ops : prog.node[n].ops[j] \in Fun}}

(* Mutant: nested aggregates are not visited.                                *)
Nested_None(n) == <<>>
Nested(n) ==
  LET ops == prog.node[n].ops
      found[k \in 0 .. Len(ops)] ==
        IF k = 0 THEN <<>>
        ELSE IF ops[k] \in Node THEN Append(found[k - 1], ops[k])
        ELSE found[k - 1] IN
  found[Len(ops)]

VisitInitializer(m) ==
  LET n == Head(LU)
      ops == prog.node[n].ops IN
  /\ typeFuncsMap' = typeFuncsMap \cup InitializerFuncs(n, m)
  /\ typeConfineMap' = typeConfineMap \cup
       {<<TypeIdxHash(prog.node[n].type, k - 1, m), TypeHash(prog.node[ops[k]].type, m)>> :
          k \in {j \in DOMAIN ops : ops[j] \in Node}}
  /\ LU' = Tail(LU) \o Nested(n)
  /\ UNCHANGED <<typeTransitMap, typeEscapeSet>>

-----------------------------------------------------------------------------
(* typeConfineInStore and typeConfineInCast, for all instructions of a function.  *)
(* A pointer to something that is no composite object makes the field escape it   *)
(* is stored to.  An object is stored through a pointer to its own type.           *)
Stores(s, kind) == s.kind = kind /\ HasLayer(s.to)

StoredFuncs(code, m) ==
  {<<LayerKey(s.to, m), s.value>> : s \in {t \in code : Stores(t, "storeFunction")}}

(* escapeType: the index -1 stands for all of the type.                       *)
(* Mutant: an index of -1 is a field like others.                              *)
EscapeKey_Field(ptr, m) == LayerKey(ptr, m)
EscapeKey(ptr, m) == IF LayerIdx(ptr) = -1 THEN TypeHash(LayerTy(ptr), m) ELSE LayerKey(ptr, m)

Escapes(code, m) ==
  {EscapeKey(s.to, m) : s \in {t \in code : Stores(t, "storePointer") /\ ~isCompositeType(t.elem)}}

Confines(code, m) ==
  {<<LayerKey(s.to, m), TypeHash(s.elem, m)>> :
     s \in {t \in code : Stores(t, "storePointer") /\ isCompositeType(t.elem)}}
    \cup {<<TypeHash(s.type, m), TypeHash(s.type, m)>> : s \in {t \in code : t.kind = "storeObject"}}

Transits(code, m) ==
  {<<TypeHash(s.into, m), TypeHash(s.from, m)>> :
     s \in {t \in code : t.kind = "cast" /\ isCompositeType(t.from) /\ isCompositeType(t.into)}}

ConfineCode(code, m) ==
  /\ typeFuncsMap' = typeFuncsMap \cup StoredFuncs(code, m)
  /\ typeEscapeSet' = typeEscapeSet \cup Escapes(code, m)
  /\ typeConfineMap' = typeConfineMap \cup Confines(code, m)
  /\ typeTransitMap' = typeTransitMap \cup Transits(code, m)
  /\ UNCHANGED LU

-----------------------------------------------------------------------------
(* findCalleesWithMLTA.  m is the last module that was loaded: doInitialization     *)
(* left its data layout in CurrentLayout.                                      *)
StartLayers(ptr, first) ==
  /\ CV' = ptr /\ FS1' = first
  /\ UNCHANGED <<FieldIdx, FST, transits>>

Escaped(m) == {TypeHash(LayerTy(CV), m), LayerKey(CV, m)} \cap typeEscapeSet # {}

(* Mutant: escaped fields narrow, too.                                       *)
MoreLayers_Escaped(m) == HasLayer(CV)
MoreLayers(m) == HasLayer(CV) /\ ~Escaped(m)

(* The types the layer's was cast from are looked up under its hash, cut to       *)
(* unsigned; the list LT they should join only ever holds that hash.            *)
EnterLayer(m) ==
  /\ FST' = FS1 \cap At(typeFuncsMap, LayerKey(CV, m))
  /\ FieldIdx' = LayerIdx(CV)
  /\ transits' = IF prog.wide THEN {} ELSE At(typeTransitMap, TypeHash(LayerTy(CV), m))
  /\ CV' = Below(CV)
  /\ UNCHANGED FS1

(* Mutant: the functions left are replaced even by none.                      *)
Narrowed_Empty(fs) == fs
Narrowed(fs) == IF fs # {} THEN fs ELSE FS1

(* Mutant: the functions of the type cast are not intersected with those left.   *)
MergeTransit_All(h) ==
  /\ FST' = At(typeFuncsMap, <<h, FieldIdx>>)
  /\ FS1' = Narrowed(FST')
  /\ transits' = transits \ {h}
  /\ UNCHANGED <<CV, FieldIdx>>

MergeTransit(h) ==
  /\ FST' = FS1 \cap At(typeFuncsMap, <<h, FieldIdx>>)
  /\ FS1' = Narrowed(FST')
  /\ transits' = transits \ {h}
  /\ UNCHANGED <<CV, FieldIdx>>

LeaveLayer ==
  /\ FS1' = Narrowed(FST)
  /\ UNCHANGED <<CV, FieldIdx, FST, transits>>
=============================================================================
