------------------------------ MODULE TypeNames ------------------------------
(***************************************************************************)
(* TypeInitializerPass, which finds a name for the literal struct types of      *)
(* globals, and typeHash, which prints a type with that name.      *)
(***************************************************************************)
EXTENDS CallIR

VARIABLES
  prog,                 \* the program; never changes
  TypeValueMap,         \* literal struct type -> the first global of that type
  VnameToTypenameMap,   \* name of a value -> name of the struct it points to
  GlobalTypes           \* literal struct type -> name; TypeToTNameMap is a copy

nameVars == <<TypeValueMap, VnameToTypenameMap, GlobalTypes>>

NamesInit ==
  /\ TypeValueMap = {} /\ VnameToTypenameMap = {} /\ GlobalTypes = {}

Literal(t) == t \in Struct /\ prog.ty[t].name = NoName

(* Mutant: the last value of a name wins.                                    *)
ValueNames_Last(m) ==
  {e \in VnameToTypenameMap : \A k \in DOMAIN prog.mod[m].values : prog.mod[m].values[k][1] # e[1]}
    \cup {prog.mod[m].values[k] : k \in DOMAIN prog.mod[m].values}

(* The loop over all operands of a module's instructions.                    *)
ValueNames(m) == Inserted(VnameToTypenameMap, prog.mod[m].values)

(* doInitialization.                                                         *)
NameTypes(m) ==
  LET globals == prog.mod[m].globals
      typed == Inserted(TypeValueMap, [k \in DOMAIN globals |-> <<globals[k].type, globals[k].name>>]) IN
  /\ TypeValueMap' = {e \in typed : Literal(e[1])}
  /\ VnameToTypenameMap' = ValueNames(m)
  /\ UNCHANGED GlobalTypes

BuildTypeStructMap ==
  /\ GlobalTypes' = {e \in Struct \X Name :
                       \E v \in At(TypeValueMap, e[1]) : <<v, e[2]>> \in VnameToTypenameMap}
  /\ UNCHANGED <<TypeValueMap, VnameToTypenameMap>>

TypeName(t) == IF Literal(t) THEN At(GlobalTypes, t) ELSE {prog.ty[t].name}

(* typeHash under the data layout of module m, and typeIdxHash.               *)
TypeHash(t, m) ==
  IF t \in Struct THEN <<TypeName(t), prog.ty[t].elements, prog.mod[m].layout>> ELSE <<t>>
TypeIdxHash(t, idx, m) == <<TypeHash(t, m), idx>>
=============================================================================
