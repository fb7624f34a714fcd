-------------------------------- MODULE CallIR --------------------------------
(***************************************************************************)
(* The program as the call graph sees it: what the modules define, where they *)
(* put the addresses of functions, and what they call.  A record of Programs: *)
(*   fn[f]    a function: name, type, whether it has a body, external linkage, *)
(*            whether its module takes its address, its stores and casts;      *)
(*            a declaration is a function of its own, without a body;          *)
(*   ty[t]    a struct type: its name, NoName for a literal, and its elements; *)
(*   node[n]  a constant aggregate, with functions and aggregates as operands; *)
(*   mod[m]   a module: data layout, globals (NoNode: without an aggregate as   *)
(*            initializer), the operands of its instructions that are pointers  *)
(*            to named structs, its definitions and its calls, in order;        *)
(*   wide     size_t is wider than unsigned, so that the hash of a type, cut to  *)
(*            unsigned in findCalleesWithMLTA, is the key of no table.           *)
(* Hashes of different strings are taken to differ.                            *)
(***************************************************************************)
EXTENDS Integers, Sequences, FiniteSets, FiniteSetsExt, Functions

CONSTANTS Fun, NoFun, Name, NoName, Sig, Struct, Node, NoNode, Layout, Programs,
          Renamed,   \* maps a name that starts with SyS_ to the one with sys_
          Dangling   \* bytes of a freed string that spell nobody's name

(* Arrays are composite types, too, but typeHash only sees their scalar size,     *)
(* which is 0.  Vectors are left out.                                          *)
Type == Struct \cup {"array", "scalar"}
isCompositeType(t) == t # "scalar"

(* A pointer is the sequence of instructions that compute it, the last first.     *)
(* A getelementptr has one index or more.                                      *)
Link == [kind : {"load", "unary"}]
          \cup [kind : {"gep"}, type : Type, path : {p \in Seq(Int) : p # <<>>}, constant : BOOLEAN]

Stmt == [kind : {"storeFunction"}, value : Fun, to : Seq(Link)]
          \cup [kind : {"storePointer"}, to : Seq(Link), elem : Type]
          \cup [kind : {"storeObject"}, type : Type]
          \cup [kind : {"cast"}, from : Type, into : Type]

(* A call, in the body of the function caller; "asm" also stands for calls of a    *)
(* function through a cast, which get no callees either.                       *)
CallInst == [kind : {"direct"}, caller : Fun, callee : Fun]
              \cup [kind : {"asm"}, caller : Fun]
              \cup [kind : {"indirect"}, caller : Fun, sig : Sig, called : Seq(Link)]

FunRecord == [name : Name, sig : Sig, body : BOOLEAN, external : BOOLEAN, taken : BOOLEAN,
              code : SUBSET Stmt]

ModRecord == [layout : Layout, values : Seq(Name \X Name), funs : Seq(Fun), calls : Seq(CallInst),
              globals : Seq([name : Name, type : Type, ini : Node \cup {NoNode}])]

ASSUME NameAssumption == Renamed \in [DOMAIN Renamed -> Name] /\ DOMAIN Renamed \subseteq Name
ASSUME NullAssumption == NoFun \notin Fun /\ NoName \notin Name /\ Dangling \notin Name /\ NoNode \notin Node

ASSUME ProgramsAssumption ==
  Programs \subseteq [fn : [Fun -> FunRecord], wide : BOOLEAN, mod : Seq(ModRecord),
                      ty : [Struct -> [name : Name \cup {NoName}, elements : Nat]],
                      node : [Node -> [type : Type, ops : Seq(Fun \cup Node \cup {"other"})]]]

(* Calls are found in the bodies of the module's functions.                     *)
ASSUME CallersAssumption ==
  \A p \in Programs : \A m \in DOMAIN p.mod : \A c \in Range(p.mod[m].calls) :
    c.caller \in Range(p.mod[m].funs)

(* The table map, a set of pairs, after the insertion of the pairs of s: a key   *)
(* keeps its first value.                                                     *)
Inserted(map, s) ==
  map \cup {s[k] : k \in {n \in DOMAIN s :
                            /\ \A e \in map : e[1] # s[n][1]
                            /\ \A l \in 1 .. n - 1 : s[l][1] # s[n][1]}}

At(map, key) == {e[2] : e \in {d \in map : d[1] = key}}
=============================================================================
