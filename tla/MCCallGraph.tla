----------------------------- MODULE MCCallGraph -----------------------------
(***************************************************************************)
(* The programs on which TLC runs CallGraph.  Type s is cast to t in some of    *)
(* them, and l is a literal type.                                              *)
(***************************************************************************)
EXTENDS CallGraph

CONSTANTS a, b, c, d, A, B, SyS, sys, N1, N2, F, G, s, t, l, n1, n2, n3, W32, W64

MCRenamed == [x \in {SyS} |-> sys]

Load == [kind |-> "load"]
Gep(type, path) == [kind |-> "gep", type |-> type, path |-> path, constant |-> TRUE]
Variable(type) == [kind |-> "gep", type |-> type, path |-> <<0>>, constant |-> FALSE]
StoreFunction(f, to) == [kind |-> "storeFunction", value |-> f, to |-> to]
StorePointer(elem, to) == [kind |-> "storePointer", elem |-> elem, to |-> to]
Cast(from, into) == [kind |-> "cast", from |-> from, into |-> into]
Indirect(f, ptr) == [kind |-> "indirect", caller |-> f, sig |-> F, called |-> <<Load>> \o ptr]
Direct(f, g) == [kind |-> "direct", caller |-> f, callee |-> g]
Asm(f) == [kind |-> "asm", caller |-> f]
Global(name, type, n) == [name |-> name, type |-> type, ini |-> n]

Function(name, sig, body, external, taken, code) ==
  [name |-> name, sig |-> sig, body |-> body, external |-> external, taken |-> taken, code |-> code]
Mod(layout, globals, values, funs, calls) ==
  [layout |-> layout, globals |-> globals, values |-> values, funs |-> funs, calls |-> calls]

(* Type s and the literal type l may have the same number of elements.          *)
Types(elements) ==
  [x \in Struct |-> CASE x = s -> [name |-> N1, elements |-> 2]
                     [] x = t -> [name |-> N2, elements |-> 3]
                     [] x = l -> [name |-> NoName, elements |-> elements]]
NoNodes == [x \in Node |-> [type |-> t, ops |-> <<>>]]

(* Definitions a in module 1 and b in module 2; d in module 3 calls c, which is   *)
(* declared or defined beside it.                                             *)
Bodies == {x \in [name : {A, SyS, sys}, sig : {F, G}, body : BOOLEAN, external : BOOLEAN,
                  taken : {FALSE}, code : {{}}] : x.body \/ x.external}
DirectProgram(fa, fb, fc) ==
  [fn |-> [x \in Fun |-> CASE x = a -> fa [] x = b -> fb [] x = c -> fc
                           [] x = d -> Function(B, G, TRUE, FALSE, FALSE, {})],
   wide |-> TRUE, ty |-> Types(3), node |-> NoNodes,
   mod |-> <<Mod(W64, <<>>, <<>>, <<a>>, <<Asm(a)>>),
             Mod(W64, <<>>, <<>>, <<b>>, <<Direct(b, b)>>),
             Mod(W64, <<>>, <<>>, (IF fc.body THEN <<c>> ELSE <<>>) \o <<d>>, <<Direct(d, c)>>)>>]
DirectPrograms ==
  {DirectProgram(fa, fb, fc) : fa, fb \in {x \in Bodies : x.body}, fc \in Bodies}

(* Function a is defined in one module, c is its declaration in the other, which     *)
(* defines b and d; d calls through called.                                     *)
IndirectProgram(codeA, codeD, called, taken, wide, layouts, swap, elements, ops1, ops2, values) ==
  LET declared == IF \E v \in Range(values[1]) : v[1] = B THEN <<Global(B, l, NoNode)>> ELSE <<>>
      one == Mod(layouts[1], declared, values[1], <<a>>, <<>>)
      two == Mod(layouts[2], <<Global(A, l, n3), Global(B, t, n1)>>, values[2], <<b, d>>,
                 <<Indirect(d, called)>>) IN
  [fn |-> [x \in Fun |-> CASE x = a -> Function(A, F, TRUE, TRUE, taken, codeA)
                           [] x = b -> Function(B, F, TRUE, FALSE, TRUE, {})
                           [] x = c -> Function(A, F, FALSE, TRUE, FALSE, {})
                           [] x = d -> Function(sys, G, TRUE, TRUE, TRUE, codeD)],
   wide |-> wide, ty |-> Types(elements),
   node |-> [x \in Node |-> CASE x = n1 -> [type |-> t, ops |-> ops1]
                              [] x = n2 -> [type |-> s, ops |-> ops2]
                              [] x = n3 -> [type |-> l, ops |-> <<"other">>]],
   mod |-> IF swap THEN <<two, one>> ELSE <<one, two>>]

T1 == <<Gep(t, <<0, 1>>)>>
S1 == <<Gep(s, <<0, 1>>)>>
L1 == <<Gep(l, <<0, 1>>)>>
Same64 == <<W64, W64>>
NoValues == << <<>>, <<>> >>
Others == <<"other", "other">>

(* Stores, casts and two layers.                                              *)
Code == {StoreFunction(b, S1), StoreFunction(d, S1), StoreFunction(c, T1), StoreFunction(b, <<Gep(t, <<0, 0, 1>>)>>),
         StoreFunction(b, <<Variable(t)>>), StorePointer("scalar", T1), StorePointer(s, T1),
         StorePointer("scalar", <<Gep(t, <<-1>>)>>),
         Cast(s, t), Cast(l, t), StoreFunction(b, L1 \o <<Load>> \o T1)}
StorePrograms ==
  {IndirectProgram(x, y, called, x # {}, wide, Same64, FALSE, 2, Others, Others, NoValues) :
     x \in {{}, {StoreFunction(a, S1)}, {StoreFunction(a, T1), StoreFunction(a, <<Gep(t, <<0, 0>>)>>)}},
     y \in kSubset(0, Code) \cup kSubset(1, Code) \cup kSubset(2, Code),
     called \in {T1, <<Gep(t, <<-1>>)>>, S1 \o <<[kind |-> "unary"]>> \o T1, <<Variable(t)>> \o T1},
     wide \in BOOLEAN}

(* Initializers, literal types, two layouts.                                    *)
Operands == {<<b, n2>>, <<n2, b>>, <<n2>>, <<"other", b>>}
InitializerPrograms ==
  {IndirectProgram({StoreFunction(a, L1)}, y, called, TRUE, TRUE, layouts, swap, elements, ops1, ops2, values) :
     y \in {{}, {[kind |-> "storeObject", type |-> t]}},
     called \in {T1, S1, L1, <<Gep("array", <<0, 0>>)>>}, layouts \in {Same64, <<W32, W64>>},
     swap \in BOOLEAN, elements \in {2, 3}, ops1 \in Operands, ops2 \in {<<b, "other">>, <<c, b>>, Others},
     values \in {NoValues, << << <<B, N1>> >>, <<>> >>, << << <<A, N1>>, <<A, N2>> >>, <<>> >>, << << <<A, N2>> >>, << <<A, N1>> >> >>}}

MCPrograms == DirectPrograms \cup StorePrograms \cup InitializerPrograms
=============================================================================
