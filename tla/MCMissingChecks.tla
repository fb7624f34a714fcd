--------------------------- MODULE MCMissingChecks ---------------------------
(***************************************************************************)
(* The programs on which TLC runs MissingChecks.  Value 1 is a constant.         *)
(***************************************************************************)
EXTENDS MissingChecks

CONSTANTS f1, f2, f3, f4, f5, f6, f7, g, h

Val(kind, block, args) ==
  [kind |-> kind, block |-> block, args |-> args, pred |-> "eq", callee |-> NoFun, callees |-> <<>>]
Cmp(pred, block, args) == [Val("cmp", block, args) EXCEPT !.pred = pred]
Call(f, block, args) == [Val("call", block, args) EXCEPT !.callee = f, !.callees = <<f>>]
External(f, block, args) == [Val("call", block, args) EXCEPT !.callee = f]
IndirectCall(fs, block, args) == [Val("call", block, args) EXCEPT !.callees = fs]
Constant == Val("constant", 0, <<>>)

Function(params, entry, taken, checks) ==
  [params |-> params, entry |-> entry, taken |-> taken, analysed |-> entry # 0, ignored |-> FALSE,
   checks |-> checks]
Declared(params) == Function(params, 0, FALSE, {})

Program(op, owner, succ, fn, order, pointer, must, may) ==
  [op |-> op, owner |-> owner, succ |-> succ, pointer |-> pointer, must |-> must, may |-> may,
   fn |-> [f \in Fun |-> IF f \in DOMAIN fn THEN fn[f] ELSE Declared(<<>>)], order |-> order]

(* f1(2) calls g in block 1, tests something in block 3 and passes something to h in   *)
(* block 4; f2 calls g, tests the result or not, passes it to h, and calls f1.         *)
Derived == {Val("cast", 3, <<3>>), Val("phi", 3, <<3, 2>>), Val("select", 3, <<3, 1>>), Val("gep", 3, <<2>>),
            Val("binary", 3, <<3, 1>>), Val("binary", 3, <<2, 3>>), Val("alloca", 3, <<1>>), Val("alloca", 3, <<3>>)}
FlowProgram(G(_), four, five, passed, last, checks, two, tested) ==
  Program(<<Constant, Val("argument", 0, <<>>), G(1), four, five, Call(h, 4, <<passed>>), last,
            G(5), Cmp("gt", 5, <<8, 1>>), Call(h, 6, <<8>>), two, Val("argument", 0, <<>>)>>,
          <<f1, f1, f1, f1, f2, f2>>, <<{2, 3}, {3}, {4}, {}, {6}, {}>>,
          [f \in {f1, f2, h} |-> CASE f = f1 -> Function(<<2>>, 1, TRUE, checks)
                                   [] f = f2 -> Function(<<>>, 5, FALSE, IF tested THEN {9} ELSE {})
                                   [] f = h -> Declared(<<12>>)],
          <<f1, f2>>, {}, {}, {})
Defined(b) == Call(g, b, <<>>)
Undefined(b) == External(g, b, <<>>)

FlowPrograms ==
  {FlowProgram(Defined, four, Cmp("lt", 3, <<l, 1>>), passed, last, {5}, two, tested) :
     four \in Derived, l \in {2, 3, 4}, passed \in {1, 2, 3, 4},
     last \in {Val("return", 4, <<4>>), Val("binary", 4, <<2, 4>>)},
     two \in {IndirectCall(<<f1>>, 6, <<1>>), Call(f1, 6, <<8>>)}, tested \in BOOLEAN}
  \cup
  {FlowProgram(Undefined, four, five, passed, Val("switch", 4, <<4>>), checks, two, FALSE) :
     four \in {Val("cast", 3, <<3>>), Val("cast", 3, <<2>>)},
     five \in {Cmp("float", 3, <<3, 1>>), Cmp("le", 3, <<4, 2>>), Cmp("gt", 3, <<2, 3>>)},
     passed \in {2, 3, 4}, checks \in {{5}, {6}, {5, 6}, {}},
     two \in {IndirectCall(<<>>, 6, <<1>>), IndirectCall(<<f1, h>>, 6, <<8>>), Call(f1, 6, <<1, 8>>)}}

(* f1(2) stores to pointer 3 or its alias 4 in block 1 and loads in block 2; g may write  *)
(* through the pointer.                                                          *)
MemoryProgram(alias, stored, to, from, left, passed, must, may) ==
  Program(<<Constant, Val("argument", 0, <<>>), Val("alloca", 1, <<1>>), alias, Call(g, 1, <<to>>),
            Val("store", 1, <<stored, to>>), Val("load", 2, <<from>>), Cmp("ne", 2, <<left, 1>>),
            Call(h, 3, <<passed>>), Val("argument", 0, <<>>), Val("argument", 0, <<>>),
            Call(g, 4, <<14>>), IndirectCall(<<f1>>, 4, <<1>>), Val("argument", 0, <<>>)>>,
          <<f1, f1, f1, f2>>, <<{2}, {2, 3}, {}, {}>>,
          [f \in {f1, f2, g, h} |-> CASE f = f1 -> Function(<<2>>, 1, TRUE, {8})
                                      [] f = f2 -> Function(<<14>>, 4, FALSE, {})
                                      [] f = g -> Declared(<<10>>)
                                      [] f = h -> Declared(<<11>>)],
          <<f1, f2>>, {2, 3, 4, 14}, must, may)
MemoryPrograms ==
  {MemoryProgram(alias, stored, to, from, left, passed, must, {{3, 4}, {2, 3}} \ must) :
     alias \in {Val("cast", 1, <<3>>), Val("gep", 1, <<3>>), Val("gep", 1, <<2>>), Val("load", 1, <<3>>)},
     stored \in {1, 2, 5}, to, from \in {3, 4}, left \in {2, 5, 7}, passed \in {2, 5, 7},
     must \in {{}, {{3, 4}}}}
(* f1 passes its parameter 2, a pointer, to g, which may return it, and loads from it,    *)
(* from the result 3 or from a pointer in its object after passing one of them to h.    *)
ReturnedProgram(inside, passed, from, must) ==
  Program(<<Constant, Val("argument", 0, <<>>), Call(g, 1, <<2>>), inside, Call(h, 1, <<passed>>),
            Val("load", 2, <<from>>), Cmp("ne", 2, <<6, 1>>), Val("argument", 0, <<>>), Val("argument", 0, <<>>)>>,
          <<f1, f1>>, <<{2}, {}>>,
          [f \in {f1, g, h} |-> CASE f = f1 -> Function(<<2>>, 1, FALSE, {7})
                                  [] f = g -> Declared(<<8>>)
                                  [] f = h -> Declared(<<9>>)],
          <<f1>>, {2, 3, 4}, must, {{2, 3}, {2, 4}, {3, 4}} \ must)
ReturnedPrograms ==
  {ReturnedProgram(inside, passed, from, must) :
     inside \in {Val("gep", 1, <<3>>), Val("gep", 1, <<2>>), Val("load", 1, <<3>>)},
     passed \in {2, 3, 4}, from \in {2, 3, 4}, must \in {{}, {{2, 3}}}}
(* f1 calls h with its parameter; f2 calls f1 with its own, and so on up to the last of  *)
(* len functions, which passes the result of g (or its parameter), tested or not in a  *)
(* block before.  f1 may have another caller.  f7 tests and passes a result to h.  The    *)
(* longest chain is one longer than what MaxDepth lets the search go back.              *)
Chain == <<f1, f2, f3, f4, f5, f6>>
ChainProgram(len, passed, left, another) ==
  LET param(k) == 1 + k
      r == 2 * len + 2
      calls == [k \in 1 .. len |->
                  Call(IF k = 1 THEN h ELSE Chain[k - 1], k, <<IF k < len \/ passed = "own" THEN param(k) ELSE r>>)]
      rest == <<Call(g, len + 1, <<>>), Cmp("eq", len + 2, <<IF left = "own" THEN r ELSE 1, 1>>),
                Val("argument", 0, <<>>), Call(g, len + 3, <<>>), Cmp("eq", len + 3, <<r + 3, 1>>),
                Call(h, len + 3, <<r + 3>>)>> IN
  Program(<<Constant>> \o [k \in 1 .. len |-> Val("argument", 0, <<>>)] \o calls \o rest \o
            (CASE another = "none" -> <<>>
               [] another = "early" -> <<Call(f1, len + 1, <<r>>)>>
               [] another = "constant" -> <<Call(f1, len + 3, <<1>>)>>
               [] another = "itself" -> <<Call(f1, 1, <<param(1)>>)>>),
          SubSeq(Chain, 1, len) \o <<Chain[len], Chain[len], f7>>,
          [b \in 1 .. len + 3 |-> CASE b = len + 1 -> {len + 2} [] b = len + 2 -> {len} [] OTHER -> {}],
          [f \in Range(SubSeq(Chain, 1, len)) \cup {f7, h} |->
             CASE f = f7 -> Function(<<>>, len + 3, FALSE, {r + 4})
               [] f = h  -> Declared(<<r + 2>>)
               [] OTHER  -> LET k == CHOOSE x \in 1 .. len : Chain[x] = f IN
                            Function(<<param(k)>>, IF k = len THEN len + 1 ELSE k, FALSE, {})],
          <<f7>> \o SubSeq(Chain, 1, len), {}, {}, {})
ChainPrograms ==
  {ChainProgram(len, passed, left, another) :
     len \in 1 .. MaxDepth + 1, passed \in {"own", "result"}, left \in {"own", "constant"},
     another \in {"none", "early", "constant", "itself"}}

(* Of total calls of g, all but unchecked are tested, the first again more times, before *)
(* the result is passed to h; in two functions by turns.                          *)
PeersProgram(total, unchecked, more) ==
  LET at(k) == 2 * (k % 2) + 1
      tested == total - unchecked + more
      one(k) == IF k <= total - unchecked THEN k ELSE 1 IN
  Program(<<Constant>> \o [k \in 1 .. total |-> Call(g, at(k), <<>>)]
            \o [k \in 1 .. total |-> Call(h, at(k) + 1, <<1 + k>>)]
            \o [k \in 1 .. tested |-> Cmp("ne", at(one(k)), <<1 + one(k), 1>>)]
            \o <<Val("argument", 0, <<>>)>>,
          <<f1, f1, f2, f2>>, <<{2}, {}, {4}, {}>>,
          [f \in {f1, f2, h} |->
             IF f = h THEN Declared(<<2 + 2 * total + tested>>)
             ELSE LET start == IF f = f1 THEN 1 ELSE 3 IN
                  Function(<<>>, start, FALSE, {1 + 2 * total + k : k \in {x \in 1 .. tested : at(one(x)) = start}})],
          <<f1, f2>>, {}, {}, {})
PeersPrograms ==
  {PeersProgram(2, 1, more) : more \in 0 .. 4}
    \cup {PeersProgram(4, 1, 0), PeersProgram(10, 3, 0), PeersProgram(10, 1, 0), PeersProgram(11, 1, 0)}

MCPrograms == FlowPrograms \cup MemoryPrograms \cup ReturnedPrograms \cup ChainPrograms \cup PeersPrograms
=============================================================================
