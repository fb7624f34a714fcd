------------------------------- MODULE DataFlow -------------------------------
(***************************************************************************)
(* The parts of DataFlowAnalysis that MissingChecksPass uses.  Both searches      *)
(* mark what they have seen and go everywhere else, so that what they find is       *)
(* what the closure of their steps finds.                                       *)
(***************************************************************************)
EXTENDS PointerAnalysis

(* getAliasPointers, with the results for function f.                          *)
Aliases(p, f) == {p} \cup {e[2] : e \in {d \in FuncPAResults[f] : d[1] = p}}

(* The aliases of a load's pointer, and the instructions that use one of them     *)
(* where they may come before the load.                                         *)
LoadAliases(v) == Aliases(Arg(v, 1), FunOf(v))
Before(v) == {u \in Value : Instruction(u) /\ Home(u) \in PredReach(Home(v))}

(* findInFuncSourceCV: the values it goes on to from v, and the sources found at v:   *)
(* a pointer handed to a call counts as one, since the call may set what it points  *)
(* to.                                                                       *)
Feeds(v) ==
  CASE Is(v, {"select", "gep", "phi", "cast", "binary"}) -> Range(prog.op[v].args)
    [] Is(v, {"load"}) ->
         {Arg(v, 1)} \cup {Arg(u, 1) : u \in {s \in Before(v) : Is(s, {"store"})
                                                    /\ Arg(s, 2) \in LoadAliases(v)}}
    [] OTHER -> {}
SourcesAt(v) ==
  CASE Is(v, {"constant", "argument", "global", "alloca", "call"}) -> {v}
    [] Is(v, {"load"}) ->
         {a \in LoadAliases(v) : \E u \in Before(v) \cap Users(a) : Is(u, {"call"})}
    [] OTHER -> {}
Sources(v) == UNION {SourcesAt(x) : x \in Closure({v}, Len(prog.op), [w \in Value |-> Feeds(w)])}

(* findUses, from value t on, after the comparison sc: the calls t is passed to, with  *)
(* the position.  A getelementptr is not followed, since its pointer operand is     *)
(* compared with the instruction itself, nor are phi and select.                  *)
UsesAt(sc, t) ==
  {<<u, ArgNo(u, t)>> : u \in {c \in Users(t) : Is(c, {"call"}) /\ Home(c) \in SuccReach(Home(sc))}}
UsesGoOn(sc, t) ==
  {u \in Users(t) : \/ Is(u, {"cast", "alloca"})
                    \/ Is(u, {"binary"}) /\ \A a \in Range(prog.op[u].args) : ~Is(a, {"constant"})}
    \cup {l \in Value : /\ Is(l, {"load"}) /\ Home(l) \in SuccReach(Home(sc))
                        /\ \E u \in Users(t) : /\ Is(u, {"store"}) /\ Arg(u, 2) # t
                                               /\ Arg(l, 1) \in Aliases(Arg(u, 2), FunOf(u))}
Uses(sc, t) ==
  UNION {UsesAt(sc, x) : x \in Closure({t}, Len(prog.op), [w \in Value |-> UsesGoOn(sc, w)])}
=============================================================================
