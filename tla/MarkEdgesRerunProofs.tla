------------------------- MODULE MarkEdgesRerunProofs -------------------------
(***************************************************************************)
(* What the marking finds does not depend on the order in which predecessors  *)
(* are met: every run of MarkEdges is a run of one deterministic machine.      *)
(***************************************************************************)
EXTENDS MarkEdgesRerun, MarkEdgesProofs, WellFoundedInduction

-----------------------------------------------------------------------------
(* The order of predecessors does not matter: every run of the marking goes through *)
(* the states of one other machine, in which no order is left open.  It keeps of the *)
(* marks the return half, and takes all predecessors of a block in one step, all     *)
(* edges that are merged in one step, successors one by one.                       *)

OneFlag(flag) == ~(Must(flag) /\ May(flag)) /\ "May_Handle_Err" \notin flag

Orderly(f) == TwoWay(f) /\ \A b \in Block : OneFlag(f.bbErr[b])

Written(f, b) == Returns(f.bbErr[b])

(* Blocks from which a May is on its way to b when m is what is marked before.         *)
LeadsBack(f, b, m, T) ==
  \A d \in EdgesOf(f) : d[2] = b \/ (d[2] \in T /\ m[d] # {"May_Return_Err"}) => d[1] \in T

Back(f, b, m) == {p \in Block : \A T \in SUBSET Block : LeadsBack(f, b, m, T) => p \in T}

(* The edges to b, and those before a block all of whose edges are Must by then.      *)
RaisesBack(f, b, m, X) ==
  /\ \A d \in EdgesOf(f) : d[2] = b => d \in X
  /\ \A e \in X : \A d \in EdgesOf(f) :
       d[2] = e[1] /\ (\A c \in EdgesOf(f) : c[1] = e[1] => Must(m[c]) \/ c \in X)
         => Must(m[d]) \/ d \in X

Raised(f, b, m) ==
  {d \in EdgesOf(f) : \A X \in SUBSET EdgesOf(f) : RaisesBack(f, b, m, X) => d \in X}

(* The marks after the loop over the predecessors of b.                              *)
Before(f, b, m) ==
  IF Must(f.bbErr[b]) THEN Raised(f, b, m)
  ELSE {d \in EdgesOf(f) : d[2] = b \/ d[2] \in Back(f, b, m)}

PredMarks(f, b, m) == [d \in Edge |-> IF d \in Before(f, b, m) THEN Written(f, b) ELSE m[d]]

With(m, e, flag) == [d \in Edge |-> IF d = e THEN flag ELSE m[d]]

(* What IntFlag is when all other edges into the block are merged.                     *)
Joined(f, m, e, flag) ==
  IF May(flag) \/ \E a \in In(f, e[2]) : a[1] # e[1] /\ May(m[EdgeOf(f, a)])
  THEN {"May_Return_Err"} ELSE {"Must_Return_Err"}

First(S) == CHOOSE a \in S : a \in Lowest(S)

(* The states, each with the block, the marks and what the loop has still to do.        *)
AtBlock(b, m) == <<"block", b, m>>
AtSuccs(b, m, S) == <<"succs", b, m, S>>
AtQueue(b, m, S, q, P) == <<"fromBlock", b, m, S, q, P>>
AtMerge(b, m, S, q, P, e, flag) == <<"merge", b, m, S, q, P, e, flag>>
AtSpread(b, m, S, q, P, e, flag, T) == <<"spread", b, m, S, q, P, e, flag, T>>

NextBlockOf(f, b, m) ==
  IF b > N THEN AtBlock(b, m)
  ELSE IF Written(f, b) = {} THEN AtBlock(b + 1, m)
  ELSE AtSuccs(b, PredMarks(f, b, m), Out(f, b))

NextSuccOf(f, b, m, S) ==
  IF S = {} THEN AtBlock(b + 1, m)
  ELSE LET e == EdgeOf(f, First(S))
           marked == With(m, e, Written(f, b)) IN
       IF Written(f, e[2]) # {} THEN AtSuccs(b, marked, S \ {First(S)})
       ELSE AtQueue(b, marked, S \ {First(S)}, << <<e, Written(f, b)>> >>, {})

NextQueued(f, b, m, S, q, P) ==
  IF q = <<>> THEN AtSuccs(b, m, S)
  ELSE LET e == Head(q)[1] IN
       IF e \in P \/ NumSuccessors(f, e[2]) = 0 THEN AtQueue(b, m, S, Tail(q), P \cup {e})
       ELSE AtMerge(b, m, S, Tail(q), P \cup {e}, e, Head(q)[2])

NextSpread(f, b, m, S, q, P, e, flag, T) ==
  IF T = {} THEN AtQueue(b, m, S, q, P)
  ELSE LET d == EdgeOf(f, First(T)) IN
       IF m[d] = flag THEN AtSpread(b, m, S, q, P, e, flag, T \ {First(T)})
       ELSE AtSpread(b, With(m, d, flag), S, Append(q, <<d, flag>>), P, e, flag, T \ {First(T)})

AfterStep(f, x) ==
  IF x[1] = "block" THEN NextBlockOf(f, x[2], x[3])
  ELSE IF x[1] = "succs" THEN NextSuccOf(f, x[2], x[3], x[4])
  ELSE IF x[1] = "fromBlock" THEN NextQueued(f, x[2], x[3], x[4], x[5], x[6])
  ELSE IF x[1] = "merge"
       THEN AtSpread(x[2], x[3], x[4], x[5], x[6], x[7], Joined(f, x[3], x[7], x[8]), Out(f, x[7][2]))
  ELSE NextSpread(f, x[2], x[3], x[4], x[5], x[6], x[7], x[8], x[9])

Unmarked == [e \in Edge |-> {}]

Steps(f, s, k) ==
  /\ s[1] = AtBlock(1, Unmarked)
  /\ \A i \in 1 .. k - 1 : s[i + 1] = AfterStep(f, s[i])

ComesTo(f, x) == \E k \in Nat \ {0} : \E s : Steps(f, s, k) /\ s[k] = x

-----------------------------------------------------------------------------

LEMMA LeastNat ==
  ASSUME NEW T \in SUBSET Nat, T # {}
  PROVE  \E k \in T : \A m \in T : k <= m
<1> DEFINE R == {ss \in Nat \X Nat : ss[1] < ss[2]}
<1>1. IsWellFoundedOn(R, Nat)
  BY NatLessThanWellFounded DEF OpToRel
<1> HIDE DEF R
<1> PICK k \in T : \A m \in T : <<m, k>> \notin R
  BY <1>1, WFMin
<1>2. ASSUME NEW m \in T PROVE k <= m
  <2>1. ~(m < k)
    <3>1. <<m, k>> \in Nat \X Nat /\ <<m, k>>[1] = m /\ <<m, k>>[2] = k
      OBVIOUS
    <3> QED
      BY <3>1 DEF R
  <2> QED
    BY <2>1
<1> QED
  BY <1>2

(* Induction, in the form of sets.                                               *)
LEMMA SetInduction ==
  ASSUME NEW G \in SUBSET Nat, 0 \in G, \A k \in G : k + 1 \in G
  PROVE  G = Nat
<1> SUFFICES ASSUME Nat \ G # {}
             PROVE  FALSE
  OBVIOUS
<1> PICK k \in Nat \ G : \A m \in Nat \ G : k <= m
  BY LeastNat
<1>1. k # 0 /\ k - 1 \in Nat /\ (k - 1) + 1 = k /\ ~(k <= k - 1)
  OBVIOUS
<1>2. k - 1 \in G
  BY <1>1
<1> QED
  BY <1>1, <1>2


LEMMA StepOf ==
  ASSUME NEW f, NEW b, NEW m, NEW S, NEW q, NEW P, NEW e, NEW flag, NEW T
  PROVE  /\ AfterStep(f, AtBlock(b, m)) = NextBlockOf(f, b, m)
         /\ AfterStep(f, AtSuccs(b, m, S)) = NextSuccOf(f, b, m, S)
         /\ AfterStep(f, AtQueue(b, m, S, q, P)) = NextQueued(f, b, m, S, q, P)
         /\ AfterStep(f, AtMerge(b, m, S, q, P, e, flag)) =
              AtSpread(b, m, S, q, P, e, Joined(f, m, e, flag), Out(f, e[2]))
         /\ AfterStep(f, AtSpread(b, m, S, q, P, e, flag, T)) = NextSpread(f, b, m, S, q, P, e, flag, T)
<1>1. AfterStep(f, AtBlock(b, m)) = NextBlockOf(f, b, m)
  BY DEF AfterStep, AtBlock
<1>2. AfterStep(f, AtSuccs(b, m, S)) = NextSuccOf(f, b, m, S)
  BY DEF AfterStep, AtSuccs
<1>3. AfterStep(f, AtQueue(b, m, S, q, P)) = NextQueued(f, b, m, S, q, P)
  BY DEF AfterStep, AtQueue
<1>4. AfterStep(f, AtMerge(b, m, S, q, P, e, flag)) =
              AtSpread(b, m, S, q, P, e, Joined(f, m, e, flag), Out(f, e[2]))
  BY DEF AfterStep, AtMerge
<1>5. AfterStep(f, AtSpread(b, m, S, q, P, e, flag, T)) = NextSpread(f, b, m, S, q, P, e, flag, T)
  BY DEF AfterStep, AtSpread
<1> QED
  BY <1>1, <1>2, <1>3, <1>4, <1>5

LEMMA StartsThere ==
  ASSUME NEW f
  PROVE  ComesTo(f, AtBlock(1, Unmarked))
<1> DEFINE s == [i \in {1} |-> AtBlock(1, Unmarked)]
<1>1. s[1] = AtBlock(1, Unmarked)
  OBVIOUS
<1>2. \A i \in 1 .. 1 - 1 : FALSE
  OBVIOUS
<1> HIDE DEF s
<1>3. Steps(f, s, 1) /\ 1 \in Nat \ {0}
  BY <1>1, <1>2 DEF Steps
<1> QED
  BY <1>1, <1>3 DEF ComesTo

LEMMA ComesFurther ==
  ASSUME NEW f, NEW x, ComesTo(f, x)
  PROVE  ComesTo(f, AfterStep(f, x))
<1> PICK k \in Nat \ {0} : \E s : Steps(f, s, k) /\ s[k] = x
  BY DEF ComesTo
<1> PICK s : Steps(f, s, k) /\ s[k] = x
  OBVIOUS
<1> DEFINE t == [i \in 1 .. k + 1 |-> IF i = k + 1 THEN AfterStep(f, x) ELSE s[i]]
<1>1. t[k + 1] = AfterStep(f, x) /\ \A i \in 1 .. k : t[i] = s[i]
  OBVIOUS
<1> HIDE DEF t
<1>2. t[1] = s[1] /\ t[k] = x
  BY <1>1
<1>3. ASSUME NEW i \in 1 .. (k + 1) - 1
      PROVE  t[i + 1] = AfterStep(f, t[i])
  <2>1. CASE i = k
    BY <1>1, <1>2, <2>1
  <2>2. CASE i # k
    <3>1. i \in 1 .. k - 1 /\ i \in 1 .. k /\ i + 1 \in 1 .. k
      BY <2>2
    <3>2. s[i + 1] = AfterStep(f, s[i])
      BY <3>1 DEF Steps
    <3> QED
      BY <1>1, <3>1, <3>2
  <2> QED
    BY <2>1, <2>2
<1>4. Steps(f, t, k + 1)
  BY <1>2, <1>3 DEF Steps
<1>5. k + 1 \in Nat \ {0}
  OBVIOUS
<1> QED
  BY <1>1, <1>4, <1>5 DEF ComesTo

(* Where nothing changes any more there is only one state to come to.                *)
LEMMA OneEnd ==
  ASSUME NEW f, NEW x, NEW y, ComesTo(f, x), ComesTo(f, y),
         AfterStep(f, x) = x, AfterStep(f, y) = y
  PROVE  x = y
<1>1. ASSUME NEW u, NEW v, ComesTo(f, u), NEW k \in Nat \ {0}, NEW s, Steps(f, s, k), s[k] = u,
             AfterStep(f, u) = u, NEW j \in Nat \ {0}, NEW t, Steps(f, t, j), t[j] = v, k <= j
      PROVE  u = v
  <2> DEFINE G == {i \in Nat : i + 1 <= j => t[i + 1] = IF i + 1 <= k THEN s[i + 1] ELSE u}
  <2>1. 0 \in G
    BY <1>1 DEF Steps
  <2>2. ASSUME NEW i \in G
        PROVE  i + 1 \in G
    <3> SUFFICES ASSUME (i + 1) + 1 <= j
                 PROVE  t[(i + 1) + 1] = IF (i + 1) + 1 <= k THEN s[(i + 1) + 1] ELSE u
      BY <2>2
    <3>1. t[i + 1] = IF i + 1 <= k THEN s[i + 1] ELSE u
      BY <2>2
    <3>2. i + 1 \in 1 .. j - 1
      BY <2>2
    <3>3. t[(i + 1) + 1] = AfterStep(f, t[i + 1])
      BY <1>1, <3>2 DEF Steps
    <3>4. CASE (i + 1) + 1 <= k
      <4>1. i + 1 \in 1 .. k - 1 /\ i + 1 <= k
        BY <1>1, <2>2, <3>4
      <4>2. s[(i + 1) + 1] = AfterStep(f, s[i + 1])
        BY <1>1, <4>1 DEF Steps
      <4> QED
        BY <3>1, <3>3, <3>4, <4>1, <4>2
    <3>5. CASE i + 1 = k
      <4>1. t[i + 1] = u
        BY <1>1, <3>1, <3>5
      <4> QED
        BY <1>1, <3>3, <3>5, <4>1
    <3>6. CASE i + 1 > k
      <4>1. t[i + 1] = u /\ ~((i + 1) + 1 <= k)
        BY <1>1, <2>2, <3>1, <3>6
      <4> QED
        BY <1>1, <3>3, <4>1
    <3> QED
      BY <1>1, <2>2, <3>4, <3>5, <3>6
  <2> HIDE DEF G
  <2>3. G = Nat
    <3>1. G \in SUBSET Nat
      BY DEF G
    <3> QED
      BY <2>1, <2>2, <3>1, SetInduction
  <2>4. j - 1 \in G
    BY <1>1, <2>3
  <2>5. t[(j - 1) + 1] = IF (j - 1) + 1 <= k THEN s[(j - 1) + 1] ELSE u
    BY <1>1, <2>4 DEF G
  <2>6. (j - 1) + 1 = j /\ (j <= k => j = k)
    BY <1>1
  <2> QED
    BY <1>1, <2>5, <2>6
<1>2. PICK k \in Nat \ {0} : \E s : Steps(f, s, k) /\ s[k] = x
  BY DEF ComesTo
<1>3. PICK s : Steps(f, s, k) /\ s[k] = x
  BY <1>2
<1>4. PICK j \in Nat \ {0} : \E t : Steps(f, t, j) /\ t[j] = y
  BY DEF ComesTo
<1>5. PICK t : Steps(f, t, j) /\ t[j] = y
  BY <1>4
<1>6. k <= j \/ j <= k
  OBVIOUS
<1> QED
  BY <1>1, <1>3, <1>5, <1>6

-----------------------------------------------------------------------------
(* The invariant.                                                            *)

Marking == [e \in Edge |-> Returns(edgeErr[e])]
QueueOf(s) == [i \in DOMAIN s |-> <<s[i].edge, Returns(s[i].flag)>>]
Queue == QueueOf(EEP)

Still == {EdgeOf(fn, a) : a \in outer}
Inner == {EdgeOf(fn, a) : a \in todo}

QueueLoop == ToBlockLoop \cup {"fromBlock", "merge", "spread"}

GoodFlag(flag) == OneFlag(flag) /\ Returns(flag) # {}
GoodQueue(s) == \A i \in DOMAIN s : GoodFlag(s[i].flag)

FlagInv ==
  /\ \A e \in Edge : OneFlag(edgeErr[e])
  /\ pc \in QueueLoop => GoodQueue(EEP)
  /\ pc \in {"merge", "spread"} => GoodFlag(IntFlag)

(* The walk back with May: what it marks, and that it leaves out nothing.              *)
MayBefore(x) == \A d \in EdgesOf(fn) : d[2] = x => Marking[d] = {"May_Return_Err"}
Coming(x) ==
  \/ pc = "toReturn" /\ (x \in PB \/ \E i \in DOMAIN EB : EB[i] = x)
  \/ pc = "toBlock" /\ \E i \in DOMAIN EEP : EEP[i].edge[1] = x

MayInv(m) ==
  /\ pc # "raise"
  /\ pc = "toReturn" => EEP = <<>>
  /\ pc = "toBlock" => \A i \in DOMAIN EEP :
       i = 1 /\ PE = {} /\ EEP[i].edge \in EdgesOf(fn) /\ EEP[i].edge[2] = cur
  /\ \A d \in Edge : Marking[d] = m[d] \/ (Marking[d] = {"May_Return_Err"} /\ d \in Before(fn, cur, m))
  /\ pc = "toReturn" => /\ \A i \in DOMAIN EB : EB[i] \in Back(fn, cur, m)
                        /\ \A d \in Inner : d[2] \in Back(fn, cur, m)
                        /\ \A d \in EdgesOf(fn) : d[2] \in PB => Marking[d] = {"May_Return_Err"} \/ d \in Inner
  /\ \A d \in EdgesOf(fn) :
       Marking[d] = {"May_Return_Err"} /\ (m[d] # {"May_Return_Err"} \/ (d[2] = cur /\ d \notin Still))
         => MayBefore(d[1]) \/ Coming(d[1])

(* The walk back with Must.                                                        *)
Ready(x) == \A c \in EdgesOf(fn) : c[1] = x => Must(Marking[c])
Raising(x) == \A d \in EdgesOf(fn) : d[2] = x => Must(Marking[d]) \/ (pc = "raise" /\ d \in Inner)
Pending(x) ==
  pc \in {"toBlock", "raise"} /\ \E i \in DOMAIN EEP : EEP[i].edge[1] = x /\ EEP[i].edge \notin PE

MustInv(m) ==
  /\ pc # "toReturn"
  /\ \A d \in Edge : Marking[d] = m[d] \/ (Marking[d] = {"Must_Return_Err"} /\ d \in Before(fn, cur, m))
  /\ pc \in {"toBlock", "raise"} =>
       /\ \A i \in DOMAIN EEP : EEP[i].edge \in Before(fn, cur, m) /\ Must(Marking[EEP[i].edge])
       /\ \A e \in PE : Must(Marking[e])
  /\ pc = "raise" => \A d \in Inner : Must(m[d]) \/ d \in Before(fn, cur, m)
  /\ \A e \in EdgesOf(fn) :
       Must(Marking[e]) /\ (~Must(m[e]) \/ (e[2] = cur /\ e \notin Still)) /\ Ready(e[1])
         => Raising(e[1]) \/ Pending(e[1])

PredInv(m) ==
  /\ \A d \in EdgesOf(fn) : d[2] = cur => d \in Still \/ Marking[d] = Written(fn, cur)
  /\ pc \in ToBlockLoop => \A i \in DOMAIN EEP : Returns(EEP[i].flag) = Written(fn, cur)
  /\ May(fn.bbErr[cur]) => MayInv(m)
  /\ Must(fn.bbErr[cur]) => MustInv(m)

MergeInv(flag) ==
  /\ todo \subseteq {a \in In(fn, at[2]) : a[1] # at[1]}
  /\ May(IntFlag) <=> \/ May(flag)
                      \/ \E a \in In(fn, at[2]) \ todo : a[1] # at[1] /\ May(Marking[EdgeOf(fn, a)])

PathInv ==
  /\ pc \in {"block", "handle", "return"} => ComesTo(fn, AtBlock(cur, Marking))
  /\ pc \in {"identify", "done"} => ComesTo(fn, AtBlock(N + 1, Marking))
  /\ pc \in PredLoop => \E m \in [Edge -> SUBSET ReturnMask] : ComesTo(fn, AtBlock(cur, m)) /\ PredInv(m)
  /\ pc = "succs" => ComesTo(fn, AtSuccs(cur, Marking, outer))
  /\ pc = "fromBlock" => ComesTo(fn, AtQueue(cur, Marking, outer, Queue, PE))
  /\ pc = "merge" => \E flag \in SUBSET ReturnMask :
       ComesTo(fn, AtMerge(cur, Marking, outer, Queue, PE, at, flag)) /\ MergeInv(flag)
  /\ pc = "spread" =>
       ComesTo(fn, AtSpread(cur, Marking, outer, Queue, PE, at, Returns(IntFlag), todo))

OrderInv ==
  /\ pc \in PredLoop \cup SuccLoop => Written(fn, cur) # {}
  /\ Orderly(fn) => FlagInv /\ PathInv

-----------------------------------------------------------------------------
(* Edges, flags and queues.                                                  *)

LEMMA EdgeFacts ==
  ASSUME NEW f \in Functions
  PROVE  /\ EdgesOf(f) \subseteq Edge
         /\ \A e \in EdgesOf(f) : e[1] \in Block /\ e[2] \in Block
         /\ \A e \in EdgesOf(f) : \E a \in In(f, e[2]) : e = EdgeOf(f, a)
         /\ \A e \in EdgesOf(f) : \E a \in Out(f, e[1]) : e = EdgeOf(f, a)
         /\ \A b \in Block : \A a \in In(f, b) :
              a \in Arcs(f) /\ EdgeOf(f, a) \in EdgesOf(f) /\ EdgeOf(f, a)[2] = b
         /\ \A b \in Block : \A a \in Out(f, b) :
              a \in Arcs(f) /\ EdgeOf(f, a) \in EdgesOf(f) /\ EdgeOf(f, a)[1] = b
<1>1. ASSUME NEW e \in EdgesOf(f)
      PROVE  /\ e \in Edge /\ e[1] \in Block /\ e[2] \in Block
             /\ \E a \in In(f, e[2]) : e = EdgeOf(f, a)
             /\ \E a \in Out(f, e[1]) : e = EdgeOf(f, a)
  <2>1. PICK a \in Arcs(f) : e = EdgeOf(f, a)
    BY DEF EdgesOf
  <2>2. /\ e \in Edge /\ e[1] = a[1] /\ a[1] \in Block /\ e[2] = Dst(f, a) /\ Dst(f, a) \in Block
        /\ a \in In(f, e[2])
    BY <2>1, ArcFacts
  <2>3. a \in Out(f, e[1])
    BY <2>2 DEF Arcs, Out
  <2> QED
    BY <2>1, <2>2, <2>3
<1>2. ASSUME NEW b \in Block, NEW a \in In(f, b)
      PROVE  a \in Arcs(f) /\ EdgeOf(f, a) \in EdgesOf(f) /\ EdgeOf(f, a)[2] = b
  <2>1. a \in Arcs(f) /\ Dst(f, a) = b
    BY DEF In
  <2> QED
    BY <2>1, ArcFacts
<1>3. ASSUME NEW b \in Block, NEW a \in Out(f, b)
      PROVE  a \in Arcs(f) /\ EdgeOf(f, a) \in EdgesOf(f) /\ EdgeOf(f, a)[1] = b
  <2>1. a \in Arcs(f) /\ a[1] = b
    BY DEF Arcs, Out
  <2> QED
    BY <2>1, ArcFacts
<1> QED
  BY <1>1, <1>2, <1>3

(* The loops over successors leave no choice.                                   *)
LEMMA FirstIs ==
  ASSUME NEW f \in Functions, NEW b \in Block, NEW S \in SUBSET Out(f, b), NEW a \in Lowest(S)
  PROVE  a = First(S) /\ a \in S /\ S # {}
<1>1. \A c \in S : c[1] = b /\ c[2] \in Nat /\ c = <<c[1], c[2]>>
  <2>1. f.succ[b] \in Seq(Block)
    BY FunctionFacts
  <2>2. DOMAIN f.succ[b] = 1 .. Len(f.succ[b]) /\ Len(f.succ[b]) \in Nat
    BY <2>1, LenProperties
  <2> QED
    BY <2>2 DEF Out
<1>2. First(S) \in S /\ First(S) \in Lowest(S) /\ a \in S
  BY DEF First, Lowest
<1>3. a[2] <= First(S)[2] /\ First(S)[2] <= a[2]
  BY <1>2 DEF Lowest
<1>4. a[2] = First(S)[2] /\ a[1] = First(S)[1]
  BY <1>1, <1>2, <1>3
<1> QED
  BY <1>1, <1>2, <1>4

LEMMA OneFlags ==
  ASSUME NEW x \in SUBSET Flag, NEW y \in SUBSET Flag, OneFlag(x), OneFlag(y)
  PROVE  /\ OneFlag(UpdateReturnFlag(x, y))
         /\ Returns(UpdateReturnFlag(x, y)) = IF Returns(y) = {} THEN Returns(x) ELSE Returns(y)
         /\ OneFlag(UpdateHandleFlag(x, {"Must_Handle_Err"}))
         /\ OneFlag(MergeFlag(x, y))
         /\ Returns(x) # {} => /\ Returns(MergeFlag(x, y)) # {}
                               /\ May(MergeFlag(x, y)) <=> May(x) \/ May(y)
<1>1. /\ OneFlag(UpdateReturnFlag(x, y))
      /\ Returns(UpdateReturnFlag(x, y)) = IF Returns(y) = {} THEN Returns(x) ELSE Returns(y)
  BY DEF OneFlag, UpdateReturnFlag, Returns, Handles, ReturnMask, HandleMask, Must, May
<1>2. OneFlag(UpdateHandleFlag(x, {"Must_Handle_Err"}))
  BY DEF OneFlag, UpdateHandleFlag, Returns, Handles, ReturnMask, HandleMask, Must, May
<1>3. MergeHandle(x, y) \subseteq {"Must_Handle_Err"}
  BY DEF OneFlag, MergeHandle, Handled, Handles, HandleMask, Flag
<1>4. /\ MergeReturn(x, y) \subseteq ReturnMask
      /\ ~(Must(MergeReturn(x, y)) /\ May(MergeReturn(x, y)))
      /\ Returns(x) # {} => /\ MergeReturn(x, y) # {}
                            /\ May(MergeReturn(x, y)) <=> May(x) \/ May(y)
  BY DEF OneFlag, MergeReturn, Returns, ReturnMask, Must, May
<1>5. /\ MergeFlag(x, y) = MergeReturn(x, y) \cup MergeHandle(x, y)
      /\ Returns(MergeFlag(x, y)) = MergeReturn(x, y)
  BY <1>3, <1>4 DEF MergeFlag, Returns, ReturnMask
<1>6. /\ OneFlag(MergeFlag(x, y))
      /\ May(MergeFlag(x, y)) <=> May(MergeReturn(x, y))
  BY <1>3, <1>4, <1>5 DEF OneFlag, Must, May, ReturnMask
<1> QED
  BY <1>1, <1>2, <1>4, <1>5, <1>6

(* The return half of a flag that has one.                                       *)
LEMMA OneReturn ==
  ASSUME NEW x \in SUBSET Flag, OneFlag(x)
  PROVE  /\ Must(Returns(x)) <=> Must(x)
         /\ May(Returns(x)) <=> May(x)
         /\ Returns(x) \in SUBSET ReturnMask
         /\ Returns(x) \in {{}, {"Must_Return_Err"}, {"May_Return_Err"}}
         /\ Must(x) <=> Returns(x) = {"Must_Return_Err"}
         /\ May(x) <=> Returns(x) = {"May_Return_Err"}
  BY DEF OneFlag, Returns, ReturnMask, Must, May, Flag

LEMMA MarkingWritten ==
  ASSUME TypeOK, NEW e \in Edge, NEW flag \in SUBSET Flag, OneFlag(flag), Returns(flag) # {},
         \A d \in Edge : OneFlag(edgeErr[d]), edgeErr' = WithReturn(e, flag)
  PROVE  /\ Marking' = With(Marking, e, Returns(flag))
         /\ \A d \in Edge : OneFlag(edgeErr'[d])
<1>1. edgeErr \in [Edge -> SUBSET Flag]
  BY DEF TypeOK
<1>2. ASSUME NEW d \in Edge
      PROVE  /\ Returns(edgeErr'[d]) = IF d = e THEN Returns(flag) ELSE Returns(edgeErr[d])
             /\ OneFlag(edgeErr'[d])
  <2>1. edgeErr'[d] = IF d = e THEN UpdateReturnFlag(edgeErr[e], flag) ELSE edgeErr[d]
    BY <1>1 DEF WithReturn
  <2>2. edgeErr[e] \in SUBSET Flag /\ OneFlag(edgeErr[e]) /\ OneFlag(edgeErr[d])
    BY <1>1
  <2>3. /\ OneFlag(UpdateReturnFlag(edgeErr[e], flag))
        /\ Returns(UpdateReturnFlag(edgeErr[e], flag)) = Returns(flag)
    BY <2>2, OneFlags
  <2> QED
    BY <2>1, <2>2, <2>3
<1>3. Marking' = [d \in Edge |-> Returns(edgeErr'[d])]
  BY DEF Marking
<1>4. Marking' = [d \in Edge |-> IF d = e THEN Returns(flag) ELSE Marking[d]]
  BY <1>2, <1>3 DEF Marking
<1> QED
  BY <1>2, <1>4 DEF With

LEMMA QueueFacts ==
  ASSUME NEW s \in Seq(EdgeFlag)
  PROVE  /\ s = <<>> <=> QueueOf(s) = <<>>
         /\ s # <<>> => /\ Head(QueueOf(s)) = <<Head(s).edge, Returns(Head(s).flag)>>
                        /\ QueueOf(Tail(s)) = Tail(QueueOf(s))
         /\ \A e \in Edge : \A flag \in SUBSET Flag :
              /\ QueueOf(Append(s, [edge |-> e, flag |-> flag])) =
                   Append(QueueOf(s), <<e, Returns(flag)>>)
              /\ QueueOf(<<[edge |-> e, flag |-> flag]>>) = << <<e, Returns(flag)>> >>
<1> DEFINE T == Edge \X SUBSET ReturnMask
           Item(x) == <<x.edge, Returns(x.flag)>>
<1>1. /\ DOMAIN s = 1 .. Len(s) /\ Len(s) \in Nat
      /\ \A i \in 1 .. Len(s) : s[i] \in EdgeFlag
  BY LenProperties, ElementOfSeq
<1>2. \A x \in EdgeFlag : Item(x) \in T
  BY DEF EdgeFlag, Returns
<1>3. \A r : QueueOf(r) = [i \in DOMAIN r |-> Item(r[i])]
  BY DEF QueueOf
<1> HIDE DEF Item, T
<1>4. QueueOf(s) = [i \in 1 .. Len(s) |-> Item(s[i])]
  BY <1>1, <1>3
<1>5. QueueOf(s) \in Seq(T) /\ Len(QueueOf(s)) = Len(s)
  <2>1. QueueOf(s) \in [1 .. Len(s) -> T]
    BY <1>1, <1>2, <1>4
  <2> QED
    BY <1>1, <2>1, SeqDef, LenProperties
<1>6. s = <<>> <=> QueueOf(s) = <<>>
  BY <1>5, EmptySeq
<1>7. ASSUME s # <<>>
      PROVE  /\ Head(QueueOf(s)) = Item(Head(s))
             /\ QueueOf(Tail(s)) = Tail(QueueOf(s))
  <2>1. /\ Head(s) = s[1] /\ Tail(s) \in Seq(EdgeFlag) /\ Len(Tail(s)) = Len(s) - 1
        /\ \A i \in 1 .. Len(Tail(s)) : Tail(s)[i] = s[i + 1]
        /\ Len(s) \in Nat \ {0}
    BY <1>1, <1>7, HeadTailProperties, EmptySeq
  <2>2. /\ Head(QueueOf(s)) = QueueOf(s)[1] /\ Tail(QueueOf(s)) \in Seq(T)
        /\ Len(Tail(QueueOf(s))) = Len(s) - 1
        /\ \A i \in 1 .. Len(Tail(QueueOf(s))) : Tail(QueueOf(s))[i] = QueueOf(s)[i + 1]
    BY <1>5, <1>6, <1>7, HeadTailProperties
  <2>3. Head(QueueOf(s)) = Item(Head(s))
    BY <1>4, <2>1, <2>2
  <2>4. DOMAIN Tail(s) = 1 .. Len(s) - 1 /\ DOMAIN Tail(QueueOf(s)) = 1 .. Len(s) - 1
    BY <2>1, <2>2, LenProperties
  <2>5. QueueOf(Tail(s)) = [i \in 1 .. Len(s) - 1 |-> Item(Tail(s)[i])]
    BY <1>3, <2>4
  <2>6. \A i \in 1 .. Len(s) - 1 : Tail(QueueOf(s))[i] = Item(Tail(s)[i])
    BY <1>1, <1>4, <2>1, <2>2
  <2>7. QueueOf(Tail(s)) \in [1 .. Len(s) - 1 -> T]
    <3>1. \A i \in 1 .. Len(s) - 1 : Tail(s)[i] \in EdgeFlag
      BY <1>1, <2>1, ElementOfSeq
    <3> QED
      BY <1>2, <2>5, <3>1
  <2>8. QueueOf(Tail(s)) \in Seq(T) /\ Len(QueueOf(Tail(s))) = Len(s) - 1
    <3> DEFINE n == Len(s) - 1
    <3>1. n \in Nat
      BY <2>1
    <3>2. QueueOf(Tail(s)) \in [1 .. n -> T]
      BY <2>7
    <3> HIDE DEF n
    <3>3. QueueOf(Tail(s)) \in Seq(T) /\ Len(QueueOf(Tail(s))) = n
      BY <3>1, <3>2, SeqDef, LenProperties
    <3> QED
      BY <3>3 DEF n
  <2>9. QueueOf(Tail(s)) = Tail(QueueOf(s))
    BY <2>2, <2>5, <2>6, <2>8, SeqEqual
  <2> QED
    BY <2>3, <2>9
<1>8. ASSUME NEW e \in Edge, NEW flag \in SUBSET Flag
      PROVE  /\ QueueOf(Append(s, [edge |-> e, flag |-> flag])) = Append(QueueOf(s), <<e, Returns(flag)>>)
             /\ QueueOf(<<[edge |-> e, flag |-> flag]>>) = << <<e, Returns(flag)>> >>
  <2> DEFINE x == [edge |-> e, flag |-> flag]
  <2>1. x \in EdgeFlag /\ Item(x) = <<e, Returns(flag)>>
    BY DEF EdgeFlag, Item
  <2> HIDE DEF x
  <2>2. Item(x) \in T
    BY <1>2, <2>1
  <2>3. /\ Append(s, x) \in Seq(EdgeFlag) /\ Len(Append(s, x)) = Len(s) + 1
        /\ \A i \in 1 .. Len(s) : Append(s, x)[i] = s[i]
        /\ Append(s, x)[Len(s) + 1] = x
    BY <2>1, AppendProperties
  <2>4. /\ Append(QueueOf(s), Item(x)) \in Seq(T) /\ Len(Append(QueueOf(s), Item(x))) = Len(s) + 1
        /\ \A i \in 1 .. Len(s) : Append(QueueOf(s), Item(x))[i] = QueueOf(s)[i]
        /\ Append(QueueOf(s), Item(x))[Len(s) + 1] = Item(x)
    BY <1>5, <2>2, AppendProperties
  <2>5. DOMAIN Append(s, x) = 1 .. Len(s) + 1 /\ DOMAIN Append(QueueOf(s), Item(x)) = 1 .. Len(s) + 1
    BY <2>3, <2>4, LenProperties
  <2>6. QueueOf(Append(s, x)) = [i \in 1 .. Len(s) + 1 |-> Item(Append(s, x)[i])]
    BY <1>3, <2>5
  <2>7. \A i \in 1 .. Len(s) + 1 : Append(QueueOf(s), Item(x))[i] = Item(Append(s, x)[i])
    BY <1>1, <1>4, <2>3, <2>4
  <2>8. QueueOf(Append(s, x)) \in Seq(T) /\ Len(QueueOf(Append(s, x))) = Len(s) + 1
    <3>1. QueueOf(Append(s, x)) \in [1 .. Len(s) + 1 -> T]
      BY <1>2, <2>3, <2>6, ElementOfSeq
    <3> QED
      BY <1>1, <3>1, SeqDef, LenProperties
  <2>9. QueueOf(Append(s, x)) = Append(QueueOf(s), Item(x))
    BY <2>4, <2>6, <2>7, <2>8, SeqEqual
  <2>10. QueueOf(<<x>>) = <<Item(x)>>
    BY <1>3
  <2> QED
    BY <2>1, <2>9, <2>10 DEF x
<1> QED
  BY <1>6, <1>7, <1>8 DEF Item

-----------------------------------------------------------------------------
(* Flags stay single.                                                        *)

LEMMA GoodQueues ==
  ASSUME TypeOK
  PROVE  /\ GoodQueue(EEP) /\ EEP # <<>> => GoodFlag(Head(EEP).flag) /\ GoodQueue(Tail(EEP))
         /\ \A e \in Edge : \A flag \in SUBSET Flag : GoodFlag(flag) =>
              /\ GoodQueue(EEP) => GoodQueue(Append(EEP, [edge |-> e, flag |-> flag]))
              /\ GoodQueue(<<[edge |-> e, flag |-> flag]>>)
<1>1. EEP \in Seq(EdgeFlag)
  BY DEF TypeOK
<1>2. ASSUME GoodQueue(EEP), EEP # <<>>
      PROVE  GoodFlag(Head(EEP).flag) /\ GoodQueue(Tail(EEP))
  BY <1>1, <1>2, EEPEntries DEF GoodQueue
<1>3. ASSUME NEW e \in Edge, NEW flag \in SUBSET Flag, GoodFlag(flag)
      PROVE  /\ GoodQueue(EEP) => GoodQueue(Append(EEP, [edge |-> e, flag |-> flag]))
             /\ GoodQueue(<<[edge |-> e, flag |-> flag]>>)
  <2> DEFINE x == [edge |-> e, flag |-> flag]
  <2>1. x \in EdgeFlag /\ x.flag = flag
    BY DEF EdgeFlag
  <2> HIDE DEF x
  <2>2. \A i \in DOMAIN Append(EEP, x) :
          \/ i \in DOMAIN EEP /\ Append(EEP, x)[i] = EEP[i]
          \/ Append(EEP, x)[i] = x
    BY <1>1, <2>1, EEPEntries
  <2>3. GoodQueue(EEP) => GoodQueue(Append(EEP, x))
    BY <1>3, <2>1, <2>2 DEF GoodQueue
  <2>4. GoodQueue(<<x>>)
    BY <1>3, <2>1 DEF GoodQueue
  <2> QED
    BY <2>3, <2>4 DEF x
<1> QED
  BY <1>2, <1>3

LEMMA GoodBlock ==
  ASSUME TypeOK, Orderly(fn), NEW b \in Block
  PROVE  /\ fn.bbErr[b] \in SUBSET Flag /\ OneFlag(fn.bbErr[b])
         /\ Written(fn, b) # {} => GoodFlag(fn.bbErr[b])
         /\ Must(fn.bbErr[b]) <=> Written(fn, b) = {"Must_Return_Err"}
         /\ May(fn.bbErr[b]) <=> Written(fn, b) = {"May_Return_Err"}
         /\ Written(fn, b) # {} => Must(fn.bbErr[b]) \/ May(fn.bbErr[b])
<1>1. fn \in Functions
  BY DEF TypeOK
<1>2. fn.bbErr[b] \in SUBSET Flag /\ OneFlag(fn.bbErr[b])
  BY <1>1, FunctionFacts DEF Orderly
<1> QED
  BY <1>2, OneReturn DEF Written, GoodFlag

(* Steps that write no return flag.                                            *)
LEMMA QuietFlags ==
  ASSUME TypeOK, FlagInv,
         \/ edgeErr' = edgeErr
         \/ \E e \in Edge : edgeErr' = WithHandle(e, {"Must_Handle_Err"})
  PROVE  Marking' = Marking /\ \A e \in Edge : OneFlag(edgeErr'[e])
<1>1. CASE edgeErr' = edgeErr
  BY <1>1 DEF Marking, FlagInv
<1>2. ASSUME NEW d \in Edge, edgeErr' = WithHandle(d, {"Must_Handle_Err"})
      PROVE  Marking' = Marking /\ \A e \in Edge : OneFlag(edgeErr'[e])
  <2>1. edgeErr \in [Edge -> SUBSET Flag]
    BY DEF TypeOK
  <2>2. \A e \in Edge : Returns(edgeErr'[e]) = Returns(edgeErr[e])
    BY <1>2, <2>1, WithHandleFacts
  <2>3. Marking' = [e \in Edge |-> Returns(edgeErr'[e])]
    BY DEF Marking
  <2>4. Marking' = Marking
    BY <2>2, <2>3 DEF Marking
  <2>5. ASSUME NEW e \in Edge
        PROVE  OneFlag(edgeErr'[e])
    <3>1. edgeErr'[e] = IF e = d THEN UpdateHandleFlag(edgeErr[d], {"Must_Handle_Err"}) ELSE edgeErr[e]
      BY <1>2, <2>1 DEF WithHandle
    <3>2. edgeErr[d] \in SUBSET Flag /\ OneFlag(edgeErr[d]) /\ OneFlag(edgeErr[e])
      BY <2>1 DEF FlagInv
    <3> QED
      BY <3>1, <3>2, OneFlags
  <2> QED
    BY <2>4, <2>5
<1> QED
  BY <1>1, <1>2

(* Steps that write one.                                                       *)
LEMMA MarkingStep ==
  ASSUME TypeOK, FlagInv, NEW a \in Arcs(fn), NEW flag \in SUBSET Flag, GoodFlag(flag),
         edgeErr' = WithReturn(EdgeOf(fn, a), flag)
  PROVE  /\ Marking' = With(Marking, EdgeOf(fn, a), Returns(flag))
         /\ \A d \in Edge : OneFlag(edgeErr'[d])
<1>1. EdgeOf(fn, a) \in Edge
  BY StepTypes
<1> QED
  BY <1>1, MarkingWritten DEF FlagInv, GoodFlag

LEMMA NextFlag ==
  ASSUME TypeOK, FlagInv, Orderly(fn), [Next]_vars,
         pc \in PredLoop \cup SuccLoop => Written(fn, cur) # {}
  PROVE  FlagInv'
<1> USE DEF QueueLoop, ToBlockLoop
<1>a. EEP \in Seq(EdgeFlag) /\ outer \subseteq Arcs(fn) /\ todo \subseteq Arcs(fn)
      /\ IntFlag \in SUBSET Flag
  BY DEF TypeOK
<1>b. edgeErr' = edgeErr => \A e \in Edge : OneFlag(edgeErr'[e])
  BY DEF FlagInv
<1>c. \A flag \in {{"Must_Return_Err"}, {"May_Return_Err"}} : flag \in SUBSET Flag /\ GoodFlag(flag)
  BY DEF GoodFlag, OneFlag, Must, May, Returns, ReturnMask, Flag
<1>1. CASE \/ NoErrorInBlock \/ CallToErrHandle \/ NoErrHandle \/ NoReturnFlag \/ StartPreds
           \/ StartSuccs \/ NextBlock \/ StartIdentify \/ Identify \/ ReturnFromToBlock
           \/ ReturnFromFromBlock
  <2>1. edgeErr' = edgeErr /\ pc' \notin QueueLoop /\ pc' \notin {"merge", "spread"}
    BY <1>1 DEF NoErrorInBlock, CallToErrHandle, NoErrHandle, NoReturnFlag, StartPreds,
                StartSuccs, NextBlock, StartIdentify, Identify, IdentifyBranch, Finish,
                ReturnFromToBlock, ReturnFromFromBlock
  <2> QED
    BY <1>b, <2>1 DEF FlagInv
<1>2. CASE MarkPred
  <2>1. PICK a \in outer : /\ edgeErr' = WithReturn(EdgeOf(fn, a), fn.bbErr[cur])
                           /\ EEP' = <<[edge |-> EdgeOf(fn, a), flag |-> fn.bbErr[cur]]>>
    BY <1>2 DEF MarkPred
  <2>2. pc = "preds" /\ pc' = "toBlock"
    BY <1>2 DEF MarkPred
  <2>3. cur \in Block /\ a \in Arcs(fn) /\ EdgeOf(fn, a) \in Edge
    BY <1>a, <2>2, StepTypes
  <2>4. fn.bbErr[cur] \in SUBSET Flag /\ GoodFlag(fn.bbErr[cur])
    BY <2>2, <2>3, GoodBlock DEF PredLoop
  <2>5. (\A e \in Edge : OneFlag(edgeErr'[e])) /\ GoodQueue(EEP')
    BY <2>1, <2>3, <2>4, MarkingStep, GoodQueues
  <2> QED
    BY <2>2, <2>5 DEF FlagInv, GoodQueue
<1>3. CASE MarkSucc
  <2>1. PICK a \in Lowest(outer) : MarkSucc!2!(a)
    BY <1>3 DEF MarkSucc
  <2>2. pc = "succs" /\ a \in outer
    BY <1>3 DEF MarkSucc, Lowest
  <2>3. cur \in Block /\ a \in Arcs(fn) /\ EdgeOf(fn, a) \in Edge
    BY <1>a, <2>2, StepTypes
  <2>4. fn.bbErr[cur] \in SUBSET Flag /\ GoodFlag(fn.bbErr[cur])
    BY <2>2, <2>3, GoodBlock DEF SuccLoop
  <2>5. /\ edgeErr' = WithReturn(EdgeOf(fn, a), fn.bbErr[cur])
        /\ \/ pc' = pc
           \/ pc' = "fromBlock" /\ EEP' = <<[edge |-> EdgeOf(fn, a), flag |-> fn.bbErr[cur]]>>
    BY <2>1
  <2>6. (\A e \in Edge : OneFlag(edgeErr'[e])) /\ (pc' = "fromBlock" => GoodQueue(EEP'))
    BY <2>2, <2>3, <2>4, <2>5, MarkingStep, GoodQueues
  <2> QED
    BY <2>2, <2>5, <2>6 DEF FlagInv, GoodQueue
<1>4. CASE TakeBlock \/ ReturnFromBlocks \/ EndRaise \/ StartSpread \/ EndSpread \/ Done \/ UNCHANGED vars
  <2>1. /\ edgeErr' = edgeErr /\ EEP' = EEP /\ IntFlag' = IntFlag
        /\ pc' \in QueueLoop => pc \in QueueLoop
        /\ pc' \in {"merge", "spread"} => pc \in {"merge", "spread"}
    BY <1>4 DEF TakeBlock, ReturnFromBlocks, EndRaise, StartSpread, EndSpread, Done, vars, control
  <2> QED
    BY <1>b, <2>1 DEF FlagInv, GoodQueue
<1>5. CASE MarkHandle
  <2>1. PICK a \in todo :
          edgeErr' = IF Handled(edgeErr[EdgeOf(fn, a)]) THEN edgeErr
                     ELSE WithHandle(EdgeOf(fn, a), {"Must_Handle_Err"})
    BY <1>5 DEF MarkHandle
  <2>2. pc' = "handle"
    BY <1>5 DEF MarkHandle
  <2>3. EdgeOf(fn, a) \in Edge
    BY <1>a, StepTypes
  <2> QED
    BY <2>1, <2>2, <2>3, QuietFlags DEF FlagInv
<1>6. CASE MarkReturn
  <2>1. PICK a \in todo : \/ edgeErr' = edgeErr
                          \/ edgeErr' = WithReturn(EdgeOf(fn, a), {"May_Return_Err"})
    BY <1>6 DEF MarkReturn
  <2>2. pc = "toReturn" /\ pc' = "toReturn" /\ EEP' = EEP
    BY <1>6 DEF MarkReturn
  <2>3. a \in Arcs(fn)
    BY <1>a
  <2>4. \A e \in Edge : OneFlag(edgeErr'[e])
    BY <1>b, <1>c, <2>1, <2>3, MarkingStep
  <2> QED
    BY <2>2, <2>4 DEF FlagInv, GoodQueue
<1>7. CASE TakeToBlock
  <2>1. EEP # <<>> /\ EEP' = Tail(EEP) /\ edgeErr' = edgeErr
        /\ pc = "toBlock" /\ pc' \in ToBlockLoop
    BY <1>7 DEF TakeToBlock
  <2>2. GoodQueue(EEP')
    BY <2>1, GoodQueues DEF FlagInv
  <2> QED
    BY <1>b, <2>1, <2>2 DEF FlagInv, GoodQueue
<1>8. CASE RaiseMust
  <2>1. PICK a \in todo :
          \/ edgeErr' = edgeErr /\ EEP' = EEP
          \/ /\ edgeErr' = WithReturn(EdgeOf(fn, a), {"Must_Return_Err"})
             /\ EEP' = Append(EEP, [edge |-> EdgeOf(fn, a), flag |-> {"Must_Return_Err"}])
    BY <1>8 DEF RaiseMust
  <2>2. pc = "raise" /\ pc' = "raise"
    BY <1>8 DEF RaiseMust
  <2>3. a \in Arcs(fn) /\ EdgeOf(fn, a) \in Edge /\ GoodQueue(EEP)
    BY <1>a, <2>2, StepTypes DEF FlagInv
  <2>4. GoodQueue(EEP')
    BY <1>c, <2>1, <2>3, GoodQueues
  <2>5. \A e \in Edge : OneFlag(edgeErr'[e])
    BY <1>b, <1>c, <2>1, <2>3, MarkingStep
  <2> QED
    BY <2>2, <2>4, <2>5 DEF FlagInv, GoodQueue
<1>9. CASE TakeFromBlock
  <2>1. /\ EEP # <<>> /\ EEP' = Tail(EEP) /\ edgeErr' = edgeErr /\ pc = "fromBlock"
        /\ pc' = "fromBlock" \/ (pc' = "merge" /\ IntFlag' = Head(EEP).flag)
    BY <1>9 DEF TakeFromBlock
  <2>2. GoodQueue(EEP') /\ GoodFlag(Head(EEP).flag)
    BY <2>1, GoodQueues DEF FlagInv
  <2> QED
    BY <1>b, <2>1, <2>2 DEF FlagInv, GoodQueue
<1>10. CASE MergePred
  <2>1. PICK a \in todo : IntFlag' = MergeFlag(IntFlag, edgeErr[EdgeOf(fn, a)])
    BY <1>10 DEF MergePred
  <2>2. pc = "merge" /\ pc' = "merge" /\ EEP' = EEP /\ edgeErr' = edgeErr
    BY <1>10 DEF MergePred
  <2>3. EdgeOf(fn, a) \in Edge /\ edgeErr[EdgeOf(fn, a)] \in SUBSET Flag
    BY <1>a, StepTypes
  <2>4. OneFlag(IntFlag) /\ Returns(IntFlag) # {} /\ OneFlag(edgeErr[EdgeOf(fn, a)])
    BY <2>2, <2>3 DEF FlagInv, GoodFlag
  <2>5. GoodFlag(IntFlag')
    BY <1>a, <2>1, <2>3, <2>4, OneFlags DEF GoodFlag
  <2> QED
    BY <1>b, <2>2, <2>5 DEF FlagInv, GoodQueue
<1>11. CASE Spread
  <2>1. PICK a \in Lowest(todo) :
          \/ edgeErr' = edgeErr /\ EEP' = EEP
          \/ /\ edgeErr' = WithReturn(EdgeOf(fn, a), IntFlag)
             /\ EEP' = Append(EEP, [edge |-> EdgeOf(fn, a), flag |-> IntFlag])
    BY <1>11 DEF Spread
  <2>2. pc = "spread" /\ pc' = "spread" /\ IntFlag' = IntFlag /\ a \in todo
    BY <1>11 DEF Spread, Lowest
  <2>3. a \in Arcs(fn) /\ EdgeOf(fn, a) \in Edge /\ GoodQueue(EEP) /\ GoodFlag(IntFlag)
    BY <1>a, <2>2, StepTypes DEF FlagInv
  <2>4. GoodQueue(EEP')
    BY <1>a, <2>1, <2>3, GoodQueues
  <2>5. \A e \in Edge : OneFlag(edgeErr'[e])
    BY <1>a, <1>b, <2>1, <2>3, MarkingStep
  <2> QED
    BY <2>2, <2>3, <2>4, <2>5 DEF FlagInv, GoodQueue
<1> QED
  BY <1>1, <1>2, <1>3, <1>4, <1>5, <1>6, <1>7, <1>8, <1>9, <1>10, <1>11
     DEF Next, MarkBlocks, ToHandleOrReturn, ToBlock, FromBlock

-----------------------------------------------------------------------------
(* The loop over successors, step by step.                                     *)

LEMMA NextWritten ==
  ASSUME [Next]_vars, pc \in PredLoop \cup SuccLoop => Written(fn, cur) # {}
  PROVE  (pc \in PredLoop \cup SuccLoop => Written(fn, cur) # {})'
<1> USE DEF PredLoop, SuccLoop
<1>1. CASE ToHandleOrReturn \/ ToBlock \/ FromBlock
  BY <1>1, WithinLoops DEF Written
<1>2. CASE NoErrorInBlock \/ CallToErrHandle \/ NoErrHandle \/ NoReturnFlag \/ NextBlock
           \/ StartIdentify \/ Identify
  BY <1>2 DEF NoErrorInBlock, CallToErrHandle, NoErrHandle, NoReturnFlag, NextBlock,
              StartIdentify, Identify, IdentifyBranch, Finish
<1>3. CASE StartPreds
  BY <1>3 DEF StartPreds, Written
<1>4. CASE MarkPred \/ StartSuccs
  BY <1>4 DEF MarkPred, StartSuccs, Written
<1>5. CASE MarkSucc
  <2>1. pc = "succs" /\ UNCHANGED <<fn, cur>>
    BY <1>5 DEF MarkSucc
  <2> QED
    BY <2>1 DEF Written
<1>6. CASE Done \/ UNCHANGED vars
  BY <1>6 DEF Done, vars, control, Written
<1> QED
  BY <1>1, <1>2, <1>3, <1>4, <1>5, <1>6 DEF Next, MarkBlocks

LEMMA MarkSuccPath ==
  ASSUME MarkInv, FlagInv, PathInv, Orderly(fn), Written(fn, cur) # {}, MarkSucc
  PROVE  PathInv'
<1>1. PICK a \in Lowest(outer) : MarkSucc!2!(a)
  BY DEF MarkSucc
<1> DEFINE e == EdgeOf(fn, a)
<1>2. /\ pc = "succs" /\ UNCHANGED <<fn, cur>>
      /\ edgeErr' = WithReturn(e, fn.bbErr[cur]) /\ outer' = outer \ {a}
      /\ IF Returns(fn.bbErr[e[2]]) # {} THEN pc' = pc
         ELSE /\ pc' = "fromBlock" /\ PE' = {}
              /\ EEP' = <<[edge |-> e, flag |-> fn.bbErr[cur]]>>
  BY <1>1 DEF MarkSucc
<1>3. TypeOK /\ fn \in Functions /\ cur \in Block
  BY <1>2, StepTypes DEF MarkInv, IInv, TypeOK
<1>4. outer \subseteq Out(fn, cur)
  BY <1>2 DEF MarkInv, OuterArcs, SuccLoop
<1>5. a = First(outer) /\ outer # {} /\ a \in Arcs(fn) /\ e \in Edge
  BY <1>3, <1>4, FirstIs, EdgeFacts, ArcFacts
<1>6. fn.bbErr[cur] \in SUBSET Flag /\ GoodFlag(fn.bbErr[cur])
  BY <1>3, GoodBlock
<1>7. Marking' = With(Marking, e, Written(fn, cur))
  BY <1>2, <1>3, <1>5, <1>6, MarkingStep DEF Written
<1>8. ComesTo(fn, NextSuccOf(fn, cur, Marking, outer))
  BY <1>2, ComesFurther, StepOf DEF PathInv
<1> HIDE DEF e
<1>9. NextSuccOf(fn, cur, Marking, outer) =
        IF Written(fn, e[2]) # {} THEN AtSuccs(cur, Marking', outer')
        ELSE AtQueue(cur, Marking', outer', << <<e, Written(fn, cur)>> >>, {})
  BY <1>2, <1>5, <1>7 DEF NextSuccOf, e
<1>10. CASE Returns(fn.bbErr[e[2]]) # {}
  <2>1. pc' = "succs" /\ ComesTo(fn, AtSuccs(cur, Marking', outer'))
    BY <1>2, <1>8, <1>9, <1>10 DEF Written
  <2> QED
    BY <1>2, <2>1 DEF PathInv, PredLoop
<1>11. CASE Returns(fn.bbErr[e[2]]) = {}
  <2>1. pc' = "fromBlock" /\ PE' = {} /\ EEP' = <<[edge |-> e, flag |-> fn.bbErr[cur]]>>
    BY <1>2, <1>11
  <2>2. Queue' = << <<e, Written(fn, cur)>> >>
    BY <1>3, <1>5, <1>6, <2>1, QueueFacts DEF Queue, Written, TypeOK
  <2>3. ComesTo(fn, AtQueue(cur, Marking', outer', Queue', PE'))
    BY <1>8, <1>9, <1>11, <2>1, <2>2 DEF Written
  <2> QED
    BY <1>2, <2>1, <2>3 DEF PathInv, PredLoop
<1> QED
  BY <1>10, <1>11

LEMMA TakeFromPath ==
  ASSUME MarkInv, FlagInv, PathInv, TakeFromBlock
  PROVE  PathInv'
<1> DEFINE e == Head(EEP).edge
           flag == Head(EEP).flag
<1>1. /\ pc = "fromBlock" /\ EEP # <<>> /\ EEP' = Tail(EEP) /\ PE' = PE \cup {e}
      /\ UNCHANGED <<fn, edgeErr, cur, outer>>
      /\ IF e \in PE \/ NumSuccessors(fn, e[2]) = 0 THEN pc' = pc
         ELSE /\ pc' = "merge" /\ at' = e /\ IntFlag' = flag
              /\ todo' = {a \in In(fn, e[2]) : a[1] # e[1]}
  BY DEF TakeFromBlock
<1>2. EEP \in Seq(EdgeFlag) /\ Marking' = Marking
  BY <1>1 DEF MarkInv, IInv, TypeOK, Marking
<1>3. GoodFlag(flag) /\ flag \in SUBSET Flag
  BY <1>1, <1>2, GoodQueues, EdgeQueue DEF FlagInv, QueueLoop, MarkInv, IInv
<1>4. Queue # <<>> /\ Head(Queue) = <<e, Returns(flag)>> /\ Queue' = Tail(Queue)
  BY <1>1, <1>2, QueueFacts DEF Queue
<1>5. ComesTo(fn, NextQueued(fn, cur, Marking, outer, Queue, PE))
  BY <1>1, ComesFurther, StepOf DEF PathInv
<1>6. Head(Queue)[1] = e /\ Head(Queue)[2] = Returns(flag)
  BY <1>4
<1> HIDE DEF e, flag
<1>7. CASE e \in PE \/ NumSuccessors(fn, e[2]) = 0
  <2>1. pc' = "fromBlock"
    BY <1>1, <1>7
  <2>2. NextQueued(fn, cur, Marking, outer, Queue, PE) = AtQueue(cur, Marking, outer, Queue', PE')
    BY <1>1, <1>4, <1>6, <1>7 DEF NextQueued
  <2> QED
    BY <1>1, <1>2, <1>5, <2>1, <2>2 DEF PathInv, PredLoop
<1>8. CASE ~(e \in PE \/ NumSuccessors(fn, e[2]) = 0)
  <2>1. /\ pc' = "merge" /\ at' = e /\ IntFlag' = flag
        /\ todo' = {a \in In(fn, e[2]) : a[1] # e[1]}
    BY <1>1, <1>8
  <2>2. NextQueued(fn, cur, Marking, outer, Queue, PE) =
          AtMerge(cur, Marking, outer, Queue', PE', e, Returns(flag))
    BY <1>1, <1>4, <1>6, <1>8 DEF NextQueued
  <2>3. PICK g \in SUBSET ReturnMask : g = Returns(flag)
    BY DEF Returns
  <2>4. MergeInv(g)'
    <3>1. May(flag) <=> May(g)
      BY <1>3, <2>3, OneReturn DEF GoodFlag
    <3>2. \A a \in In(fn, e[2]) \ todo' : ~(a[1] # e[1])
      BY <2>1
    <3> QED
      BY <1>1, <2>1, <3>1, <3>2 DEF MergeInv
  <2>5. ComesTo(fn, AtMerge(cur, Marking, outer, Queue', PE', e, g))
    BY <1>5, <2>2, <2>3
  <2>6. ComesTo(fn', AtMerge(cur', Marking', outer', Queue', PE', at', g))
    BY <1>1, <1>2, <2>1, <2>5
  <2> QED
    BY <2>1, <2>4, <2>6 DEF PathInv, PredLoop
<1> QED
  BY <1>7, <1>8

LEMMA MergePath ==
  ASSUME MarkInv, FlagInv, PathInv, MergePred \/ StartSpread
  PROVE  PathInv'
<1>1. pc = "merge" /\ UNCHANGED <<fn, edgeErr, cur, outer, EEP, PE, at>>
  BY DEF MergePred, StartSpread
<1>2. PICK g \in SUBSET ReturnMask :
        ComesTo(fn, AtMerge(cur, Marking, outer, Queue, PE, at, g)) /\ MergeInv(g)
  BY <1>1 DEF PathInv
<1>3. Marking' = Marking /\ Queue' = Queue
  BY <1>1 DEF Marking, Queue
<1>4. IntFlag \in SUBSET Flag /\ OneFlag(IntFlag) /\ Returns(IntFlag) # {} /\ at \in Edge
  BY <1>1 DEF MarkInv, IInv, TypeOK, FlagInv, GoodFlag
<1>5. fn \in Functions /\ at[2] \in Block /\ edgeErr \in [Edge -> SUBSET Flag]
  BY <1>4 DEF MarkInv, IInv, TypeOK, Edge
<1>6. CASE MergePred
  <2>1. PICK a \in todo : todo' = todo \ {a} /\ IntFlag' = MergeFlag(IntFlag, edgeErr[EdgeOf(fn, a)])
    BY <1>6 DEF MergePred
  <2>2. a \in In(fn, at[2]) /\ a[1] # at[1]
    BY <1>2, <2>1 DEF MergeInv
  <2> DEFINE d == EdgeOf(fn, a)
  <2>3. d \in Edge
    BY <1>5, <2>2, EdgeFacts
  <2>4. edgeErr[d] \in SUBSET Flag /\ OneFlag(edgeErr[d])
    BY <1>5, <2>3 DEF FlagInv
  <2>5. May(IntFlag') <=> May(IntFlag) \/ May(edgeErr[d])
    BY <1>4, <2>1, <2>4, OneFlags
  <2>6. May(edgeErr[d]) <=> May(Marking[d])
    BY <2>3, <2>4, OneReturn DEF Marking
  <2>7. MergeInv(g)'
    <3>1. todo' \subseteq {c \in In(fn, at[2]) : c[1] # at[1]}
      BY <1>2, <2>1 DEF MergeInv
    <3>2. \A c : c \in In(fn, at[2]) \ todo' <=> c = a \/ c \in In(fn, at[2]) \ todo
      BY <2>1, <2>2
    <3>3. May(IntFlag) <=> \/ May(g)
                           \/ \E c \in In(fn, at[2]) \ todo : c[1] # at[1] /\ May(Marking[EdgeOf(fn, c)])
      BY <1>2 DEF MergeInv
    <3>4. May(IntFlag') <=> \/ May(g)
                            \/ \E c \in In(fn, at[2]) \ todo' : c[1] # at[1] /\ May(Marking[EdgeOf(fn, c)])
      BY <2>2, <2>5, <2>6, <3>2, <3>3
    <3> QED
      BY <1>1, <1>3, <3>1, <3>4 DEF MergeInv
  <2>8. pc' = "merge"
    BY <1>6 DEF MergePred
  <2>9. ComesTo(fn', AtMerge(cur', Marking', outer', Queue', PE', at', g))
    BY <1>1, <1>2, <1>3
  <2> QED
    BY <2>7, <2>8, <2>9 DEF PathInv, PredLoop
<1>7. CASE StartSpread
  <2>1. todo = {} /\ pc' = "spread" /\ todo' = Out(fn, at[2]) /\ IntFlag' = IntFlag
    BY <1>7 DEF StartSpread
  <2>2. ComesTo(fn, AtSpread(cur, Marking, outer, Queue, PE, at, Joined(fn, Marking, at, g), Out(fn, at[2])))
    BY <1>2, ComesFurther, StepOf
  <2>3. Joined(fn, Marking, at, g) = Returns(IntFlag)
    <3>1. May(IntFlag) <=> \/ May(g)
                           \/ \E c \in In(fn, at[2]) : c[1] # at[1] /\ May(Marking[EdgeOf(fn, c)])
      BY <1>2, <2>1 DEF MergeInv
    <3>2. Returns(IntFlag) = IF May(IntFlag) THEN {"May_Return_Err"} ELSE {"Must_Return_Err"}
      BY <1>4, OneReturn
    <3> QED
      BY <3>1, <3>2 DEF Joined
  <2>4. ComesTo(fn', AtSpread(cur', Marking', outer', Queue', PE', at', Returns(IntFlag'), todo'))
    BY <1>1, <1>3, <2>1, <2>2, <2>3
  <2> QED
    BY <2>1, <2>4 DEF PathInv, PredLoop
<1> QED
  BY <1>6, <1>7

LEMMA SpreadPath ==
  ASSUME MarkInv, FlagInv, PathInv, Spread
  PROVE  PathInv'
<1>1. PICK a \in Lowest(todo) : Spread!2!(a)
  BY DEF Spread
<1> DEFINE e == EdgeOf(fn, a)
<1>2. /\ pc = "spread" /\ pc' = "spread" /\ UNCHANGED <<fn, cur, outer, PE, at, IntFlag>>
      /\ todo' = todo \ {a}
      /\ IF Returns(edgeErr[e]) = Returns(IntFlag) THEN UNCHANGED <<edgeErr, EEP>>
         ELSE /\ edgeErr' = WithReturn(e, IntFlag)
              /\ EEP' = Append(EEP, [edge |-> e, flag |-> IntFlag])
  BY <1>1 DEF Spread
<1>3. TypeOK /\ fn \in Functions /\ at[2] \in Block /\ EEP \in Seq(EdgeFlag) /\ IntFlag \in SUBSET Flag
  BY DEF MarkInv, IInv, TypeOK, Edge
<1>4. todo \subseteq Out(fn, at[2]) /\ GoodFlag(IntFlag)
  BY <1>2 DEF MarkInv, OriginInv, MergeSure, FlagInv
<1>5. a = First(todo) /\ todo # {} /\ a \in Arcs(fn) /\ e \in Edge
  BY <1>3, <1>4, FirstIs, EdgeFacts, ArcFacts
<1>6. ComesTo(fn, NextSpread(fn, cur, Marking, outer, Queue, PE, at, Returns(IntFlag), todo))
  BY <1>2, ComesFurther, StepOf DEF PathInv
<1>7. Returns(edgeErr[e]) = Marking[e]
  BY <1>5 DEF Marking
<1>8. e = EdgeOf(fn, First(todo))
  BY <1>5
<1> HIDE DEF e
<1>9. CASE Returns(edgeErr[e]) = Returns(IntFlag)
  <2>1. UNCHANGED <<edgeErr, EEP>>
    BY <1>2, <1>9
  <2>2. Marking' = Marking /\ Queue' = Queue
    BY <2>1 DEF Marking, Queue
  <2>3. NextSpread(fn, cur, Marking, outer, Queue, PE, at, Returns(IntFlag), todo) =
          AtSpread(cur, Marking, outer, Queue, PE, at, Returns(IntFlag), todo \ {a})
    BY <1>5, <1>7, <1>8, <1>9 DEF NextSpread
  <2>4. ComesTo(fn', AtSpread(cur', Marking', outer', Queue', PE', at', Returns(IntFlag'), todo'))
    BY <1>2, <1>6, <2>2, <2>3
  <2> QED
    BY <1>2, <2>4 DEF PathInv, PredLoop
<1>10. CASE Returns(edgeErr[e]) # Returns(IntFlag)
  <2>1. edgeErr' = WithReturn(e, IntFlag) /\ EEP' = Append(EEP, [edge |-> e, flag |-> IntFlag])
    BY <1>2, <1>10
  <2>2. Marking' = With(Marking, e, Returns(IntFlag))
    BY <1>3, <1>4, <1>5, <2>1, MarkingStep DEF e
  <2>3. Queue' = Append(Queue, <<e, Returns(IntFlag)>>)
    BY <1>3, <1>5, <2>1, QueueFacts DEF Queue
  <2>4. NextSpread(fn, cur, Marking, outer, Queue, PE, at, Returns(IntFlag), todo) =
          AtSpread(cur, Marking', outer, Queue', PE, at, Returns(IntFlag), todo \ {a})
    BY <1>5, <1>7, <1>8, <1>10, <2>2, <2>3 DEF NextSpread
  <2>5. ComesTo(fn', AtSpread(cur', Marking', outer', Queue', PE', at', Returns(IntFlag'), todo'))
    BY <1>2, <1>6, <2>4
  <2> QED
    BY <1>2, <2>5 DEF PathInv, PredLoop
<1> QED
  BY <1>9, <1>10

(* The ends of the loops.                                                      *)
LEMMA EndsPath ==
  ASSUME MarkInv, PathInv, EndSpread \/ ReturnFromFromBlock \/ NextBlock
  PROVE  PathInv'
<1>1. UNCHANGED <<fn, edgeErr, outer, EEP, PE>>
  BY DEF EndSpread, ReturnFromFromBlock, NextBlock
<1>2. Marking' = Marking /\ Queue' = Queue
  BY <1>1 DEF Marking, Queue
<1>3. CASE EndSpread
  <2>1. pc = "spread" /\ todo = {} /\ pc' = "fromBlock" /\ cur' = cur
    BY <1>3 DEF EndSpread
  <2>2. ComesTo(fn, NextSpread(fn, cur, Marking, outer, Queue, PE, at, Returns(IntFlag), todo))
    BY <2>1, ComesFurther, StepOf DEF PathInv
  <2>3. ComesTo(fn, AtQueue(cur, Marking, outer, Queue, PE))
    BY <2>1, <2>2 DEF NextSpread
  <2>4. ComesTo(fn', AtQueue(cur', Marking', outer', Queue', PE'))
    BY <1>1, <1>2, <2>1, <2>3
  <2> QED
    BY <2>1, <2>4 DEF PathInv, PredLoop
<1>4. CASE ReturnFromFromBlock
  <2>1. pc = "fromBlock" /\ EEP = <<>> /\ pc' = "succs" /\ cur' = cur
    BY <1>4 DEF ReturnFromFromBlock
  <2>2. Queue = <<>>
    BY <2>1, QueueFacts DEF Queue, MarkInv, IInv, TypeOK
  <2>3. ComesTo(fn, NextQueued(fn, cur, Marking, outer, Queue, PE))
    BY <2>1, ComesFurther, StepOf DEF PathInv
  <2>4. ComesTo(fn, AtSuccs(cur, Marking, outer))
    BY <2>2, <2>3 DEF NextQueued
  <2>5. ComesTo(fn', AtSuccs(cur', Marking', outer'))
    BY <1>1, <1>2, <2>1, <2>4
  <2> QED
    BY <2>1, <2>5 DEF PathInv, PredLoop
<1>5. CASE NextBlock
  <2>1. pc = "succs" /\ outer = {} /\ pc' = "block" /\ cur' = cur + 1
    BY <1>5 DEF NextBlock
  <2>2. ComesTo(fn, NextSuccOf(fn, cur, Marking, outer))
    BY <2>1, ComesFurther, StepOf DEF PathInv
  <2>3. ComesTo(fn, AtBlock(cur + 1, Marking))
    BY <2>1, <2>2 DEF NextSuccOf
  <2>4. ComesTo(fn', AtBlock(cur', Marking'))
    BY <1>1, <1>2, <2>1, <2>3
  <2> QED
    BY <2>1, <2>4 DEF PathInv, PredLoop
<1> QED
  BY <1>3, <1>4, <1>5

(* Blocks that set no return flag, handle marks, and the checks.                    *)
LEMMA BlockPath ==
  ASSUME MarkInv, FlagInv, PathInv,
         \/ NoErrorInBlock \/ CallToErrHandle \/ NoErrHandle \/ NoReturnFlag \/ MarkHandle
         \/ (TakeBlock \/ ReturnFromBlocks) /\ pc = "handle"
         \/ StartIdentify \/ Identify \/ Done \/ UNCHANGED vars
  PROVE  PathInv'
<1>1. CASE NoErrorInBlock \/ NoReturnFlag
  <2>1. /\ pc \in {"block", "return"} /\ pc' = "block" /\ cur' = cur + 1 /\ UNCHANGED <<fn, edgeErr>>
        /\ cur \in Block /\ Written(fn, cur) = {}
    BY <1>1, StepTypes DEF NoErrorInBlock, NoReturnFlag, Written, Returns, MarkInv, IInv
  <2>2. ComesTo(fn, NextBlockOf(fn, cur, Marking))
    BY <2>1, ComesFurther, StepOf DEF PathInv
  <2>3. ~(cur > N)
    BY <2>1, NAssumption DEF Block
  <2>4. ComesTo(fn, AtBlock(cur + 1, Marking))
    BY <2>1, <2>2, <2>3 DEF NextBlockOf
  <2>5. Marking' = Marking
    BY <2>1 DEF Marking
  <2>6. ComesTo(fn', AtBlock(cur', Marking'))
    BY <2>1, <2>4, <2>5
  <2> QED
    BY <2>1, <2>6 DEF PathInv, PredLoop
<1>2. CASE CallToErrHandle \/ NoErrHandle \/ MarkHandle
           \/ ((TakeBlock \/ ReturnFromBlocks) /\ pc = "handle")
  <2>1. pc \in {"block", "handle"} /\ pc' \in {"handle", "return"} /\ UNCHANGED <<fn, cur>>
    BY <1>2 DEF CallToErrHandle, NoErrHandle, MarkHandle, TakeBlock, ReturnFromBlocks
  <2>2. Marking' = Marking
    <3>1. CASE MarkHandle
      <4>1. PICK a \in todo :
              edgeErr' = IF Handled(edgeErr[EdgeOf(fn, a)]) THEN edgeErr
                         ELSE WithHandle(EdgeOf(fn, a), {"Must_Handle_Err"})
        BY <3>1 DEF MarkHandle
      <4>2. TypeOK /\ EdgeOf(fn, a) \in Edge
        BY StepTypes DEF MarkInv, IInv, TypeOK
      <4> QED
        BY <4>1, <4>2, QuietFlags
    <3>2. CASE ~MarkHandle
      <4>1. edgeErr' = edgeErr
        BY <1>2, <3>2 DEF CallToErrHandle, NoErrHandle, TakeBlock, ReturnFromBlocks
      <4> QED
        BY <4>1 DEF Marking
    <3> QED
      BY <3>1, <3>2
  <2>3. ComesTo(fn', AtBlock(cur', Marking'))
    BY <2>1, <2>2 DEF PathInv
  <2> QED
    BY <2>1, <2>3 DEF PathInv, PredLoop
<1>3. CASE StartIdentify
  <2>1. pc = "block" /\ cur = N + 1 /\ pc' = "identify" /\ UNCHANGED <<fn, edgeErr>>
    BY <1>3 DEF StartIdentify
  <2>2. Marking' = Marking
    BY <2>1 DEF Marking
  <2>3. ComesTo(fn', AtBlock(N + 1, Marking'))
    BY <2>1, <2>2 DEF PathInv
  <2> QED
    BY <2>1, <2>3 DEF PathInv, PredLoop
<1>4. CASE Identify
  <2>1. pc = "identify" /\ pc' \in {"identify", "done"} /\ UNCHANGED <<fn, edgeErr>>
    BY <1>4 DEF Identify, IdentifyBranch, Finish
  <2>2. Marking' = Marking
    BY <2>1 DEF Marking
  <2>3. ComesTo(fn', AtBlock(N + 1, Marking'))
    BY <2>1, <2>2 DEF PathInv
  <2> QED
    BY <2>1, <2>3 DEF PathInv, PredLoop
<1>5. CASE Done \/ UNCHANGED vars
  <2>1. UNCHANGED <<fn, edgeErr, pc, cur, outer, todo, EB, PB, EEP, PE, at, IntFlag>>
    BY <1>5 DEF Done, vars, control
  <2>2. Marking' = Marking /\ Queue' = Queue /\ Still' = Still /\ Inner' = Inner
    BY <2>1 DEF Marking, Queue, Still, Inner
  <2>3. ASSUME NEW m, PredInv(m)
        PROVE  PredInv(m)'
    <3>1. MayInv(m) => MayInv(m)'
      BY <2>1, <2>2 DEF MayInv, MayBefore, Coming
    <3>2. MustInv(m) => MustInv(m)'
      BY <2>1, <2>2 DEF MustInv, Ready, Raising, Pending
    <3> QED
      BY <2>1, <2>2, <2>3, <3>1, <3>2 DEF PredInv
  <2>4. ASSUME NEW g, MergeInv(g)
        PROVE  MergeInv(g)'
    BY <2>1, <2>2, <2>4 DEF MergeInv
  <2> QED
    BY <2>1, <2>2, <2>3, <2>4 DEF PathInv
<1> QED
  BY <1>1, <1>2, <1>3, <1>4, <1>5

-----------------------------------------------------------------------------
(* The two closures.                                                           *)

LEMMA BackClosed ==
  ASSUME NEW f \in Functions, NEW b \in Block, NEW m
  PROVE  /\ Back(f, b, m) \subseteq Block
         /\ \A d \in EdgesOf(f) : d[2] = b \/ (d[2] \in Back(f, b, m) /\ m[d] # {"May_Return_Err"})
              => d[1] \in Back(f, b, m)
         /\ \A T \in SUBSET Block : LeadsBack(f, b, m, T) => Back(f, b, m) \subseteq T
<1>1. \A d \in EdgesOf(f) : d[1] \in Block
  BY EdgeFacts
<1>2. Back(f, b, m) \subseteq Block
  BY DEF Back
<1>3. ASSUME NEW T \in SUBSET Block, LeadsBack(f, b, m, T)
      PROVE  Back(f, b, m) \subseteq T
  BY <1>3 DEF Back
<1>4. ASSUME NEW d \in EdgesOf(f), d[2] = b \/ (d[2] \in Back(f, b, m) /\ m[d] # {"May_Return_Err"})
      PROVE  d[1] \in Back(f, b, m)
  <2>1. ASSUME NEW T \in SUBSET Block, LeadsBack(f, b, m, T)
        PROVE  d[1] \in T
    <3>1. Back(f, b, m) \subseteq T
      BY <1>3, <2>1
    <3> QED
      BY <1>4, <2>1, <3>1 DEF LeadsBack
  <2> QED
    BY <1>1, <2>1 DEF Back
<1> QED
  BY <1>2, <1>3, <1>4

LEMMA RaisedClosed ==
  ASSUME NEW f \in Functions, NEW b \in Block, NEW m
  PROVE  /\ Raised(f, b, m) \subseteq EdgesOf(f)
         /\ \A d \in EdgesOf(f) : d[2] = b => d \in Raised(f, b, m)
         /\ \A e \in Raised(f, b, m) : \A d \in EdgesOf(f) :
              d[2] = e[1] /\ (\A c \in EdgesOf(f) : c[1] = e[1] => Must(m[c]) \/ c \in Raised(f, b, m))
                => Must(m[d]) \/ d \in Raised(f, b, m)
         /\ \A X \in SUBSET EdgesOf(f) : RaisesBack(f, b, m, X) => Raised(f, b, m) \subseteq X
<1> DEFINE R == Raised(f, b, m)
<1>1. R \subseteq EdgesOf(f)
  BY DEF Raised
<1>2. ASSUME NEW X \in SUBSET EdgesOf(f), RaisesBack(f, b, m, X)
      PROVE  R \subseteq X
  BY <1>2 DEF Raised
<1>3. ASSUME NEW d \in EdgesOf(f), d[2] = b
      PROVE  d \in R
  BY <1>3 DEF Raised, RaisesBack
<1>4. ASSUME NEW e \in R, NEW d \in EdgesOf(f), d[2] = e[1],
             \A c \in EdgesOf(f) : c[1] = e[1] => Must(m[c]) \/ c \in R
      PROVE  Must(m[d]) \/ d \in R
  <2>1. ASSUME NEW X \in SUBSET EdgesOf(f), RaisesBack(f, b, m, X)
        PROVE  Must(m[d]) \/ d \in X
    <3>1. R \subseteq X
      BY <1>2, <2>1
    <3> HIDE DEF R
    <3>2. e \in X /\ \A c \in EdgesOf(f) : c[1] = e[1] => Must(m[c]) \/ c \in X
      BY <1>4, <3>1
    <3> QED
      BY <1>4, <2>1, <3>2 DEF RaisesBack
  <2> QED
    BY <2>1 DEF Raised
<1> QED
  BY <1>1, <1>2, <1>3, <1>4

(* What holds throughout the loop over the predecessors.                         *)
LEMMA PredFacts ==
  ASSUME MarkInv, FlagInv, Orderly(fn), pc \in PredLoop, Written(fn, cur) # {}
  PROVE  /\ TypeOK /\ fn \in Functions /\ cur \in Block
         /\ outer \in SUBSET In(fn, cur)
         /\ fn.bbErr[cur] \in SUBSET Flag /\ GoodFlag(fn.bbErr[cur])
         /\ \A d \in EdgesOf(fn) : d \in Edge
         /\ \A d \in Edge : /\ Marking[d] = Returns(edgeErr[d])
                            /\ Must(Marking[d]) <=> Must(edgeErr[d])
                            /\ Must(Marking[d]) <=> Marking[d] = {"Must_Return_Err"}
                            /\ May(Marking[d]) <=> Marking[d] = {"May_Return_Err"}
         /\ Must(fn.bbErr[cur]) <=> Written(fn, cur) = {"Must_Return_Err"}
         /\ May(fn.bbErr[cur]) <=> Written(fn, cur) = {"May_Return_Err"}
         /\ Must(fn.bbErr[cur]) <=> ~May(fn.bbErr[cur])
         /\ Must({"Must_Return_Err"}) /\ ~Must({"May_Return_Err"})
<1>1. TypeOK /\ fn \in Functions /\ edgeErr \in [Edge -> SUBSET Flag]
  BY DEF MarkInv, IInv, TypeOK
<1>2. cur \in Block
  BY <1>1, StepTypes DEF PredLoop
<1>3. outer \in SUBSET In(fn, cur)
  BY DEF MarkInv, OuterArcs
<1>4. \A d \in EdgesOf(fn) : d \in Edge
  BY <1>1, EdgeFacts
<1>5. ASSUME NEW d \in Edge
      PROVE  /\ Marking[d] = Returns(edgeErr[d])
             /\ Must(Marking[d]) <=> Must(edgeErr[d])
             /\ Must(Marking[d]) <=> Marking[d] = {"Must_Return_Err"}
             /\ May(Marking[d]) <=> Marking[d] = {"May_Return_Err"}
  <2>1. edgeErr[d] \in SUBSET Flag /\ OneFlag(edgeErr[d]) /\ Marking[d] = Returns(edgeErr[d])
    BY <1>1 DEF FlagInv, Marking
  <2> QED
    BY <2>1, OneReturn
<1>6. Must({"Must_Return_Err"}) /\ ~Must({"May_Return_Err"})
  BY DEF Must
<1>7. /\ fn.bbErr[cur] \in SUBSET Flag /\ GoodFlag(fn.bbErr[cur])
      /\ Must(fn.bbErr[cur]) <=> Written(fn, cur) = {"Must_Return_Err"}
      /\ May(fn.bbErr[cur]) <=> Written(fn, cur) = {"May_Return_Err"}
      /\ Must(fn.bbErr[cur]) \/ May(fn.bbErr[cur])
  BY <1>1, <1>2, GoodBlock
<1>8. Must(fn.bbErr[cur]) <=> ~May(fn.bbErr[cur])
  BY <1>7 DEF GoodFlag, OneFlag
<1> QED
  BY <1>1, <1>2, <1>3, <1>4, <1>5, <1>6, <1>7, <1>8

(* The loop starts with nothing marked by it, and leaves the marks of PredMarks.   *)
LEMMA StartPredsPath ==
  ASSUME MarkInv, FlagInv, PathInv, Orderly(fn), StartPreds
  PROVE  PathInv'
<1>1. /\ pc = "return" /\ pc' = "preds" /\ outer' = In(fn, cur)
      /\ UNCHANGED <<fn, edgeErr, cur>>
  BY DEF StartPreds
<1>2. TypeOK /\ fn \in Functions /\ cur \in Block /\ edgeErr \in [Edge -> SUBSET Flag]
  BY <1>1 DEF MarkInv, IInv, TypeOK
<1>3. PICK m \in [Edge -> SUBSET ReturnMask] : m = Marking
  <2>1. Marking \in [Edge -> SUBSET ReturnMask]
    BY <1>2 DEF Marking, Returns
  <2> QED
    BY <2>1
<1>4. Marking' = m
  BY <1>1, <1>3 DEF Marking
<1>5. \A d \in EdgesOf(fn) : d[2] = cur => d \in Still'
  BY <1>1, <1>2, EdgeFacts DEF Still
<1>6. MayInv(m)'
  BY <1>1, <1>4, <1>5 DEF MayInv
<1>7. MustInv(m)'
  BY <1>1, <1>4, <1>5 DEF MustInv
<1>8. PredInv(m)'
  BY <1>1, <1>5, <1>6, <1>7 DEF PredInv, ToBlockLoop
<1>9. ComesTo(fn', AtBlock(cur', m))
  BY <1>1, <1>3 DEF PathInv
<1> QED
  BY <1>1, <1>8, <1>9 DEF PathInv, PredLoop

LEMMA MayEnd ==
  ASSUME MarkInv, FlagInv, Orderly(fn), Written(fn, cur) # {}, pc = "preds", outer = {},
         May(fn.bbErr[cur]), NEW m, PredInv(m)
  PROVE  \A d \in Edge : Marking[d] = IF d \in Before(fn, cur, m) THEN Written(fn, cur) ELSE m[d]
<1>1. /\ fn \in Functions /\ cur \in Block /\ Written(fn, cur) = {"May_Return_Err"}
      /\ ~Must(fn.bbErr[cur]) /\ \A d \in EdgesOf(fn) : d \in Edge
  BY PredFacts DEF PredLoop
<1>2. MayInv(m) /\ Still = {}
  BY DEF PredInv, Still
<1>3. \A d \in EdgesOf(fn) : d[2] = cur => Marking[d] = {"May_Return_Err"}
  BY <1>1, <1>2 DEF PredInv
<1> DEFINE T == {x \in Block : MayBefore(x)}
<1>4. LeadsBack(fn, cur, m, T)
  <2> SUFFICES ASSUME NEW d \in EdgesOf(fn),
                      d[2] = cur \/ (d[2] \in T /\ m[d] # {"May_Return_Err"})
               PROVE  d[1] \in T
    BY DEF LeadsBack
  <2>1. Marking[d] = {"May_Return_Err"}
    BY <1>3 DEF MayBefore
  <2>2. MayBefore(d[1]) \/ Coming(d[1])
    BY <1>2, <2>1 DEF MayInv
  <2>3. ~Coming(d[1])
    BY DEF Coming
  <2>4. d[1] \in Block
    BY <1>1, EdgeFacts
  <2> QED
    BY <2>2, <2>3, <2>4
<1>5. Back(fn, cur, m) \subseteq T
  BY <1>1, <1>4, BackClosed
<1>6. ASSUME NEW d \in Before(fn, cur, m)
      PROVE  Marking[d] = Written(fn, cur)
  <2>1. d \in EdgesOf(fn) /\ (d[2] = cur \/ d[2] \in Back(fn, cur, m))
    BY <1>1 DEF Before
  <2> QED
    BY <1>1, <1>3, <1>5, <2>1 DEF MayBefore
<1>7. \A d \in Edge : d \notin Before(fn, cur, m) => Marking[d] = m[d]
  BY <1>2 DEF MayInv
<1> QED
  BY <1>6, <1>7

LEMMA MustEnd ==
  ASSUME MarkInv, FlagInv, Orderly(fn), Written(fn, cur) # {}, pc = "preds", outer = {},
         Must(fn.bbErr[cur]), NEW m, PredInv(m)
  PROVE  \A d \in Edge : Marking[d] = IF d \in Before(fn, cur, m) THEN Written(fn, cur) ELSE m[d]
<1>1. /\ fn \in Functions /\ cur \in Block /\ Written(fn, cur) = {"Must_Return_Err"}
      /\ \A d \in EdgesOf(fn) : d \in Edge
      /\ \A d \in Edge : Must(Marking[d]) <=> Marking[d] = {"Must_Return_Err"}
      /\ Must({"Must_Return_Err"})
  BY PredFacts DEF PredLoop
<1>2. MustInv(m) /\ Still = {}
  BY DEF PredInv, Still
<1>3. \A d \in EdgesOf(fn) : d[2] = cur => Must(Marking[d])
  BY <1>1, <1>2 DEF PredInv
<1>4. \A d \in Edge : Must(m[d]) => Must(Marking[d])
  BY <1>1, <1>2 DEF MustInv
<1>5. Before(fn, cur, m) = Raised(fn, cur, m)
  BY DEF Before
<1> DEFINE X == {e \in EdgesOf(fn) : Must(Marking[e]) /\ (~Must(m[e]) \/ e[2] = cur)}
<1>6. RaisesBack(fn, cur, m, X)
  <2>1. ASSUME NEW e \in X, NEW d \in EdgesOf(fn), d[2] = e[1],
               \A c \in EdgesOf(fn) : c[1] = e[1] => Must(m[c]) \/ c \in X
        PROVE  Must(m[d]) \/ d \in X
    <3>1. Ready(e[1])
      BY <1>1, <1>4, <2>1 DEF Ready
    <3>2. Raising(e[1]) \/ Pending(e[1])
      BY <1>2, <2>1, <3>1 DEF MustInv
    <3>3. ~Pending(e[1])
      BY DEF Pending
    <3>4. Must(Marking[d])
      BY <2>1, <3>2, <3>3 DEF Raising
    <3> QED
      BY <3>4
  <2>2. \A d \in EdgesOf(fn) : d[2] = cur => d \in X
    BY <1>3
  <2> HIDE DEF X
  <2> QED
    BY <2>1, <2>2 DEF RaisesBack
<1>7. Raised(fn, cur, m) \subseteq X
  <2>1. X \in SUBSET EdgesOf(fn)
    OBVIOUS
  <2> HIDE DEF X
  <2> QED
    BY <1>1, <1>6, <2>1, RaisedClosed
<1>8. \A d \in Raised(fn, cur, m) : Must(Marking[d]) /\ d \in Edge
  BY <1>1, <1>7
<1>9. \A d \in Edge : d \notin Before(fn, cur, m) => Marking[d] = m[d]
  BY <1>2 DEF MustInv
<1> QED
  BY <1>1, <1>5, <1>8, <1>9

LEMMA StartSuccsPath ==
  ASSUME MarkInv, FlagInv, PathInv, Orderly(fn), Written(fn, cur) # {}, StartSuccs
  PROVE  PathInv'
<1>1. /\ pc = "preds" /\ outer = {} /\ pc' = "succs" /\ outer' = Out(fn, cur)
      /\ UNCHANGED <<fn, edgeErr, cur>>
  BY DEF StartSuccs
<1>2. PICK m \in [Edge -> SUBSET ReturnMask] : ComesTo(fn, AtBlock(cur, m)) /\ PredInv(m)
  BY <1>1 DEF PathInv, PredLoop
<1>3. cur \in Block /\ (Must(fn.bbErr[cur]) <=> ~May(fn.bbErr[cur]))
  BY <1>1, PredFacts DEF PredLoop
<1>4. \A d \in Edge : Marking[d] = IF d \in Before(fn, cur, m) THEN Written(fn, cur) ELSE m[d]
  BY <1>1, <1>2, <1>3, MayEnd, MustEnd
<1>5. Marking = PredMarks(fn, cur, m)
  <2>1. Marking = [d \in Edge |-> Marking[d]]
    BY DEF Marking
  <2> QED
    BY <1>4, <2>1 DEF PredMarks
<1>6. ComesTo(fn, NextBlockOf(fn, cur, m))
  BY <1>2, ComesFurther, StepOf
<1>7. ~(cur > N)
  BY <1>3, NAssumption DEF Block
<1>8. ComesTo(fn, AtSuccs(cur, Marking, Out(fn, cur)))
  BY <1>5, <1>6, <1>7 DEF NextBlockOf
<1>9. Marking' = Marking
  BY <1>1 DEF Marking
<1>10. ComesTo(fn', AtSuccs(cur', Marking', outer'))
  BY <1>1, <1>8, <1>9
<1> QED
  BY <1>1, <1>10 DEF PathInv, PredLoop

-----------------------------------------------------------------------------
(* The loop over the predecessors, step by step, with May.                      *)

(* A worklist, entry by entry.                                                 *)
LEMMA WorklistTaken ==
  ASSUME NEW T, NEW s \in Seq(T), s # <<>>
  PROVE  /\ 1 \in DOMAIN s /\ Head(s) = s[1] /\ Tail(s) \in Seq(T)
         /\ \A i \in DOMAIN Tail(s) : i # 0 /\ i + 1 # 1 /\ i + 1 \in DOMAIN s /\ Tail(s)[i] = s[i + 1]
         /\ \A i \in DOMAIN s : i = 1 \/ \E j \in DOMAIN Tail(s) : Tail(s)[j] = s[i]
<1>1. /\ Len(s) \in Nat \ {0} /\ Head(s) = s[1] /\ Tail(s) \in Seq(T) /\ Len(Tail(s)) = Len(s) - 1
      /\ \A i \in 1 .. Len(Tail(s)) : Tail(s)[i] = s[i + 1]
  BY HeadTailProperties, EmptySeq, LenProperties
<1>2. DOMAIN s = 1 .. Len(s) /\ DOMAIN Tail(s) = 1 .. Len(s) - 1
  BY <1>1, LenProperties
<1>3. ASSUME NEW i \in DOMAIN s, i # 1
      PROVE  \E j \in DOMAIN Tail(s) : Tail(s)[j] = s[i]
  <2>1. i - 1 \in DOMAIN Tail(s) /\ (i - 1) + 1 = i
    BY <1>1, <1>2, <1>3
  <2>2. Tail(s)[i - 1] = s[(i - 1) + 1]
    BY <1>1, <1>2, <2>1
  <2> QED
    BY <2>1, <2>2
<1>4. \A i \in DOMAIN Tail(s) : i # 0 /\ i + 1 # 1 /\ i + 1 \in DOMAIN s /\ Tail(s)[i] = s[i + 1]
  BY <1>1, <1>2
<1>5. 1 \in DOMAIN s
  BY <1>1, <1>2
<1> QED
  BY <1>1, <1>3, <1>4, <1>5

LEMMA WorklistGrown ==
  ASSUME NEW T, NEW s \in Seq(T), NEW x \in T
  PROVE  /\ \A i \in DOMAIN s : i \in DOMAIN Append(s, x) /\ Append(s, x)[i] = s[i]
         /\ \E i \in DOMAIN Append(s, x) : Append(s, x)[i] = x
         /\ \A i \in DOMAIN Append(s, x) :
              (i \in DOMAIN s /\ Append(s, x)[i] = s[i]) \/ Append(s, x)[i] = x
<1>1. /\ Append(s, x) \in Seq(T) /\ Len(Append(s, x)) = Len(s) + 1 /\ Len(s) \in Nat
      /\ \A i \in 1 .. Len(s) : Append(s, x)[i] = s[i]
      /\ Append(s, x)[Len(s) + 1] = x
  BY AppendProperties, LenProperties
<1>2. DOMAIN s = 1 .. Len(s) /\ DOMAIN Append(s, x) = 1 .. Len(s) + 1
  BY <1>1, LenProperties
<1>3. Len(s) + 1 \in DOMAIN Append(s, x)
  BY <1>1, <1>2
<1> QED
  BY <1>1, <1>2, <1>3

(* An edge marked by the loop stays on the way to the block.                      *)
LEMMA MarkPredPred ==
  ASSUME MarkInv, FlagInv, Orderly(fn), Written(fn, cur) # {}, NEW m, PredInv(m), MarkPred
  PROVE  PredInv(m)'
<1>1. PICK a \in outer : MarkPred!2!(a)
  BY DEF MarkPred
<1>2. PICK e \in EdgesOf(fn) : e = EdgeOf(fn, a) /\ e[2] = cur /\ e \in Still
  <2>1. pc = "preds"
    BY DEF MarkPred
  <2>2. fn \in Functions /\ cur \in Block /\ a \in In(fn, cur)
    BY <2>1, PredFacts DEF PredLoop
  <2> QED
    BY <2>2, EdgeFacts DEF Still
<1>3. /\ pc = "preds" /\ pc' = "toBlock" /\ UNCHANGED <<fn, cur, todo, EB, PB>>
      /\ edgeErr' = WithReturn(e, fn.bbErr[cur]) /\ outer' = outer \ {a}
      /\ EEP' = <<[edge |-> e, flag |-> fn.bbErr[cur]]>> /\ PE' = {}
  BY <1>1, <1>2 DEF MarkPred
<1>4. /\ TypeOK /\ fn \in Functions /\ cur \in Block /\ outer \in SUBSET In(fn, cur)
      /\ fn.bbErr[cur] \in SUBSET Flag /\ GoodFlag(fn.bbErr[cur])
      /\ \A d \in EdgesOf(fn) : d \in Edge
      /\ Must(fn.bbErr[cur]) <=> Written(fn, cur) = {"Must_Return_Err"}
      /\ May(fn.bbErr[cur]) <=> Written(fn, cur) = {"May_Return_Err"}
      /\ Must({"Must_Return_Err"})
  BY <1>3, PredFacts DEF PredLoop
<1>5. Marking' = With(Marking, e, Written(fn, cur))
  <2>1. a \in Arcs(fn)
    BY DEF MarkInv, IInv, TypeOK
  <2> QED
    BY <1>2, <1>3, <1>4, <2>1, MarkingStep DEF Written
<1>6. \A d \in Edge : Marking'[d] = IF d = e THEN Written(fn, cur) ELSE Marking[d]
  BY <1>5 DEF With
<1>7. \A d : d \in Still => d = e \/ d \in Still'
  BY <1>2, <1>3 DEF Still
<1>8. \A i \in DOMAIN EEP' : i = 1 /\ EEP'[i].edge = e /\ EEP'[i].flag = fn.bbErr[cur]
  BY <1>3
<1>9. 1 \in DOMAIN EEP' /\ EEP'[1].edge = e
  BY <1>3
<1>10. \A d \in EdgesOf(fn) : d[2] = cur => d \in Still' \/ Marking'[d] = Written(fn, cur)
  BY <1>4, <1>6, <1>7 DEF PredInv
<1>11. ASSUME May(fn.bbErr[cur])
       PROVE  MayInv(m)'
  <2>1. Written(fn, cur) = {"May_Return_Err"} /\ ~Must(fn.bbErr[cur]) /\ MayInv(m)
    BY <1>4, <1>11 DEF PredInv, GoodFlag, OneFlag
  <2>2. e \in Before(fn, cur, m)
    BY <1>2, <2>1 DEF Before
  <2>3. \A d \in Edge : Marking'[d] = m[d] \/ (Marking'[d] = {"May_Return_Err"} /\ d \in Before(fn, cur, m))
    BY <1>6, <2>1, <2>2 DEF MayInv
  <2>4. \A x : MayBefore(x) => MayBefore(x)'
    BY <1>3, <1>4, <1>6, <2>1 DEF MayBefore
  <2>5. ASSUME NEW d \in EdgesOf(fn), Marking'[d] = {"May_Return_Err"},
               m[d] # {"May_Return_Err"} \/ (d[2] = cur /\ d \notin Still')
        PROVE  MayBefore(d[1])' \/ Coming(d[1])'
    <3>1. CASE d = e
      BY <1>3, <1>9, <3>1 DEF Coming
    <3>2. CASE d # e
      <4>1. /\ Marking[d] = {"May_Return_Err"}
            /\ m[d] # {"May_Return_Err"} \/ (d[2] = cur /\ d \notin Still)
        BY <1>4, <1>6, <1>7, <2>5, <3>2
      <4>2. MayBefore(d[1]) \/ Coming(d[1])
        BY <2>1, <4>1 DEF MayInv
      <4>3. ~Coming(d[1])
        BY <1>3 DEF Coming
      <4> QED
        BY <2>4, <4>2, <4>3
    <3> QED
      BY <3>1, <3>2
  <2> QED
    BY <1>2, <1>3, <1>8, <2>3, <2>5 DEF MayInv
<1>12. ASSUME Must(fn.bbErr[cur])
       PROVE  MustInv(m)'
  <2>1. Written(fn, cur) = {"Must_Return_Err"} /\ MustInv(m)
    BY <1>4, <1>12 DEF PredInv
  <2>2. e \in Before(fn, cur, m)
    BY <1>2, <1>4, <1>12, RaisedClosed DEF Before
  <2>3. \A d \in Edge : Marking'[d] = m[d] \/ (Marking'[d] = {"Must_Return_Err"} /\ d \in Before(fn, cur, m))
    BY <1>6, <2>1, <2>2 DEF MustInv
  <2>4. Must(Marking'[e])
    BY <1>4, <1>6, <2>1
  <2>5. ASSUME NEW c \in EdgesOf(fn), Must(Marking'[c]),
               ~Must(m[c]) \/ (c[2] = cur /\ c \notin Still'), Ready(c[1])'
        PROVE  Raising(c[1])' \/ Pending(c[1])'
    <3>1. CASE c[1] = e[1]
      BY <1>3, <1>9, <3>1 DEF Pending
    <3>2. CASE c[1] # e[1]
      <4>1. /\ Must(Marking[c])
            /\ ~Must(m[c]) \/ (c[2] = cur /\ c \notin Still)
        BY <1>4, <1>6, <1>7, <2>5, <3>2
      <4>2. Ready(c[1])
        BY <1>3, <1>4, <1>6, <2>5, <3>2 DEF Ready
      <4>3. Raising(c[1]) \/ Pending(c[1])
        BY <2>1, <4>1, <4>2 DEF MustInv
      <4>4. ~Pending(c[1])
        BY <1>3 DEF Pending
      <4>5. \A d \in EdgesOf(fn) : d[2] = c[1] => Must(Marking[d])
        BY <1>3, <4>3, <4>4 DEF Raising
      <4> QED
        BY <1>3, <1>4, <1>6, <2>1, <4>5 DEF Raising
    <3> QED
      BY <3>1, <3>2
  <2> QED
    BY <1>3, <1>8, <2>2, <2>3, <2>4, <2>5 DEF MustInv
<1> QED
  BY <1>3, <1>8, <1>10, <1>11, <1>12 DEF PredInv, Written

(* With May, the worklist of edges holds the edge marked last and no other.         *)
LEMMA TakeToBlockMay ==
  ASSUME MarkInv, FlagInv, Orderly(fn), Written(fn, cur) # {}, May(fn.bbErr[cur]),
         NEW m, PredInv(m), TakeToBlock
  PROVE  PredInv(m)'
<1>a. PICK e, flag : e = Head(EEP).edge /\ flag = Head(EEP).flag
  OBVIOUS
<1>1. /\ pc = "toBlock" /\ EEP # <<>> /\ EEP' = Tail(EEP) /\ PE' = PE \cup {e}
      /\ UNCHANGED <<fn, edgeErr, cur, outer>>
      /\ \/ pc' = pc /\ (e \in PE \/ In(fn, e[1]) = {} \/ Returns(flag) = {} \/ ~May(flag))
            /\ UNCHANGED <<todo, EB, PB>>
         \/ pc' = "toReturn" /\ EB' = <<e[1]>> /\ PB' = {} /\ todo' = todo
         \/ pc' = "raise" /\ ~May(flag)
  BY <1>a DEF TakeToBlock
<1>2. /\ TypeOK /\ fn \in Functions /\ cur \in Block
      /\ \A d \in EdgesOf(fn) : d \in Edge
      /\ ~Must(fn.bbErr[cur]) /\ Written(fn, cur) = {"May_Return_Err"}
  BY <1>1, PredFacts DEF PredLoop
<1>3. MayInv(m) /\ Marking' = Marking /\ Still' = Still
  BY <1>1 DEF PredInv, Marking, Still
<1>4. EEP \in Seq(EdgeFlag)
  BY <1>2 DEF TypeOK
<1>5. /\ 1 \in DOMAIN EEP /\ Head(EEP) = EEP[1]
      /\ \A i \in DOMAIN Tail(EEP) : i + 1 # 1 /\ i + 1 \in DOMAIN EEP
  BY <1>1, <1>4, WorklistTaken
<1>6. /\ e \in EdgesOf(fn) /\ e[2] = cur /\ e \notin PE
      /\ \A i \in DOMAIN EEP : EEP[i].edge = e
      /\ DOMAIN EEP' = {}
  BY <1>a, <1>1, <1>3, <1>5 DEF MayInv
<1>7. EEP' = <<>>
  <2>1. EEP' \in Seq(EdgeFlag)
    BY <1>1, <1>4, WorklistTaken
  <2>2. Len(EEP') \in Nat /\ DOMAIN EEP' = 1 .. Len(EEP')
    BY <2>1, LenProperties
  <2>3. Len(EEP') = 0
    BY <1>6, <2>2
  <2> QED
    BY <2>1, <2>3, EmptySeq
<1>8. May(flag) /\ Returns(flag) # {}
  <2>1. Returns(flag) = {"May_Return_Err"}
    BY <1>a, <1>1, <1>2, <1>5 DEF PredInv, ToBlockLoop
  <2> QED
    BY <2>1 DEF May, Returns
<1>9. Inner = {}
  BY <1>1 DEF Inner, MarkInv, IInv, HandleInv, InnerLoopsEmpty
<1>10. \A x : MayBefore(x)' <=> MayBefore(x)
  BY <1>1, <1>3 DEF MayBefore
<1>11. \A x : Coming(x) => x = e[1]
  BY <1>1, <1>6 DEF Coming
<1>12. CASE pc' = pc
  <2>1. In(fn, e[1]) = {}
    BY <1>1, <1>6, <1>8, <1>12
  <2>2. MayBefore(e[1])
    BY <1>2, <2>1, EdgeFacts DEF MayBefore
  <2>3. MayInv(m)'
    BY <1>1, <1>3, <1>6, <1>10, <1>11, <1>12, <2>2 DEF MayInv
  <2> QED
    BY <1>1, <1>2, <1>3, <1>6, <2>3 DEF PredInv
<1>13. CASE pc' = "toReturn"
  <2>1. EB' = <<e[1]>> /\ PB' = {} /\ todo' = todo
    BY <1>1, <1>13
  <2>2. Coming(e[1])'
    <3>1. 1 \in DOMAIN EB' /\ EB'[1] = e[1]
      BY <2>1
    <3> QED
      BY <1>13, <3>1 DEF Coming
  <2>3. Inner' = {}
    BY <1>1, <1>9, <2>1 DEF Inner
  <2>4. e[1] \in Back(fn, cur, m)
    BY <1>2, <1>6, BackClosed
  <2>5. \A i \in DOMAIN EB' : EB'[i] \in Back(fn, cur, m)
    BY <2>1, <2>4
  <2>6. MayInv(m)'
    <3>1. \A x : Coming(x) => Coming(x)'
      BY <1>11, <2>2
    <3> QED
      BY <1>1, <1>3, <1>7, <1>10, <1>13, <2>1, <2>3, <2>5, <3>1 DEF MayInv
  <2> QED
    BY <1>1, <1>2, <1>3, <1>6, <2>6 DEF PredInv
<1> QED
  BY <1>1, <1>8, <1>12, <1>13

(* recurMarkEdgesToErrReturn is only called with May on its way.                   *)
LEMMA ReturnFacts ==
  ASSUME MarkInv, FlagInv, Orderly(fn), Written(fn, cur) # {}, pc = "toReturn", NEW m, PredInv(m)
  PROVE  /\ TypeOK /\ fn \in Functions /\ cur \in Block /\ EB \in Seq(Block)
         /\ \A d \in EdgesOf(fn) : d \in Edge
         /\ ~Must(fn.bbErr[cur]) /\ Written(fn, cur) = {"May_Return_Err"}
         /\ MayInv(m) /\ EEP = <<>>
         /\ \A d : d \in Before(fn, cur, m) <=>
              d \in EdgesOf(fn) /\ (d[2] = cur \/ d[2] \in Back(fn, cur, m))
<1>1. /\ TypeOK /\ fn \in Functions /\ cur \in Block
      /\ \A d \in EdgesOf(fn) : d \in Edge
      /\ May(fn.bbErr[cur]) <=> Written(fn, cur) = {"May_Return_Err"}
      /\ Must(fn.bbErr[cur]) <=> ~May(fn.bbErr[cur])
  BY PredFacts DEF PredLoop
<1>2. ~Must(fn.bbErr[cur])
  BY DEF PredInv, MustInv
<1>3. MayInv(m)
  BY <1>1, <1>2 DEF PredInv
<1> QED
  BY <1>1, <1>2, <1>3 DEF TypeOK, MayInv, Before

(* What a step of the walk has to show.                                          *)
LEMMA ReturnKept ==
  ASSUME MarkInv, FlagInv, Orderly(fn), Written(fn, cur) # {}, pc = "toReturn", NEW m, PredInv(m),
         UNCHANGED <<fn, cur, outer, EEP>>, pc' = "toReturn",
         \A d \in Edge : Marking'[d] = Marking[d]
                         \/ (Marking'[d] = {"May_Return_Err"} /\ d \in Before(fn, cur, m)),
         \A i \in DOMAIN EB' : EB'[i] \in Back(fn, cur, m),
         \A d \in Inner' : d[2] \in Back(fn, cur, m),
         \A d \in EdgesOf(fn) : d[2] \in PB' => Marking'[d] = {"May_Return_Err"} \/ d \in Inner',
         \A x : Coming(x) => Coming(x)',
         \A d \in EdgesOf(fn) : Marking'[d] # Marking[d] => Coming(d[1])'
  PROVE  PredInv(m)'
<1>1. /\ fn \in Functions /\ cur \in Block /\ \A d \in EdgesOf(fn) : d \in Edge
      /\ ~Must(fn.bbErr[cur]) /\ Written(fn, cur) = {"May_Return_Err"}
      /\ MayInv(m) /\ EEP = <<>>
  BY ReturnFacts
<1>2. Still' = Still
  BY DEF Still
<1>3. \A d \in EdgesOf(fn) : d[2] = cur => d \in Still \/ Marking'[d] = {"May_Return_Err"}
  BY <1>1 DEF PredInv
<1>4. \A x : MayBefore(x) => MayBefore(x)'
  BY <1>1 DEF MayBefore
<1>5. \A d \in Edge : Marking'[d] = m[d] \/ (Marking'[d] = {"May_Return_Err"} /\ d \in Before(fn, cur, m))
  BY <1>1 DEF MayInv
<1>6. ASSUME NEW d \in EdgesOf(fn), Marking'[d] = {"May_Return_Err"},
             m[d] # {"May_Return_Err"} \/ (d[2] = cur /\ d \notin Still)
      PROVE  MayBefore(d[1])' \/ Coming(d[1])'
  <2>1. CASE Marking'[d] # Marking[d]
    BY <2>1
  <2>2. CASE Marking'[d] = Marking[d]
    <3>1. MayBefore(d[1]) \/ Coming(d[1])
      BY <1>1, <1>6, <2>2 DEF MayInv
    <3> QED
      BY <1>4, <3>1
  <2> QED
    BY <2>1, <2>2
<1>7. MayInv(m)'
  BY <1>1, <1>2, <1>5, <1>6 DEF MayInv
<1>8. \A i \in DOMAIN EEP' : Returns(EEP'[i].flag) = Written(fn, cur)
  BY <1>1
<1> QED
  BY <1>1, <1>2, <1>3, <1>7, <1>8 DEF PredInv, Written

LEMMA TakeReturn ==
  ASSUME MarkInv, FlagInv, Orderly(fn), Written(fn, cur) # {}, NEW m, PredInv(m),
         TakeBlock, pc = "toReturn"
  PROVE  PredInv(m)'
<1>a. PICK b : b = Head(EB)
  OBVIOUS
<1>1. /\ pc' = "toReturn" /\ todo = {} /\ EB # <<>> /\ EB' = Tail(EB) /\ PB' = PB \cup {b}
      /\ todo' = (IF b \in PB THEN {} ELSE In(fn, b))
      /\ UNCHANGED <<fn, edgeErr, cur, outer, EEP>>
  BY <1>a DEF TakeBlock
<1>2. fn \in Functions /\ EB \in Seq(Block) /\ MayInv(m) /\ \A d \in EdgesOf(fn) : d \in Edge
  BY ReturnFacts
<1>3. /\ 1 \in DOMAIN EB /\ b = EB[1] /\ b \in Block
      /\ \A i \in DOMAIN EB' : i + 1 \in DOMAIN EB /\ EB'[i] = EB[i + 1]
      /\ \A i \in DOMAIN EB : i = 1 \/ \E j \in DOMAIN EB' : EB'[j] = EB[i]
  BY <1>a, <1>1, <1>2, WorklistTaken, ElementOfSeq, HeadTailProperties
<1>4. Marking' = Marking /\ Inner = {}
  BY <1>1 DEF Marking, Inner
<1>5. Inner' = IF b \in PB THEN {} ELSE {EdgeOf(fn, a) : a \in In(fn, b)}
  BY <1>1 DEF Inner
<1>6. \A i \in DOMAIN EB : EB[i] \in Back(fn, cur, m)
  BY <1>2 DEF MayInv
<1>7. \A i \in DOMAIN EB' : EB'[i] \in Back(fn, cur, m)
  BY <1>3, <1>6
<1>8. \A d \in Inner' : d[2] \in Back(fn, cur, m)
  BY <1>2, <1>3, <1>5, <1>6, EdgeFacts
<1>9. ASSUME NEW d \in EdgesOf(fn), d[2] \in PB'
      PROVE  Marking'[d] = {"May_Return_Err"} \/ d \in Inner'
  <2>1. CASE d[2] \in PB
    BY <1>2, <1>4, <2>1 DEF MayInv
  <2>2. CASE d[2] \notin PB
    BY <1>1, <1>2, <1>5, <1>9, <2>2, EdgeFacts
  <2> QED
    BY <2>1, <2>2
<1>10. ASSUME NEW x, Coming(x)
       PROVE  Coming(x)'
  <2>1. x \in PB \/ \E i \in DOMAIN EB : EB[i] = x
    BY <1>10 DEF Coming
  <2>2. x \in PB' \/ \E i \in DOMAIN EB' : EB'[i] = x
    BY <1>1, <1>3, <2>1
  <2> QED
    BY <1>1, <2>2 DEF Coming
<1> QED
  BY <1>1, <1>2, <1>4, <1>7, <1>8, <1>9, <1>10, ReturnKept

LEMMA MarkReturnStep ==
  ASSUME MarkInv, FlagInv, Orderly(fn), Written(fn, cur) # {}, NEW m, PredInv(m), MarkReturn
  PROVE  PredInv(m)'
<1>1. PICK a \in todo : MarkReturn!2!(a)
  BY DEF MarkReturn
<1>2. PICK e : e = EdgeOf(fn, a)
  OBVIOUS
<1>3. /\ pc = "toReturn" /\ pc' = "toReturn" /\ UNCHANGED <<fn, cur, outer, EEP, PB>>
      /\ todo' = todo \ {a}
      /\ IF Returns(edgeErr[e]) = {"May_Return_Err"} THEN UNCHANGED <<edgeErr, EB>>
         ELSE edgeErr' = WithReturn(e, {"May_Return_Err"}) /\ EB' = Append(EB, a[1])
  BY <1>1, <1>2 DEF MarkReturn
<1>4. /\ TypeOK /\ fn \in Functions /\ cur \in Block /\ EB \in Seq(Block) /\ MayInv(m)
      /\ \A d \in EdgesOf(fn) : d \in Edge
      /\ \A d : d \in Before(fn, cur, m) <=>
           d \in EdgesOf(fn) /\ (d[2] = cur \/ d[2] \in Back(fn, cur, m))
  BY <1>3, ReturnFacts
<1>5. /\ a \in Arcs(fn) /\ e \in EdgesOf(fn) /\ e[1] = a[1] /\ e \in Inner /\ a[1] \in Block
      /\ \A d \in Inner : d = e \/ d \in Inner'
      /\ Inner' \subseteq Inner
  <2>1. a \in Arcs(fn)
    BY <1>4 DEF TypeOK
  <2> QED
    BY <1>2, <1>3, <1>4, <2>1, ArcFacts DEF Inner
<1>6. Marking[e] = Returns(edgeErr[e])
  BY <1>4, <1>5 DEF Marking
<1>7. e[2] \in Back(fn, cur, m) /\ e \in Before(fn, cur, m)
  BY <1>3, <1>4, <1>5 DEF MayInv
<1>8. \A d \in Inner' : d[2] \in Back(fn, cur, m)
  BY <1>3, <1>4, <1>5 DEF MayInv
<1>9. CASE Returns(edgeErr[e]) = {"May_Return_Err"}
  <2>1. edgeErr' = edgeErr /\ EB' = EB /\ PB' = PB
    BY <1>3, <1>9
  <2>2. Marking' = Marking
    BY <2>1 DEF Marking
  <2>3. \A x : Coming(x) => Coming(x)'
    BY <1>3, <2>1 DEF Coming
  <2>4. \A i \in DOMAIN EB' : EB'[i] \in Back(fn, cur, m)
    BY <1>3, <1>4, <2>1 DEF MayInv
  <2>5. \A d \in EdgesOf(fn) : d[2] \in PB' => Marking'[d] = {"May_Return_Err"} \/ d \in Inner'
    BY <1>3, <1>4, <1>5, <1>6, <1>9, <2>1, <2>2 DEF MayInv
  <2> QED
    BY <1>3, <1>8, <2>2, <2>3, <2>4, <2>5, ReturnKept
<1>10. CASE Returns(edgeErr[e]) # {"May_Return_Err"}
  <2>1. edgeErr' = WithReturn(e, {"May_Return_Err"}) /\ EB' = Append(EB, a[1]) /\ PB' = PB
    BY <1>3, <1>10
  <2>2. Marking' = With(Marking, e, {"May_Return_Err"})
    <3>1. LET f == {"May_Return_Err"} IN f \in SUBSET Flag /\ GoodFlag(f) /\ Returns(f) = f
      BY DEF GoodFlag, OneFlag, Must, May, Returns, ReturnMask, Flag
    <3> QED
      BY <1>2, <1>4, <1>5, <2>1, <3>1, MarkingStep
  <2>3. \A d \in Edge : Marking'[d] = IF d = e THEN {"May_Return_Err"} ELSE Marking[d]
    BY <2>2 DEF With
  <2>4. e[1] \in Back(fn, cur, m)
    <3>1. m[e] # {"May_Return_Err"}
      BY <1>4, <1>5, <1>6, <1>10 DEF MayInv
    <3> QED
      BY <1>4, <1>5, <1>7, <3>1, BackClosed
  <2>5. /\ \A i \in DOMAIN EB : i \in DOMAIN EB' /\ EB'[i] = EB[i]
        /\ \E i \in DOMAIN EB' : EB'[i] = a[1]
        /\ \A i \in DOMAIN EB' : (i \in DOMAIN EB /\ EB'[i] = EB[i]) \/ EB'[i] = a[1]
    BY <1>4, <1>5, <2>1, WorklistGrown
  <2>6. \A i \in DOMAIN EB' : EB'[i] \in Back(fn, cur, m)
    BY <1>3, <1>4, <1>5, <2>4, <2>5 DEF MayInv
  <2>7. ASSUME NEW x, Coming(x)
        PROVE  Coming(x)'
    <3>1. x \in PB \/ \E i \in DOMAIN EB : EB[i] = x
      BY <1>3, <2>7 DEF Coming
    <3>2. x \in PB' \/ \E i \in DOMAIN EB' : EB'[i] = x
      BY <2>1, <2>5, <3>1
    <3> QED
      BY <1>3, <3>2 DEF Coming
  <2>8. Coming(e[1])'
    <3>1. \E i \in DOMAIN EB' : EB'[i] = e[1]
      BY <1>5, <2>5
    <3> QED
      BY <1>3, <3>1 DEF Coming
  <2>9. \A d \in EdgesOf(fn) : Marking'[d] # Marking[d] => Coming(d[1])'
    BY <1>4, <2>3, <2>8
  <2>10. \A d \in EdgesOf(fn) : d[2] \in PB' => Marking'[d] = {"May_Return_Err"} \/ d \in Inner'
    BY <1>3, <1>4, <1>5, <2>1, <2>3 DEF MayInv
  <2>11. \A d \in Edge : Marking'[d] = Marking[d]
                         \/ (Marking'[d] = {"May_Return_Err"} /\ d \in Before(fn, cur, m))
    BY <1>7, <2>3
  <2> QED
    BY <1>3, <1>8, <2>6, <2>7, <2>9, <2>10, <2>11, ReturnKept
<1> QED
  BY <1>9, <1>10

(* The walk ends when all edges into the blocks it took are marked.                 *)
LEMMA EndReturn ==
  ASSUME MarkInv, FlagInv, Orderly(fn), Written(fn, cur) # {}, NEW m, PredInv(m),
         ReturnFromBlocks, pc = "toReturn"
  PROVE  PredInv(m)'
<1>1. /\ pc' = "toBlock" /\ todo = {} /\ EB = <<>>
      /\ UNCHANGED <<fn, edgeErr, cur, outer, EEP, PE>>
  BY DEF ReturnFromBlocks
<1>2. /\ ~Must(fn.bbErr[cur]) /\ MayInv(m) /\ EEP = <<>>
  BY ReturnFacts
<1>3. Marking' = Marking /\ Still' = Still /\ Inner = {}
  BY <1>1 DEF Marking, Still, Inner
<1>4. \A x : MayBefore(x) => MayBefore(x)'
  BY <1>1, <1>3 DEF MayBefore
<1>5. \A x : Coming(x) => MayBefore(x)
  BY <1>1, <1>2, <1>3 DEF Coming, MayInv, MayBefore
<1>6. DOMAIN EEP' = {}
  BY <1>1, <1>2
<1>7. MayInv(m)'
  BY <1>1, <1>2, <1>3, <1>4, <1>5, <1>6 DEF MayInv
<1> QED
  BY <1>1, <1>2, <1>3, <1>6, <1>7 DEF PredInv, Written

-----------------------------------------------------------------------------
(* The loop over the predecessors, step by step, with Must.                      *)

(* A block of two successors has one edge beside each of its edges.               *)
LEMMA OneBeside ==
  ASSUME TypeOK, FlagInv, Orderly(fn), NEW e \in EdgesOf(fn), Must(edgeErr[e])
  PROVE  /\ AllZero(e) \/ AllMust(e)
         /\ AllMust(e) => \A c \in EdgesOf(fn) : c[1] = e[1] => Must(edgeErr[c])
         /\ ~AllMust(e) => \E c \in EdgesOf(fn) : c[1] = e[1] /\ ~Must(edgeErr[c])
<1>1. fn \in Functions
  BY DEF TypeOK
<1>2. ASSUME NEW flag \in FlagsBeside(e)
      PROVE  \E d \in EdgesOf(fn) : d[1] = e[1] /\ d # e /\ flag = edgeErr[d] /\ (Must(flag) => ~May(flag))
  <2>1. PICK a \in Out(fn, e[1]) : EdgeOf(fn, a) # e /\ flag = edgeErr[EdgeOf(fn, a)]
    BY DEF FlagsBeside
  <2>2. EdgeOf(fn, a) \in EdgesOf(fn) /\ EdgeOf(fn, a)[1] = e[1] /\ EdgeOf(fn, a) \in Edge
    BY <1>1, <2>1, EdgeFacts
  <2>3. Must(flag) => ~May(flag)
    BY <2>1, <2>2 DEF FlagInv, OneFlag
  <2> QED
    BY <2>1, <2>2, <2>3
<1>3. ASSUME NEW d \in EdgesOf(fn), d[1] = e[1], d # e
      PROVE  edgeErr[d] \in FlagsBeside(e)
  <2>1. PICK a \in Out(fn, d[1]) : d = EdgeOf(fn, a)
    BY <1>1, EdgeFacts
  <2> QED
    BY <1>3, <2>1 DEF FlagsBeside
<1>4. ASSUME ~AllMust(e)
      PROVE  \E d \in EdgesOf(fn) : d[1] = e[1] /\ d # e /\ ~Must(edgeErr[d])
  BY <1>2, <1>4 DEF AllMust
<1>5. ASSUME ~AllZero(e)
      PROVE  \E d \in EdgesOf(fn) : d[1] = e[1] /\ d # e /\ Must(edgeErr[d])
  BY <1>2, <1>5 DEF AllZero
<1>6. AllZero(e) \/ AllMust(e)
  <2> SUFFICES ASSUME ~AllMust(e), ~AllZero(e)
               PROVE  FALSE
    OBVIOUS
  <2>1. PICK c \in EdgesOf(fn) : c[1] = e[1] /\ c # e /\ ~Must(edgeErr[c])
    BY <1>4
  <2>2. PICK d \in EdgesOf(fn) : d[1] = e[1] /\ d # e /\ Must(edgeErr[d])
    BY <1>5
  <2> QED
    BY <2>1, <2>2 DEF Orderly, TwoWay
<1>7. ASSUME AllMust(e), NEW c \in EdgesOf(fn), c[1] = e[1]
      PROVE  Must(edgeErr[c])
  <2>1. CASE c = e
    BY <2>1
  <2>2. CASE c # e
    BY <1>3, <1>7, <2>2 DEF AllMust
  <2> QED
    BY <2>1, <2>2
<1> QED
  BY <1>4, <1>6, <1>7

LEMMA MustFacts ==
  ASSUME MarkInv, FlagInv, Orderly(fn), Written(fn, cur) # {}, pc \in PredLoop,
         NEW m, PredInv(m), Must(fn.bbErr[cur])
  PROVE  /\ TypeOK /\ fn \in Functions /\ cur \in Block /\ EEP \in Seq(EdgeFlag)
         /\ \A d \in EdgesOf(fn) : d \in Edge
         /\ \A d \in Edge : Must(Marking[d]) <=> Must(edgeErr[d])
         /\ ~May(fn.bbErr[cur]) /\ Written(fn, cur) = {"Must_Return_Err"}
         /\ MustInv(m) /\ Before(fn, cur, m) = Raised(fn, cur, m)
         /\ \A d \in Edge : Must(m[d]) => Must(Marking[d])
         /\ \A d \in Edge : Must(Marking[d]) => Must(m[d]) \/ d \in Before(fn, cur, m)
<1>1. /\ TypeOK /\ fn \in Functions /\ cur \in Block
      /\ \A d \in EdgesOf(fn) : d \in Edge
      /\ \A d \in Edge : Must(Marking[d]) <=> Must(edgeErr[d])
      /\ Must(fn.bbErr[cur]) <=> Written(fn, cur) = {"Must_Return_Err"}
      /\ Must(fn.bbErr[cur]) <=> ~May(fn.bbErr[cur])
      /\ Must({"Must_Return_Err"})
  BY PredFacts
<1>2. MustInv(m)
  BY DEF PredInv
<1>3. /\ \A d \in Edge : Must(m[d]) => Must(Marking[d])
      /\ \A d \in Edge : Must(Marking[d]) => Must(m[d]) \/ d \in Before(fn, cur, m)
  BY <1>1, <1>2 DEF MustInv
<1>4. Before(fn, cur, m) = Raised(fn, cur, m) /\ EEP \in Seq(EdgeFlag)
  BY <1>1 DEF Before, TypeOK
<1> QED
  BY <1>1, <1>2, <1>3, <1>4

(* Steps that mark no edge.                                                     *)
LEMMA MustKeptInv ==
  ASSUME MarkInv, FlagInv, Orderly(fn), Written(fn, cur) # {}, pc \in PredLoop,
         NEW m, PredInv(m), Must(fn.bbErr[cur]),
         UNCHANGED <<fn, edgeErr, cur, outer>>, pc' \in PredLoop \ {"toReturn"},
         pc' \in {"toBlock", "raise"} =>
           /\ \A i \in DOMAIN EEP' : \E j \in DOMAIN EEP : EEP'[i] = EEP[j]
           /\ pc \in {"toBlock", "raise"} /\ \A e \in PE' : Must(Marking[e]),
         pc' = "raise" => \A d \in Inner' : Must(m[d]) \/ d \in Before(fn, cur, m),
         \A x : Ready(x) /\ (Raising(x) \/ Pending(x)) => Raising(x)' \/ Pending(x)'
  PROVE  PredInv(m)'
<1>1. ~May(fn.bbErr[cur]) /\ MustInv(m)
  BY MustFacts
<1>2. Marking' = Marking /\ Still' = Still
  BY DEF Marking, Still
<1>3. \A x : Ready(x)' <=> Ready(x)
  BY <1>2 DEF Ready
<1>4. MustInv(m)'
  <2>1. pc' # "toReturn"
    OBVIOUS
  <2>2. \A d \in Edge : Marking[d] = m[d] \/ (Marking[d] = {"Must_Return_Err"} /\ d \in Before(fn, cur, m))
    BY <1>1 DEF MustInv
  <2>3. pc' \in {"toBlock", "raise"} =>
          \A i \in DOMAIN EEP' : EEP'[i].edge \in Before(fn, cur, m) /\ Must(Marking[EEP'[i].edge])
    BY <1>1 DEF MustInv
  <2>4. \A e \in EdgesOf(fn) :
          Must(Marking[e]) /\ (~Must(m[e]) \/ (e[2] = cur /\ e \notin Still)) /\ Ready(e[1])
            => Raising(e[1])' \/ Pending(e[1])'
    BY <1>1 DEF MustInv
  <2> QED
    BY <1>2, <1>3, <2>1, <2>2, <2>3, <2>4 DEF MustInv
<1>5. pc' \in ToBlockLoop => \A i \in DOMAIN EEP' : Returns(EEP'[i].flag) = Written(fn, cur)
  BY DEF PredInv, ToBlockLoop
<1>6. \A d \in EdgesOf(fn) : d[2] = cur => d \in Still \/ Marking[d] = Written(fn, cur)
  BY DEF PredInv
<1> QED
  BY <1>1, <1>2, <1>4, <1>5, <1>6 DEF PredInv, Written

LEMMA TakeToBlockMust ==
  ASSUME MarkInv, FlagInv, Orderly(fn), Written(fn, cur) # {}, Must(fn.bbErr[cur]),
         NEW m, PredInv(m), TakeToBlock
  PROVE  PredInv(m)'
<1>a. PICK e, flag : e = Head(EEP).edge /\ flag = Head(EEP).flag
  OBVIOUS
<1>1. /\ pc = "toBlock" /\ EEP # <<>> /\ EEP' = Tail(EEP) /\ PE' = PE \cup {e}
      /\ UNCHANGED <<fn, edgeErr, cur, outer>>
      /\ \/ /\ pc' = pc
            /\ e \in PE \/ In(fn, e[1]) = {} \/ Returns(flag) = {} \/ ~AllMust(e)
         \/ /\ pc' = "toReturn"
            /\ May(flag) \/ (~AllZero(e) /\ ~AllMust(e))
         \/ pc' = "raise" /\ AllMust(e) /\ todo' = In(fn, e[1])
  BY <1>a DEF TakeToBlock
<1>2. /\ TypeOK /\ fn \in Functions /\ cur \in Block /\ EEP \in Seq(EdgeFlag)
      /\ \A d \in EdgesOf(fn) : d \in Edge
      /\ \A d \in Edge : Must(Marking[d]) <=> Must(edgeErr[d])
      /\ Written(fn, cur) = {"Must_Return_Err"}
      /\ MustInv(m) /\ Before(fn, cur, m) = Raised(fn, cur, m)
      /\ \A d \in Edge : Must(Marking[d]) => Must(m[d]) \/ d \in Before(fn, cur, m)
  BY <1>1, MustFacts DEF PredLoop
<1>3. /\ 1 \in DOMAIN EEP /\ Head(EEP) = EEP[1]
      /\ \A i \in DOMAIN Tail(EEP) : i + 1 \in DOMAIN EEP /\ Tail(EEP)[i] = EEP[i + 1]
      /\ \A i \in DOMAIN EEP : i = 1 \/ \E j \in DOMAIN Tail(EEP) : Tail(EEP)[j] = EEP[i]
  BY <1>1, <1>2, WorklistTaken
<1>4. e \in Before(fn, cur, m) /\ Must(Marking[e])
  BY <1>a, <1>1, <1>2, <1>3 DEF MustInv
<1>5. e \in EdgesOf(fn) /\ Must(edgeErr[e])
  BY <1>2, <1>4, RaisedClosed
<1>6. ~May(flag) /\ Returns(flag) # {}
  <2>1. Returns(flag) = {"Must_Return_Err"}
    BY <1>a, <1>1, <1>2, <1>3 DEF PredInv, ToBlockLoop
  <2> QED
    BY <2>1 DEF May, Returns, ReturnMask
<1>7. pc' \in {"toBlock", "raise"}
  BY <1>1, <1>2, <1>5, <1>6, OneBeside
<1>8. \A i \in DOMAIN EEP' : \E j \in DOMAIN EEP : EEP'[i] = EEP[j]
  BY <1>1, <1>3
<1>9. \A c \in PE' : Must(Marking[c])
  BY <1>1, <1>2, <1>4 DEF MustInv
<1>10. ASSUME pc' = "raise"
       PROVE  /\ \A d \in Inner' : Must(m[d]) \/ d \in Before(fn, cur, m)
              /\ Raising(e[1])'
  <2>1. AllMust(e) /\ todo' = In(fn, e[1])
    BY <1>1, <1>10
  <2>2. e[1] \in Block
    BY <1>2, <1>5, EdgeFacts
  <2>3. \A d \in EdgesOf(fn) : d[2] = e[1] => d \in Inner'
    BY <1>1, <1>2, <2>1, EdgeFacts DEF Inner
  <2>4. \A d \in Inner' : d \in EdgesOf(fn) /\ d[2] = e[1]
    BY <1>1, <1>2, <2>1, <2>2, EdgeFacts DEF Inner
  <2>5. \A c \in EdgesOf(fn) : c[1] = e[1] => Must(m[c]) \/ c \in Raised(fn, cur, m)
    BY <1>2, <1>5, <2>1, OneBeside
  <2>6. \A d \in Inner' : Must(m[d]) \/ d \in Raised(fn, cur, m)
    BY <1>2, <1>4, <2>4, <2>5, RaisedClosed
  <2> QED
    BY <1>1, <1>2, <1>10, <2>3, <2>6 DEF Raising
<1>11. ASSUME pc' = "toBlock", e \notin PE, Ready(e[1])
       PROVE  Raising(e[1])'
  <2>1. AllMust(e)
    BY <1>2, <1>5, <1>11, OneBeside DEF Ready
  <2>2. In(fn, e[1]) = {}
    BY <1>1, <1>6, <1>11, <2>1
  <2> QED
    BY <1>1, <1>2, <2>2, EdgeFacts DEF Raising
<1>12. ASSUME NEW x, Ready(x), Raising(x) \/ Pending(x)
       PROVE  Raising(x)' \/ Pending(x)'
  <2>1. CASE Raising(x)
    BY <1>1, <2>1 DEF Raising, Marking
  <2>2. CASE Pending(x)
    <3>1. PICK i \in DOMAIN EEP : EEP[i].edge[1] = x /\ EEP[i].edge \notin PE
      BY <2>2 DEF Pending
    <3>2. CASE EEP[i].edge = e
      BY <1>7, <1>10, <1>11, <1>12, <3>1, <3>2
    <3>3. CASE EEP[i].edge # e
      <4>1. PICK j \in DOMAIN EEP' : EEP'[j] = EEP[i]
        BY <1>a, <1>1, <1>3, <3>3
      <4>2. EEP'[j].edge[1] = x /\ EEP'[j].edge \notin PE'
        BY <1>1, <3>1, <3>3, <4>1
      <4> QED
        BY <1>7, <4>2 DEF Pending
    <3> QED
      BY <3>2, <3>3
  <2> QED
    BY <1>12, <2>1, <2>2
<1>13. pc \in PredLoop /\ pc' \in PredLoop \ {"toReturn"} /\ pc \in {"toBlock", "raise"}
  BY <1>1, <1>7 DEF PredLoop
<1> QED
  BY <1>1, <1>8, <1>9, <1>10, <1>12, <1>13, MustKeptInv

LEMMA EndsPred ==
  ASSUME MarkInv, FlagInv, Orderly(fn), Written(fn, cur) # {}, NEW m, PredInv(m),
         EndRaise \/ ReturnFromToBlock
  PROVE  PredInv(m)'
<1>1. /\ UNCHANGED <<fn, edgeErr, cur, outer, todo, EB, PB, EEP, PE>>
      /\ \/ pc = "raise" /\ todo = {} /\ pc' = "toBlock"
         \/ pc = "toBlock" /\ EEP = <<>> /\ pc' = "preds"
  BY DEF EndRaise, ReturnFromToBlock
<1>2. Marking' = Marking /\ Still' = Still /\ Inner' = Inner
  BY <1>1 DEF Marking, Still, Inner
<1>3. CASE Must(fn.bbErr[cur])
  <2>1. pc = "raise" => Inner = {}
    BY <1>1 DEF Inner
  <2>2. ASSUME NEW x, Raising(x) \/ Pending(x)
        PROVE  Raising(x)' \/ Pending(x)'
    <3>1. CASE Raising(x)
      BY <1>1, <1>2, <2>1, <3>1 DEF Raising
    <3>2. CASE Pending(x)
      BY <1>1, <3>2 DEF Pending
    <3> QED
      BY <2>2, <3>1, <3>2
  <2>3. pc \in PredLoop /\ pc' \in PredLoop \ {"toReturn"} /\ pc' # "raise"
    BY <1>1 DEF PredLoop
  <2>4. pc' \in {"toBlock", "raise"} =>
           /\ \A i \in DOMAIN EEP' : \E j \in DOMAIN EEP : EEP'[i] = EEP[j]
           /\ pc \in {"toBlock", "raise"} /\ \A e \in PE' : Must(Marking[e])
    <3>1. pc' \in {"toBlock", "raise"} => MustInv(m) /\ pc = "raise"
      BY <1>1, <1>3 DEF PredInv
    <3> QED
      BY <1>1, <3>1 DEF MustInv
  <2> QED
    BY <1>1, <1>3, <2>2, <2>3, <2>4, MustKeptInv
<1>4. CASE ~Must(fn.bbErr[cur])
  <2>1. May(fn.bbErr[cur])
    BY <1>1, <1>4, PredFacts DEF PredLoop
  <2>2. MayInv(m) /\ pc = "toBlock" /\ EEP = <<>> /\ pc' = "preds"
    BY <1>1, <2>1 DEF PredInv, MayInv
  <2>3. \A x : MayBefore(x) => MayBefore(x)'
    BY <1>1, <1>2 DEF MayBefore
  <2>4. \A x : ~Coming(x)
    BY <2>2 DEF Coming
  <2>5. MayInv(m)'
    BY <1>1, <1>2, <2>2, <2>3, <2>4 DEF MayInv
  <2> QED
    BY <1>1, <1>2, <1>4, <2>2, <2>5 DEF PredInv, Written, ToBlockLoop
<1> QED
  BY <1>3, <1>4

(* Each edge raised is queued, and taken once.                                    *)
LEMMA RaiseMustStep ==
  ASSUME MarkInv, FlagInv, Orderly(fn), Written(fn, cur) # {}, NEW m, PredInv(m), RaiseMust
  PROVE  PredInv(m)'
<1>1. PICK a \in todo : RaiseMust!2!(a)
  BY DEF RaiseMust
<1>2. PICK e : e = EdgeOf(fn, a)
  OBVIOUS
<1> DEFINE x == [edge |-> e, flag |-> {"Must_Return_Err"}]
<1>3. /\ pc = "raise" /\ pc' = "raise" /\ UNCHANGED <<fn, cur, outer, PE>>
      /\ todo' = todo \ {a}
      /\ IF Must(edgeErr[e]) THEN UNCHANGED <<edgeErr, EEP>>
         ELSE edgeErr' = WithReturn(e, {"Must_Return_Err"}) /\ EEP' = Append(EEP, x)
  BY <1>1, <1>2 DEF RaiseMust
<1>4. pc \in PredLoop /\ pc' \in PredLoop \ {"toReturn"} /\ pc \in {"toBlock", "raise"}
  BY <1>3 DEF PredLoop
<1>5. Must(fn.bbErr[cur])
  <2>1. ~May(fn.bbErr[cur])
    BY <1>3 DEF PredInv, MayInv
  <2> QED
    BY <1>4, <2>1, PredFacts
<1>6. /\ TypeOK /\ fn \in Functions /\ cur \in Block /\ EEP \in Seq(EdgeFlag)
      /\ \A d \in EdgesOf(fn) : d \in Edge
      /\ \A d \in Edge : Must(Marking[d]) <=> Must(edgeErr[d])
      /\ ~May(fn.bbErr[cur]) /\ Written(fn, cur) = {"Must_Return_Err"}
      /\ MustInv(m)
      /\ \A d \in Edge : Must(m[d]) => Must(Marking[d])
  BY <1>4, <1>5, MustFacts
<1>7. /\ a \in Arcs(fn) /\ e \in EdgesOf(fn) /\ e \in Inner
      /\ \A d \in Inner : d = e \/ d \in Inner'
      /\ Inner' \subseteq Inner
  <2>1. a \in Arcs(fn)
    BY <1>6 DEF TypeOK
  <2> QED
    BY <1>2, <1>3, <1>6, <2>1, ArcFacts DEF Inner
<1>8. \A d \in Inner' : Must(m[d]) \/ d \in Before(fn, cur, m)
  BY <1>3, <1>6, <1>7 DEF MustInv
<1>9. CASE Must(edgeErr[e])
  <2>1. edgeErr' = edgeErr /\ EEP' = EEP
    BY <1>3, <1>9
  <2>2. Must(Marking[e]) /\ Marking' = Marking
    BY <1>6, <1>7, <1>9, <2>1 DEF Marking
  <2>3. ASSUME NEW b, Raising(b) \/ Pending(b)
        PROVE  Raising(b)' \/ Pending(b)'
    <3>1. CASE Raising(b)
      BY <1>3, <1>7, <2>2, <3>1 DEF Raising
    <3>2. CASE Pending(b)
      BY <1>3, <2>1, <3>2 DEF Pending
    <3> QED
      BY <2>3, <3>1, <3>2
  <2>4. \A c \in PE' : Must(Marking[c])
    BY <1>3, <1>6 DEF MustInv
  <2> QED
    BY <1>3, <1>4, <1>5, <1>8, <2>1, <2>3, <2>4, MustKeptInv
<1>10. CASE ~Must(edgeErr[e])
  <2>1. edgeErr' = WithReturn(e, {"Must_Return_Err"}) /\ EEP' = Append(EEP, x)
    BY <1>3, <1>10
  <2>2. LET f == {"Must_Return_Err"} IN f \in SUBSET Flag /\ GoodFlag(f) /\ Returns(f) = f /\ Must(f)
    BY DEF GoodFlag, OneFlag, Must, May, Returns, ReturnMask, Flag
  <2>3. Marking' = With(Marking, e, {"Must_Return_Err"})
    BY <1>2, <1>6, <1>7, <2>1, <2>2, MarkingStep
  <2>4. \A d \in Edge : Marking'[d] = IF d = e THEN {"Must_Return_Err"} ELSE Marking[d]
    BY <2>3 DEF With
  <2>5. ~Must(Marking[e]) /\ ~Must(m[e]) /\ e \in Before(fn, cur, m)
    BY <1>3, <1>6, <1>7, <1>10 DEF MustInv
  <2>6. e \notin PE
    BY <1>3, <1>6, <2>5 DEF MustInv
  <2>7. x \in EdgeFlag /\ x.edge = e /\ x.flag = {"Must_Return_Err"}
    BY <1>6, <1>7, <2>2 DEF EdgeFlag
  <2> HIDE DEF x
  <2>8. /\ \A i \in DOMAIN EEP : i \in DOMAIN EEP' /\ EEP'[i] = EEP[i]
        /\ \E i \in DOMAIN EEP' : EEP'[i] = x
        /\ \A i \in DOMAIN EEP' : (i \in DOMAIN EEP /\ EEP'[i] = EEP[i]) \/ EEP'[i] = x
    BY <1>6, <2>1, <2>7, WorklistGrown
  <2>9. \A d \in Edge : Must(Marking[d]) => Must(Marking'[d])
    BY <2>2, <2>4
  <2>10. Must(Marking'[e])
    BY <1>6, <1>7, <2>2, <2>4
  <2>11. \A d \in Edge : Marking'[d] = m[d] \/ (Marking'[d] = {"Must_Return_Err"} /\ d \in Before(fn, cur, m))
    BY <1>6, <2>4, <2>5 DEF MustInv
  <2>12. \A i \in DOMAIN EEP' : EEP'[i].edge \in Before(fn, cur, m) /\ Must(Marking'[EEP'[i].edge])
    <3>1. \A i \in DOMAIN EEP : EEP[i].edge \in Before(fn, cur, m) /\ Must(Marking[EEP[i].edge])
      BY <1>3, <1>6 DEF MustInv
    <3>2. \A i \in DOMAIN EEP : EEP[i].edge \in Edge
      <4>1. \A i \in DOMAIN EEP : EEP[i] \in EdgeFlag
        BY <1>6, ElementOfSeq, LenProperties
      <4> QED
        BY <4>1 DEF EdgeFlag
    <3> QED
      BY <2>5, <2>7, <2>8, <2>9, <2>10, <3>1, <3>2
  <2>13. \A c \in PE' : Must(Marking'[c])
    <3>1. PE \subseteq Edge /\ \A c \in PE : Must(Marking[c])
      BY <1>3, <1>6 DEF MustInv, TypeOK
    <3> QED
      BY <1>3, <2>9, <3>1
  <2>14. Pending(e[1])'
    <3>1. PICK i \in DOMAIN EEP' : EEP'[i].edge = e
      BY <2>7, <2>8
    <3>2. EEP'[i].edge \notin PE'
      BY <1>3, <2>6, <3>1
    <3> QED
      BY <1>3, <3>1, <3>2 DEF Pending
  <2>15. ASSUME NEW c \in EdgesOf(fn), Must(Marking'[c]),
                ~Must(m[c]) \/ (c[2] = cur /\ c \notin Still), Ready(c[1])'
         PROVE  Raising(c[1])' \/ Pending(c[1])'
    <3>1. CASE c[1] = e[1]
      BY <2>14, <3>1
    <3>2. CASE c[1] # e[1]
      <4>1. Must(Marking[c])
        BY <1>6, <2>4, <2>15, <3>2
      <4>2. Ready(c[1])
        BY <1>3, <1>6, <2>4, <2>15, <3>2 DEF Ready
      <4>3. Raising(c[1]) \/ Pending(c[1])
        BY <1>6, <2>15, <4>1, <4>2 DEF MustInv
      <4>4. Raising(c[1]) => Raising(c[1])'
        BY <1>3, <1>6, <1>7, <2>9, <2>10 DEF Raising
      <4>5. Pending(c[1]) => Pending(c[1])'
        <5> SUFFICES ASSUME Pending(c[1])
                     PROVE  Pending(c[1])'
          OBVIOUS
        <5>1. PICK i \in DOMAIN EEP : EEP[i].edge[1] = c[1] /\ EEP[i].edge \notin PE
          BY DEF Pending
        <5>2. i \in DOMAIN EEP' /\ EEP'[i].edge[1] = c[1] /\ EEP'[i].edge \notin PE'
          BY <1>3, <2>8, <5>1
        <5> QED
          BY <1>3, <5>2 DEF Pending
      <4> QED
        BY <4>3, <4>4, <4>5
    <3> QED
      BY <3>1, <3>2
  <2>16. Still' = Still
    BY <1>3 DEF Still
  <2>17. MustInv(m)'
    BY <1>3, <1>8, <2>11, <2>12, <2>13, <2>15, <2>16 DEF MustInv
  <2>18. \A i \in DOMAIN EEP' : Returns(EEP'[i].flag) = Written(fn, cur)
    <3>1. \A i \in DOMAIN EEP : Returns(EEP[i].flag) = Written(fn, cur)
      BY <1>3 DEF PredInv, ToBlockLoop
    <3> QED
      BY <1>6, <2>2, <2>7, <2>8, <3>1
  <2>19. \A d \in EdgesOf(fn) : d[2] = cur => d \in Still \/ Marking'[d] = Written(fn, cur)
    BY <1>6, <2>4 DEF PredInv
  <2> QED
    BY <1>3, <1>6, <2>16, <2>17, <2>18, <2>19 DEF PredInv, Written
<1> QED
  BY <1>9, <1>10

-----------------------------------------------------------------------------
(* The invariant.                                                              *)

LEMMA PredPath ==
  ASSUME MarkInv, FlagInv, PathInv, Orderly(fn), Written(fn, cur) # {},
         \/ MarkPred \/ ToBlock \/ MarkReturn
         \/ (TakeBlock \/ ReturnFromBlocks) /\ pc = "toReturn"
  PROVE  PathInv'
<1>1. /\ pc \in PredLoop /\ pc' \in PredLoop /\ UNCHANGED <<fn, cur>>
  BY DEF MarkPred, ToBlock, TakeToBlock, RaiseMust, EndRaise, ReturnFromToBlock, MarkReturn,
         TakeBlock, ReturnFromBlocks, PredLoop
<1>2. PICK m \in [Edge -> SUBSET ReturnMask] : ComesTo(fn, AtBlock(cur, m)) /\ PredInv(m)
  BY <1>1 DEF PathInv
<1>3. PredInv(m)'
  <2>1. CASE MarkPred
    BY <1>2, <2>1, MarkPredPred
  <2>2. CASE TakeToBlock
    <3>1. May(fn.bbErr[cur]) \/ Must(fn.bbErr[cur])
      BY <1>1, PredFacts
    <3> QED
      BY <1>2, <2>2, <3>1, TakeToBlockMay, TakeToBlockMust
  <2>3. CASE RaiseMust
    BY <1>2, <2>3, RaiseMustStep
  <2>4. CASE EndRaise \/ ReturnFromToBlock
    BY <1>2, <2>4, EndsPred
  <2>5. CASE MarkReturn
    BY <1>2, <2>5, MarkReturnStep
  <2>6. CASE TakeBlock /\ pc = "toReturn"
    BY <1>2, <2>6, TakeReturn
  <2>7. CASE ReturnFromBlocks /\ pc = "toReturn"
    BY <1>2, <2>7, EndReturn
  <2> QED
    BY <2>1, <2>2, <2>3, <2>4, <2>5, <2>6, <2>7 DEF ToBlock
<1>4. ComesTo(fn', AtBlock(cur', m))
  BY <1>1, <1>2
<1> QED
  BY <1>1, <1>3, <1>4 DEF PathInv, PredLoop

LEMMA SameFunction ==
  ASSUME [Next]_vars
  PROVE  fn' = fn
<1>1. ToHandleOrReturn \/ ToBlock \/ FromBlock => fn' = fn
  BY WithinLoops
<1>2. MarkBlocks => fn' = fn
  BY DEF MarkBlocks, NoErrorInBlock, CallToErrHandle, NoErrHandle, NoReturnFlag,
         StartPreds, MarkPred, StartSuccs, MarkSucc, NextBlock, StartIdentify
<1>3. Identify \/ Done \/ UNCHANGED vars => fn' = fn
  BY DEF Identify, IdentifyBranch, Finish, Done, vars
<1> QED
  BY <1>1, <1>2, <1>3 DEF Next

LEMMA NextOrder ==
  ASSUME MarkInv, OrderInv, [Next]_vars
  PROVE  OrderInv'
<1>1. fn' = fn
  BY SameFunction
<1>2. (pc \in PredLoop \cup SuccLoop => Written(fn, cur) # {})'
  BY NextWritten DEF OrderInv
<1>3. ASSUME Orderly(fn)
      PROVE  FlagInv' /\ PathInv'
  <2>1. FlagInv /\ PathInv /\ TypeOK /\ (pc \in PredLoop \cup SuccLoop => Written(fn, cur) # {})
    BY <1>3 DEF OrderInv, MarkInv, IInv
  <2>2. FlagInv'
    BY <1>3, <2>1, NextFlag
  <2>3. PathInv'
    <3>1. CASE \/ NoErrorInBlock \/ CallToErrHandle \/ NoErrHandle \/ NoReturnFlag \/ MarkHandle
               \/ (TakeBlock \/ ReturnFromBlocks) /\ pc = "handle"
               \/ StartIdentify \/ Identify \/ Done \/ UNCHANGED vars
      BY <2>1, <3>1, BlockPath
    <3>2. CASE StartPreds
      BY <1>3, <2>1, <3>2, StartPredsPath
    <3>3. CASE \/ MarkPred \/ ToBlock \/ MarkReturn
               \/ (TakeBlock \/ ReturnFromBlocks) /\ pc = "toReturn"
      <4>1. pc \in PredLoop
        BY <3>3 DEF MarkPred, ToBlock, TakeToBlock, RaiseMust, EndRaise, ReturnFromToBlock,
                    MarkReturn, PredLoop
      <4> QED
        BY <1>3, <2>1, <3>3, <4>1, PredPath
    <3>4. CASE StartSuccs
      <4>1. pc \in PredLoop
        BY <3>4 DEF StartSuccs, PredLoop
      <4> QED
        BY <1>3, <2>1, <3>4, <4>1, StartSuccsPath
    <3>5. CASE MarkSucc
      <4>1. pc \in SuccLoop
        BY <3>5 DEF MarkSucc, SuccLoop
      <4> QED
        BY <1>3, <2>1, <3>5, <4>1, MarkSuccPath
    <3>6. CASE TakeFromBlock
      BY <2>1, <3>6, TakeFromPath
    <3>7. CASE MergePred \/ StartSpread
      BY <2>1, <3>7, MergePath
    <3>8. CASE Spread
      BY <2>1, <3>8, SpreadPath
    <3>9. CASE EndSpread \/ ReturnFromFromBlock \/ NextBlock
      BY <2>1, <3>9, EndsPath
    <3>10. TakeBlock \/ ReturnFromBlocks => pc \in {"handle", "toReturn"}
      BY DEF TakeBlock, ReturnFromBlocks
    <3> QED
      BY <3>1, <3>2, <3>3, <3>4, <3>5, <3>6, <3>7, <3>8, <3>9, <3>10
         DEF Next, MarkBlocks, ToHandleOrReturn, FromBlock
  <2> QED
    BY <2>2, <2>3
<1> QED
  BY <1>1, <1>2, <1>3 DEF OrderInv

LEMMA InitOrder == Init => OrderInv
<1> SUFFICES ASSUME Init
             PROVE  OrderInv
  OBVIOUS
<1>1. pc = "block" /\ cur = 1 /\ edgeErr = [e \in Edge |-> {}]
  BY DEF Init
<1>2. Marking = Unmarked
  BY <1>1 DEF Marking, Unmarked, Returns
<1>3. ComesTo(fn, AtBlock(cur, Marking))
  BY <1>1, <1>2, StartsThere
<1>4. FlagInv
  BY <1>1 DEF FlagInv, OneFlag, Must, QueueLoop, ToBlockLoop
<1> QED
  BY <1>1, <1>3, <1>4 DEF OrderInv, PathInv, PredLoop, SuccLoop

-----------------------------------------------------------------------------
(* The checks, from the marks.                                                   *)

GuardIn(f, g, b) == NumSuccessors(f, b) >= 2 /\ Disagree({g[EdgeOf(f, a)] : a \in Out(f, b)})

(* The first guard of each condition, among those before the k-th block.           *)
Listed(f, g, k) ==
  {[cond |-> f.cond[b], branch |-> b] :
     b \in {x \in Block : /\ x < k /\ GuardIn(f, g, x)
                          /\ \A y \in Block : y < x /\ GuardIn(f, g, y) => f.cond[y] # f.cond[x]}}

ListedInv == checks = IF pc \in {"identify", "done"} THEN Listed(fn, edgeErr, cur) ELSE {}

LEMMA ListedNext ==
  ASSUME MarkInv, ListedInv, IdentifyBranch
  PROVE  ListedInv'
<1>1. /\ pc = "identify" /\ pc' = "identify" /\ cur' = cur + 1 /\ cur \in Block
      /\ UNCHANGED <<fn, edgeErr>>
      /\ checks' = IF GuardIn(fn, edgeErr, cur)
                   THEN AddSecurityCheck([cond |-> fn.cond[cur], branch |-> cur]) ELSE checks
  BY DEF IdentifyBranch, GuardIn, SuccFlags
<1> DEFINE Chosen(x, k) ==
             /\ x < k /\ GuardIn(fn, edgeErr, x)
             /\ \A y \in Block : y < x /\ GuardIn(fn, edgeErr, y) => fn.cond[y] # fn.cond[x]
           SC(b) == [cond |-> fn.cond[b], branch |-> b]
<1>2. \A k : Listed(fn, edgeErr, k) = {SC(b) : b \in {x \in Block : Chosen(x, k)}}
  BY DEF Listed
<1>3. checks = {SC(b) : b \in {x \in Block : Chosen(x, cur)}}
  BY <1>1, <1>2 DEF ListedInv
<1>4. \A b : SC(b).cond = fn.cond[b]
  OBVIOUS
<1>5. \A x \in Block : x < cur + 1 <=> x < cur \/ x = cur
  BY <1>1, NAssumption DEF Block
<1>6. \A x \in Block : Chosen(x, cur + 1) <=> Chosen(x, cur) \/ (x = cur /\ Chosen(cur, cur + 1))
  BY <1>5
<1>7. (\E c \in checks : c.cond = fn.cond[cur]) <=>
         \E y \in Block : y < cur /\ GuardIn(fn, edgeErr, y) /\ fn.cond[y] = fn.cond[cur]
  <2>1. ASSUME NEW c \in checks, c.cond = fn.cond[cur]
        PROVE  \E y \in Block : y < cur /\ GuardIn(fn, edgeErr, y) /\ fn.cond[y] = fn.cond[cur]
    <3>1. PICK y \in Block : Chosen(y, cur) /\ c = SC(y)
      BY <1>3
    <3> QED
      BY <1>4, <2>1, <3>1
  <2>2. ASSUME NEW y \in Block, y < cur, GuardIn(fn, edgeErr, y), fn.cond[y] = fn.cond[cur]
        PROVE  \E c \in checks : c.cond = fn.cond[cur]
    <3>1. IsGuard(y)
      BY <2>2 DEF IsGuard, GuardIn, SuccFlags
    <3>2. Reported(y)
      BY <1>1, <2>2, <3>1 DEF MarkInv, ChecksInv
    <3> QED
      BY <2>2, <3>2 DEF Reported
  <2> QED
    BY <2>1, <2>2
<1>8. Chosen(cur, cur + 1) <=> GuardIn(fn, edgeErr, cur) /\ ~\E c \in checks : c.cond = fn.cond[cur]
  <2>1. cur < cur + 1
    BY <1>1, NAssumption DEF Block
  <2> QED
    BY <1>7, <2>1
<1>9. checks' = IF Chosen(cur, cur + 1) THEN checks \cup {SC(cur)} ELSE checks
  BY <1>1, <1>8 DEF AddSecurityCheck
<1> HIDE DEF Chosen, SC
<1>10. checks' = {SC(b) : b \in {x \in Block : Chosen(x, cur + 1)}}
  BY <1>1, <1>3, <1>6, <1>9
<1>11. checks' = Listed(fn, edgeErr, cur + 1)
  BY <1>2, <1>10
<1> QED
  BY <1>1, <1>11 DEF ListedInv

LEMMA NextListed ==
  ASSUME MarkInv, ListedInv, [Next]_vars
  PROVE  ListedInv'
<1>1. CASE IdentifyBranch
  BY <1>1, ListedNext
<1>2. CASE ~IdentifyBranch
  <2>1. UNCHANGED <<fn, checks>>
    BY <1>2, ChecksKept
  <2>2. CASE ToHandleOrReturn \/ ToBlock \/ FromBlock
    BY <2>1, <2>2, WithinLoops DEF ListedInv
  <2>3. CASE StartIdentify
    <3>1. pc = "block" /\ pc' = "identify" /\ cur' = 1 /\ checks' = {}
      BY <2>1, <2>3 DEF StartIdentify, ListedInv
    <3>2. \A x \in Block : ~(x < 1)
      BY NAssumption DEF Block
    <3>3. Listed(fn', edgeErr', 1) = {}
      BY <3>2 DEF Listed
    <3> QED
      BY <3>1, <3>3 DEF ListedInv
  <2>4. CASE MarkBlocks /\ ~StartIdentify
    <3>1. pc \notin {"identify", "done"} /\ pc' \notin {"identify", "done"}
      BY <2>4 DEF MarkBlocks, NoErrorInBlock, CallToErrHandle, NoErrHandle, NoReturnFlag,
                  StartPreds, MarkPred, StartSuccs, MarkSucc, NextBlock
    <3> QED
      BY <2>1, <3>1 DEF ListedInv
  <2>5. CASE Finish \/ Done \/ UNCHANGED vars
    <3>1. /\ UNCHANGED <<fn, edgeErr, cur, checks>>
          /\ pc' \in {"identify", "done"} <=> pc \in {"identify", "done"}
      BY <2>5 DEF Finish, Done, vars, control
    <3> QED
      BY <3>1 DEF ListedInv
  <2> QED
    BY <1>2, <2>2, <2>3, <2>4, <2>5 DEF Next, Identify
<1> QED
  BY <1>1, <1>2

-----------------------------------------------------------------------------
(* What a run has found when it ends.                                             *)

Ended(f, g, c) ==
  /\ g \in [Edge -> SUBSET Flag]
  /\ ComesTo(f, AtBlock(N + 1, [e \in Edge |-> Returns(g[e])]))
  /\ \A e \in Edge : "May_Handle_Err" \notin g[e] /\ (Handled(g[e]) <=> e \in HandleEdges(f))
  /\ c = Listed(f, g, N + 1)

LEMMA EndedOnce ==
  ASSUME NEW f, NEW g, NEW h, NEW c, NEW d, Ended(f, g, c), Ended(f, h, d)
  PROVE  g = h /\ c = d
<1> DEFINE R(k) == [e \in Edge |-> Returns(k[e])]
<1>1. ComesTo(f, AtBlock(N + 1, R(g))) /\ ComesTo(f, AtBlock(N + 1, R(h)))
  BY DEF Ended
<1>2. \A k : AfterStep(f, AtBlock(N + 1, R(k))) = AtBlock(N + 1, R(k))
  <2>1. N + 1 > N
    BY NAssumption
  <2> QED
    BY <2>1, StepOf DEF NextBlockOf
<1>3. AtBlock(N + 1, R(g)) = AtBlock(N + 1, R(h))
  BY <1>1, <1>2, OneEnd
<1>4. R(g) = R(h)
  <2> HIDE DEF R
  <2> QED
    BY <1>3 DEF AtBlock
<1>5. \A e \in Edge : Returns(g[e]) = Returns(h[e])
  <2>1. ASSUME NEW e \in Edge
        PROVE  Returns(g[e]) = Returns(h[e])
    <3>1. R(g)[e] = R(h)[e]
      BY <1>4
    <3> QED
      BY <3>1
  <2> QED
    BY <2>1
<1>6. ASSUME NEW e \in Edge
      PROVE  g[e] = h[e]
  <2>1. /\ g[e] \in SUBSET Flag /\ h[e] \in SUBSET Flag
        /\ "May_Handle_Err" \notin g[e] /\ "May_Handle_Err" \notin h[e]
        /\ Handled(g[e]) <=> Handled(h[e])
    BY DEF Ended
  <2>2. Returns(g[e]) = Returns(h[e])
    BY <1>5
  <2> QED
    BY <2>1, <2>2 DEF Returns, ReturnMask, Handled, Flag
<1>7. g = h
  BY <1>6 DEF Ended
<1> QED
  BY <1>7 DEF Ended

LEMMA RunEnds ==
  ASSUME MarkInv, OrderInv, ListedInv, Orderly(fn), pc = "done"
  PROVE  Ended(fn, edgeErr, checks)
<1>1. edgeErr \in [Edge -> SUBSET Flag]
  BY DEF MarkInv, IInv, TypeOK
<1>2. ComesTo(fn, AtBlock(N + 1, [e \in Edge |-> Returns(edgeErr[e])]))
  BY DEF OrderInv, PathInv, Marking
<1>3. \A e \in Edge : "May_Handle_Err" \notin edgeErr[e]
  BY DEF OrderInv, FlagInv, OneFlag
<1>4. Marked = HandleEdges(fn)
  BY ExactFromInv DEF MarkInv, HandleExact
<1>5. \A e \in Edge : Handled(edgeErr[e]) <=> e \in HandleEdges(fn)
  BY <1>4 DEF Marked
<1>6. cur = N + 1 /\ checks = Listed(fn, edgeErr, N + 1)
  BY DEF ListedInv, MarkInv, ChecksInv
<1> QED
  BY <1>1, <1>2, <1>3, <1>5, <1>6 DEF Ended

-----------------------------------------------------------------------------
(* Two runs.                                                                  *)

LEMMA StartMark == Init => MarkInv /\ OrderInv /\ ListedInv
  BY InitMarkInv, InitOrder DEF Init, ListedInv

LEMMA RestartMark == Init' => MarkInv' /\ OrderInv' /\ ListedInv'
  BY StartMark, PTL

(* Of the first run it is remembered how it ended.                               *)
RerunInv ==
  /\ MarkInv /\ OrderInv /\ ListedInv
  /\ Orderly(fn) /\ first # <<>> => first = <<first[1], first[2]>> /\ Ended(fn, first[1], first[2])

LEMMA NextRerun == RerunInv /\ [RerunNext]_rerunVars => RerunInv'
<1> SUFFICES ASSUME RerunInv, [RerunNext]_rerunVars
             PROVE  RerunInv'
  OBVIOUS
<1>1. CASE [Next]_vars /\ first' = first
  <2>1. MarkInv' /\ OrderInv' /\ ListedInv'
    BY <1>1, NextMarkInv, NextOrder, NextListed DEF RerunInv
  <2>2. fn' = fn
    BY <1>1, SameFunction
  <2> QED
    BY <1>1, <2>1, <2>2 DEF RerunInv
<1>2. CASE Rerun
  <2>1. Init' /\ fn' = fn /\ pc = "done" /\ first' = <<edgeErr, checks>>
    <3>1. fn' \in Functions
      BY <1>2 DEF Rerun, RerunInv, MarkInv, IInv, TypeOK
    <3> QED
      BY <1>2, <3>1 DEF Rerun, Init, Found
  <2>2. MarkInv' /\ OrderInv' /\ ListedInv'
    BY <2>1, RestartMark
  <2>3. Orderly(fn) => Ended(fn, edgeErr, checks)
    BY <2>1, RunEnds DEF RerunInv
  <2>4. Orderly(fn') => first' = <<first'[1], first'[2]>> /\ Ended(fn', first'[1], first'[2])
    BY <2>1, <2>3
  <2> QED
    BY <2>2, <2>4 DEF RerunInv
<1> QED
  BY <1>1, <1>2 DEF RerunNext, Run, BothDone, rerunVars

LEMMA SingleFlags ==
  ASSUME fn \in Functions, TwoWay(fn), \A b \in Block : ~(Must(fn.bbErr[b]) /\ May(fn.bbErr[b]))
  PROVE  Orderly(fn)
  BY NoMayHandleAssumption DEF Orderly, OneFlag

(* For every function whose branches lead to at most two blocks and whose blocks    *)
(* have single flags, two runs end with the same marks and the same checks,         *)
(* whatever order each meets the predecessors in.                                 *)
THEOREM OrderIndependentHolds == RerunSpec => []OrderIndependent
<1>1. RerunInit => RerunInv
  BY StartMark DEF RerunInit, RerunInv
<1>2. RerunInv => OrderIndependent
  <2> SUFFICES ASSUME RerunInv, pc = "done", first # <<>>, TwoWay(fn),
                      \A b \in Block : ~(Must(fn.bbErr[b]) /\ May(fn.bbErr[b]))
               PROVE  Found = first
    BY DEF OrderIndependent
  <2>1. Orderly(fn)
    BY SingleFlags DEF RerunInv, MarkInv, IInv, TypeOK
  <2>2. Ended(fn, edgeErr, checks)
    BY <2>1, RunEnds DEF RerunInv
  <2>3. first = <<first[1], first[2]>> /\ Ended(fn, first[1], first[2])
    BY <2>1 DEF RerunInv
  <2>4. edgeErr = first[1] /\ checks = first[2]
    BY <2>2, <2>3, EndedOnce
  <2> QED
    BY <2>3, <2>4 DEF Found
<1> QED
  BY <1>1, <1>2, NextRerun, PTL DEF RerunSpec
=============================================================================
