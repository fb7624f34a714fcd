------------------------- MODULE MissingChecksProofs -------------------------
(***************************************************************************)
(* Proofs about MissingChecks, for every program that is well formed.          *)
(*                                                                         *)
(* The searches of the pass are closures, recursive functions of the number of   *)
(* rounds: what is known of a closure (it holds its start, it is closed, and it   *)
(* is inside of every closed set around its start) comes from the induction over   *)
(* Nat in the form SetInduction, for sets.                                      *)
(*                                                                         *)
(* TypeInv (where the pass is, what it has counted, the calls of the search still  *)
(* to be made) is inductive and gives TypeOK.  Beside it:                        *)
(*   StartInv    what a search for an argument knows of the argument            *)
(*   AliasInv    the alias results of a function are all or none                 *)
(*   UnseenInv   what is in UnchecksMap was not found by the search forward       *)
(*   CoverInv    what is counted in total covers the results come to so far       *)
(*   SearchInv   isCheckedBackward beside the closure of its steps                *)
(* The heart of StagesAgree and ParametersAgree is ForwardFinds: a comparison to      *)
(* which a value flows, as stage 1 finds by going back, is found by going forward  *)
(* from the value, as stage 2 does, along the same steps.                         *)
(***************************************************************************)
EXTENDS MissingChecks, FiniteSetTheorems, SequenceTheorems, TLAPS

-----------------------------------------------------------------------------
(* A set of numbers that is not empty has a least one.                         *)
LEMMA LeastNat ==
  ASSUME NEW T \in SUBSET Nat, T # {}
  PROVE  \E k \in T : \A m \in T : k <= m
<1> DEFINE R == {ss \in Nat \X Nat : ss[1] < ss[2]}
<1>1. IsWellFoundedOn(R, Nat)
  BY NatLessThanWellFounded DEF OpToRel
<1> HIDE DEF R
<1> PICK k \in T : \A m \in T : <<m, k>> \notin R
  BY <1>1, WFMin
<1>2. ASSUME NEW m \in T PROVE k <= m
  <2>1. ~(m < k)
    <3>1. <<m, k>> \in Nat \X Nat /\ <<m, k>>[1] = m /\ <<m, k>>[2] = k
      OBVIOUS
    <3> QED
      BY <3>1 DEF R
  <2> QED
    BY <2>1
<1> QED
  BY <1>2

(* Induction, in the form of sets.                                               *)
LEMMA SetInduction ==
  ASSUME NEW G \in SUBSET Nat, 0 \in G, \A k \in G : k + 1 \in G
  PROVE  G = Nat
<1> SUFFICES ASSUME Nat \ G # {}
             PROVE  FALSE
  OBVIOUS
<1> PICK k \in Nat \ G : \A m \in Nat \ G : k <= m
  BY LeastNat
<1>1. k # 0 /\ k - 1 \in Nat /\ (k - 1) + 1 = k /\ ~(k <= k - 1)
  OBVIOUS
<1>2. k - 1 \in G
  BY <1>1
<1> QED
  BY <1>1, <1>2

-----------------------------------------------------------------------------
(* The rounds of a closure: what is reached in one more round, and the sets reached    *)
(* in up to bound rounds.                                                      *)
More(R, next) == UNION {{x} \cup next[x] : x \in R}
Rounds(S, bound, next, c) == [k \in 0 .. bound |-> IF k = 0 THEN S ELSE More(c[k - 1], next)]

(* What is in the next round of a search.                                     *)
LEMMA MoreMember ==
  ASSUME NEW R, NEW next
  PROVE  \A y : y \in More(R, next) <=> y \in R \/ \E x \in R : y \in next[x]
  BY DEF More

(* The rounds are defined.                                                     *)
LEMMA RoundsExist ==
  ASSUME NEW S, NEW bound \in Nat, NEW next
  PROVE  \E c : c = Rounds(S, bound, next, c)
<1> DEFINE Upon(c, b) ==
             /\ DOMAIN c = 0 .. b /\ c = [k \in 0 .. b |-> c[k]]
             /\ c[0] = S
             /\ \A k \in 1 .. b : c[k] = More(c[k - 1], next)
           G == {b \in Nat : \E c : Upon(c, b)}
<1>1. 0 \in G
  <2>1. Upon([k \in 0 .. 0 |-> S], 0)
    OBVIOUS
  <2> QED
    BY <2>1
<1>2. ASSUME NEW b \in G
      PROVE  b + 1 \in G
  <2>1. b \in Nat
    OBVIOUS
  <2>2. PICK c : Upon(c, b)
    OBVIOUS
  <2> DEFINE last == More(c[b], next)
             d == [k \in 0 .. b + 1 |-> IF k = b + 1 THEN last ELSE c[k]]
  <2>3. \A k \in 0 .. b : d[k] = c[k] /\ k \in 0 .. b + 1
    BY <2>1
  <2>4. d[b + 1] = last /\ DOMAIN d = 0 .. b + 1 /\ d = [k \in 0 .. b + 1 |-> d[k]]
    BY <2>1
  <2>5. d[0] = S
    BY <2>1, <2>2, <2>3
  <2>6. ASSUME NEW k \in 1 .. b + 1
        PROVE  d[k] = More(d[k - 1], next)
    <3>1. CASE k = b + 1
      <4>1. k - 1 = b /\ d[b] = c[b]
        BY <2>1, <2>3, <3>1
      <4> HIDE DEF d
      <4> QED
        BY <2>4, <3>1, <4>1
    <3>2. CASE k # b + 1
      <4>1. k \in 1 .. b /\ k \in 0 .. b /\ k - 1 \in 0 .. b
        BY <2>1, <3>2
      <4>2. d[k] = c[k] /\ d[k - 1] = c[k - 1]
        BY <2>3, <4>1
      <4> HIDE DEF d
      <4> QED
        BY <2>2, <4>1, <4>2
    <3> QED
      BY <3>1, <3>2
  <2> HIDE DEF d
  <2>7. Upon(d, b + 1)
    BY <2>4, <2>5, <2>6
  <2> HIDE DEF Upon
  <2>8. b + 1 \in Nat /\ \E h : Upon(h, b + 1)
    BY <2>1, <2>7
  <2> QED
    BY <2>8
<1> HIDE DEF G
<1>3. bound \in G
  <2>1. G \in SUBSET Nat
    BY DEF G
  <2> QED
    BY <1>1, <1>2, <2>1, SetInduction
<1>4. PICK c : Upon(c, bound)
  BY <1>3 DEF G
<1>5. c = Rounds(S, bound, next, c)
  <2>1. \A k \in 0 .. bound : c[k] = IF k = 0 THEN S ELSE More(c[k - 1], next)
    <3> TAKE k \in 0 .. bound
    <3>1. CASE k = 0
      BY <1>4, <3>1
    <3>2. CASE k # 0
      <4>1. k \in 1 .. bound
        BY <3>2
      <4> QED
        BY <1>4, <3>2, <4>1
    <3> QED
      BY <3>1, <3>2
  <2> QED
    BY <1>4, <2>1 DEF Rounds
<1> QED
  BY <1>5

Unrolled(S, bound, next, c) ==
  /\ DOMAIN c = 0 .. bound /\ c[0] = S /\ Closure(S, bound, next) = c[bound]
  /\ \A k \in 1 .. bound : c[k] = More(c[k - 1], next)

(* A closure is its last round.                                                  *)
LEMMA ClosureRounds ==
  ASSUME NEW S, NEW bound \in Nat, NEW next
  PROVE  \E c : Unrolled(S, bound, next, c)
<1> DEFINE c == CHOOSE d : d = Rounds(S, bound, next, d)
<1>1. Closure(S, bound, next) = c[bound]
  BY DEF Closure, Rounds, More
<1>2. c = Rounds(S, bound, next, c)
  BY RoundsExist
<1> HIDE DEF c
<1>3. DOMAIN c = 0 .. bound /\ c[0] = S
  BY <1>2 DEF Rounds
<1>4. ASSUME NEW k \in 1 .. bound
      PROVE  c[k] = More(c[k - 1], next)
  <2>1. k \in 0 .. bound /\ k # 0
    OBVIOUS
  <2> QED
    BY <1>2, <2>1 DEF Rounds
<1> QED
  BY <1>1, <1>3, <1>4 DEF Unrolled

(* It has the members of S, and is in every set that has them and goes with the steps.   *)
LEMMA ClosureLeast ==
  ASSUME NEW S, NEW bound \in Nat, NEW next
  PROVE  /\ S \subseteq Closure(S, bound, next)
         /\ \A T : S \subseteq T /\ (\A x \in T : next[x] \subseteq T) => Closure(S, bound, next) \subseteq T
<1>0. PICK c : Unrolled(S, bound, next, c)
  BY ClosureRounds
<1> USE <1>0 DEF Unrolled
<1>1. ASSUME NEW T, S \subseteq T, \A x \in T : next[x] \subseteq T
      PROVE  c[bound] \subseteq T
  <2> DEFINE G == {k \in Nat : k <= bound => c[k] \subseteq T}
  <2>1. 0 \in G
    BY <1>1
  <2>2. ASSUME NEW k \in G
        PROVE  k + 1 \in G
    <3>1. CASE k + 1 <= bound
      <4>1. k + 1 \in 1 .. bound /\ (k + 1) - 1 = k /\ k <= bound
        BY <3>1
      <4>2. c[k + 1] = More(c[k], next) /\ c[k] \subseteq T
        BY <4>1
      <4>3. More(c[k], next) \subseteq T
        BY <1>1, <4>2, MoreMember
      <4> QED
        BY <4>2, <4>3
    <3> QED
      BY <3>1
  <2>3. G = Nat
    <3> HIDE DEF G
    <3>1. G \in SUBSET Nat
      BY DEF G
    <3> QED
      BY <2>1, <2>2, <3>1, SetInduction
  <2> QED
    BY <2>3
<1>2. S \subseteq c[bound]
  <2> DEFINE G == {k \in Nat : k <= bound => S \subseteq c[k]}
  <2>1. 0 \in G
    OBVIOUS
  <2>2. ASSUME NEW k \in G
        PROVE  k + 1 \in G
    <3>1. CASE k + 1 <= bound
      <4>1. k + 1 \in 1 .. bound /\ (k + 1) - 1 = k /\ k <= bound
        BY <3>1
      <4>2. c[k + 1] = More(c[k], next) /\ S \subseteq c[k]
        BY <4>1
      <4>3. c[k] \subseteq More(c[k], next)
        BY MoreMember
      <4> QED
        BY <4>2, <4>3
    <3> QED
      BY <3>1
  <2>3. G = Nat
    <3> HIDE DEF G
    <3>1. G \in SUBSET Nat
      BY DEF G
    <3> QED
      BY <2>1, <2>2, <3>1, SetInduction
  <2> QED
    BY <2>3
<1> QED
  BY <1>1, <1>2

(* With a round for every value, it goes with the steps: each round adds a value, or all *)
(* further rounds add none.                                                    *)
LEMMA ClosureClosed ==
  ASSUME NEW S, NEW bound \in Nat, NEW next, NEW U, IsFiniteSet(U), Cardinality(U) <= bound,
         S \subseteq U, \A x \in U : next[x] \subseteq U
  PROVE  \A x \in Closure(S, bound, next) : next[x] \subseteq Closure(S, bound, next)
<1>0. PICK c : Unrolled(S, bound, next, c)
  BY ClosureRounds
<1> DEFINE Stable(R) == \A x \in R : next[x] \subseteq R
           G == {k \in Nat : k <= bound =>
                   c[k] \subseteq U /\ (Stable(c[k]) \/ k + 1 <= Cardinality(c[k]))}
<1>1. \A R \in SUBSET U : IsFiniteSet(R) /\ Cardinality(R) \in Nat /\ Cardinality(R) <= Cardinality(U)
  BY FS_Subset, FS_CardinalityType
<1>2. 0 \in G
  <2>1. c[0] = S
    BY <1>0 DEF Unrolled
  <2>2. CASE S = {}
    BY <2>1, <2>2
  <2>3. CASE S # {}
    <3>1. Cardinality(S) # 0 /\ Cardinality(S) \in Nat
      BY <1>1, <2>3, FS_EmptySet
    <3>2. 0 + 1 <= Cardinality(S)
      BY <3>1
    <3> QED
      BY <2>1, <3>2
  <2> QED
    BY <2>2, <2>3
<1>3. ASSUME NEW k \in G
      PROVE  k + 1 \in G
  <2>1. k \in Nat
    OBVIOUS
  <2>2. CASE k + 1 <= bound
    <3>1. k + 1 \in 1 .. bound /\ (k + 1) - 1 = k /\ k <= bound
      BY <2>1, <2>2
    <3>2. c[k + 1] = More(c[k], next)
      BY <1>0, <3>1 DEF Unrolled
    <3>3. c[k] \subseteq U /\ (Stable(c[k]) \/ k + 1 <= Cardinality(c[k]))
      BY <3>1
    <3> DEFINE R == c[k]
               T == c[k + 1]
    <3>4. \A y : y \in T <=> y \in R \/ \E x \in R : y \in next[x]
      BY <3>2, MoreMember
    <3> HIDE DEF R, T
    <3>5. R \subseteq U /\ T \subseteq U /\ R \subseteq T
      BY <3>3, <3>4 DEF R
    <3>6. Stable(T) \/ (k + 1) + 1 <= Cardinality(T)
      <4>1. CASE Stable(R)
        <5>1. T = R
          BY <3>4, <4>1
        <5> QED
          BY <4>1, <5>1
      <4>2. CASE ~Stable(R)
        <5>1. PICK y : y \notin R /\ \E x \in R : y \in next[x]
          BY <4>2
        <5>2. R \cup {y} \subseteq T
          BY <3>4, <3>5, <5>1
        <5>3. Cardinality(R \cup {y}) = Cardinality(R) + 1
          BY <1>1, <3>5, <5>1, FS_AddElement
        <5>4. Cardinality(R \cup {y}) <= Cardinality(T)
          BY <1>1, <3>5, <5>2, FS_Subset
        <5>5. k + 1 <= Cardinality(R)
          BY <3>3, <4>2 DEF R
        <5>6. Cardinality(R) \in Nat /\ Cardinality(T) \in Nat
          BY <1>1, <3>5
        <5> QED
          BY <2>1, <5>3, <5>4, <5>5, <5>6
      <4> QED
        BY <4>1, <4>2
    <3> QED
      BY <2>1, <3>5, <3>6 DEF T
  <2>3. CASE ~(k + 1 <= bound)
    BY <2>1, <2>3
  <2> QED
    BY <2>2, <2>3
<1> HIDE DEF G
<1>4. bound \in G
  <2>1. G \in SUBSET Nat
    BY DEF G
  <2> QED
    BY <1>2, <1>3, <2>1, SetInduction
<1>5. c[bound] \subseteq U /\ (Stable(c[bound]) \/ bound + 1 <= Cardinality(c[bound]))
  BY <1>4 DEF G
<1>6. Cardinality(c[bound]) <= Cardinality(U) /\ Cardinality(c[bound]) \in Nat /\ Cardinality(U) \in Nat
  BY <1>1, <1>5
<1>7. Stable(c[bound])
  <2>1. ~(bound + 1 <= Cardinality(c[bound]))
    BY <1>6
  <2> QED
    BY <1>5, <2>1
<1> QED
  BY <1>0, <1>7 DEF Unrolled

(* Nothing is reached from what has no steps.                                     *)
LEMMA ClosureStill ==
  ASSUME NEW x, NEW bound \in Nat, NEW next, next[x] = {}
  PROVE  Closure({x}, bound, next) = {x}
<1>1. {x} \subseteq {x} /\ \A y \in {x} : next[y] \subseteq {x}
  OBVIOUS
<1>2. {x} \subseteq Closure({x}, bound, next)
  BY ClosureLeast
<1>3. Closure({x}, bound, next) \subseteq {x}
  BY <1>1, ClosureLeast
<1> QED
  BY <1>2, <1>3

(* A closure of one more round is the closure and what is next to it.         *)
LEMMA ClosureNext ==
  ASSUME NEW S, NEW k \in Nat, NEW next
  PROVE  Closure(S, k + 1, next) = More(Closure(S, k, next), next)
<1>1. PICK c : Unrolled(S, k, next, c)
  BY ClosureRounds
<1>2. PICK d : Unrolled(S, k + 1, next, d)
  <2>1. k + 1 \in Nat
    OBVIOUS
  <2> QED
    BY <2>1, ClosureRounds
<1> DEFINE G == {j \in Nat : j <= k => c[j] = d[j]}
<1>3. 0 \in G
  BY <1>1, <1>2 DEF Unrolled
<1>4. ASSUME NEW j \in G
      PROVE  j + 1 \in G
  <2>1. CASE j + 1 <= k
    <3>1. j + 1 \in 1 .. k /\ j + 1 \in 1 .. k + 1 /\ (j + 1) - 1 = j /\ c[j] = d[j]
      BY <2>1
    <3>2. c[j + 1] = More(c[j], next)
      BY <1>1, <3>1 DEF Unrolled
    <3>3. d[j + 1] = More(d[j], next)
      BY <1>2, <3>1 DEF Unrolled
    <3> QED
      BY <3>1, <3>2, <3>3
  <2>2. CASE ~(j + 1 <= k)
    BY <2>2
  <2> QED
    BY <2>1, <2>2
<1>5. k \in G
  <2> HIDE DEF G
  <2>1. G \in SUBSET Nat
    BY DEF G
  <2> QED
    BY <1>3, <1>4, <2>1, SetInduction
<1>6. k + 1 \in 1 .. k + 1 /\ (k + 1) - 1 = k /\ c[k] = d[k]
  BY <1>5
<1>7. d[k + 1] = More(d[k], next)
  BY <1>2, <1>6 DEF Unrolled
<1> QED
  BY <1>1, <1>2, <1>6, <1>7 DEF Unrolled

(* More rounds reach no less.                                                 *)
LEMMA ClosureGrows ==
  ASSUME NEW S, NEW j \in Nat, NEW k \in Nat, j <= k, NEW next
  PROVE  Closure(S, j, next) \subseteq Closure(S, k, next)
<1> DEFINE G == {e \in Nat : Closure(S, j, next) \subseteq Closure(S, j + e, next)}
<1>1. 0 \in G
  <2>1. j + 0 = j
    OBVIOUS
  <2> QED
    BY <2>1
<1>2. ASSUME NEW e \in G
      PROVE  e + 1 \in G
  <2>1. e \in Nat /\ j + e \in Nat /\ j + (e + 1) = (j + e) + 1 /\ e + 1 \in Nat
    OBVIOUS
  <2>2. Closure(S, (j + e) + 1, next) = More(Closure(S, j + e, next), next)
    BY <2>1, ClosureNext
  <2>3. Closure(S, j, next) \subseteq Closure(S, j + e, next)
    OBVIOUS
  <2>4. Closure(S, j, next) \subseteq Closure(S, (j + e) + 1, next)
    BY <2>2, <2>3, MoreMember
  <2>5. Closure(S, j, next) \subseteq Closure(S, j + (e + 1), next)
    BY <2>1, <2>4
  <2> QED
    BY <2>1, <2>5
<1>3. k - j \in G
  <2> HIDE DEF G
  <2>1. G \in SUBSET Nat
    BY DEF G
  <2>2. k - j \in Nat
    OBVIOUS
  <2> QED
    BY <1>1, <1>2, <2>1, <2>2, SetInduction
<1>4. j + (k - j) = k
  OBVIOUS
<1> QED
  BY <1>3, <1>4

-----------------------------------------------------------------------------
(* What the assumptions say of the program at hand.                              *)
LEMMA ProgramTyped ==
  ASSUME prog \in Programs
  PROVE  /\ prog.op \in Seq(ValueRecord) /\ prog.owner \in Seq(Fun) /\ prog.succ \in Seq(SUBSET Nat)
         /\ prog.fn \in [Fun -> FunRecord] /\ prog.order \in Seq(Fun) /\ prog.pointer \in SUBSET Nat
         /\ prog.must \in SUBSET SUBSET Nat /\ prog.may \in SUBSET SUBSET Nat
         /\ WellFormed(prog)
  BY ProgramsAssumption, WellFormedAssumption

(* The values are the numbers of an interval, and so are the blocks.          *)
LEMMA ProgramFinite ==
  ASSUME prog \in Programs
  PROVE  /\ Len(prog.op) \in Nat /\ Value = 1 .. Len(prog.op)
         /\ IsFiniteSet(Value) /\ Cardinality(Value) = Len(prog.op) /\ Value \subseteq Nat /\ 0 \notin Value
         /\ Len(prog.succ) \in Nat /\ Block = 1 .. Len(prog.succ)
         /\ IsFiniteSet(Block) /\ Cardinality(Block) = Len(prog.succ) /\ Block \subseteq Nat /\ 0 \notin Block
<1>1. ASSUME NEW T, NEW s \in Seq(T)
      PROVE  /\ Len(s) \in Nat /\ DOMAIN s = 1 .. Len(s)
             /\ IsFiniteSet(DOMAIN s) /\ Cardinality(DOMAIN s) = Len(s)
  <2>1. Len(s) \in Nat /\ DOMAIN s = 1 .. Len(s)
    BY LenProperties
  <2>2. IsFiniteSet(1 .. Len(s)) /\ Cardinality(1 .. Len(s)) = Len(s)
    BY <2>1, FS_Interval, SMTT(30)
  <2> QED
    BY <2>1, <2>2
<1>2. prog.op \in Seq(ValueRecord) /\ prog.succ \in Seq(SUBSET Nat)
  BY ProgramTyped
<1>3. /\ Len(prog.op) \in Nat /\ Value = 1 .. Len(prog.op)
      /\ IsFiniteSet(Value) /\ Cardinality(Value) = Len(prog.op)
  BY <1>1, <1>2 DEF Value
<1>4. /\ Len(prog.succ) \in Nat /\ Block = 1 .. Len(prog.succ)
      /\ IsFiniteSet(Block) /\ Cardinality(Block) = Len(prog.succ)
  BY <1>1, <1>2 DEF Block
<1> QED
  BY <1>3, <1>4

(* The operands of a value are values, and what a call names or goes to are functions. *)
LEMMA ValueTyped ==
  ASSUME prog \in Programs, NEW v \in Value
  PROVE  /\ prog.op[v].args \in Seq(Value) /\ Len(prog.op[v].args) \in Nat
         /\ DOMAIN prog.op[v].args = 1 .. Len(prog.op[v].args)
         /\ Range(prog.op[v].args) \subseteq Value
         /\ \A k \in DOMAIN prog.op[v].args : Arg(v, k) \in Value
         /\ prog.op[v].callee \in Fun \cup {NoFun} /\ prog.op[v].callees \in Seq(Fun)
         /\ Range(prog.op[v].callees) \subseteq Fun /\ (Direct(v) => Called(v) \in Fun)
         /\ (prog.op[v].callees # <<>> => Called(v) \in Fun)
         /\ prog.op[v].kind \in Kind
<1>1. prog.op[v] \in ValueRecord
  BY ProgramTyped, ProgramFinite, ElementOfSeq
<1>2. prog.op[v].args \in Seq(Nat) /\ Range(prog.op[v].args) \subseteq Value
  BY <1>1, ProgramTyped DEF ValueRecord, WellFormed, Value
<1>3. prog.op[v].args \in Seq(Value)
  <2>1. /\ Len(prog.op[v].args) \in Nat /\ DOMAIN prog.op[v].args = 1 .. Len(prog.op[v].args)
        /\ prog.op[v].args \in [1 .. Len(prog.op[v].args) -> Nat]
    BY <1>2, LenProperties
  <2>2. prog.op[v].args \in [1 .. Len(prog.op[v].args) -> Value]
    BY <1>2, <2>1 DEF Range
  <2> QED
    BY <2>1, <2>2, SMTT(30)
<1>4. /\ Len(prog.op[v].args) \in Nat /\ DOMAIN prog.op[v].args = 1 .. Len(prog.op[v].args)
      /\ \A k \in DOMAIN prog.op[v].args : Arg(v, k) \in Value
  <2>1. /\ Len(prog.op[v].args) \in Nat /\ DOMAIN prog.op[v].args = 1 .. Len(prog.op[v].args)
        /\ prog.op[v].args \in [1 .. Len(prog.op[v].args) -> Value]
    BY <1>3, LenProperties
  <2> QED
    BY <2>1 DEF Arg
<1>5. prog.op[v].callee \in Fun \cup {NoFun} /\ prog.op[v].callees \in Seq(Fun) /\ prog.op[v].kind \in Kind
  BY <1>1 DEF ValueRecord
<1>6. /\ Range(prog.op[v].callees) \subseteq Fun
      /\ (prog.op[v].callees # <<>> => prog.op[v].callees[1] \in Fun)
  <2> DEFINE s == prog.op[v].callees
  <2>1. s \in Seq(Fun)
    BY <1>5
  <2> HIDE DEF s
  <2>2. /\ Len(s) \in Nat /\ DOMAIN s = 1 .. Len(s) /\ s \in [1 .. Len(s) -> Fun]
    BY <2>1, LenProperties
  <2>3. s # <<>> => Len(s) \in Nat \ {0}
    BY <2>1, EmptySeq
  <2>4. Range(s) \subseteq Fun /\ (s # <<>> => s[1] \in Fun)
    BY <2>2, <2>3 DEF Range
  <2> QED
    BY <2>4 DEF s
<1>7. /\ (Direct(v) => Called(v) \in Fun)
      /\ (prog.op[v].callees # <<>> => Called(v) \in Fun)
  BY <1>5, <1>6 DEF Direct, Called
<1> QED
  BY <1>2, <1>3, <1>4, <1>5, <1>6, <1>7

(* Where values are.                                                           *)
LEMMA ValuePlaced ==
  ASSUME prog \in Programs, NEW v \in Value
  PROVE  /\ Is(v, Outside) => ~Instruction(v) /\ prog.op[v].args = <<>>
         /\ ~Is(v, Outside) => Home(v) \in Block /\ FunOf(v) \in Fun /\ Instruction(v)
<1>1. prog.owner \in Seq(Fun) /\ WellFormed(prog)
  BY ProgramTyped
<1>2. DOMAIN prog.owner = Block
  BY <1>1 DEF WellFormed, Block
<1>3. /\ Is(v, Outside) => Home(v) = 0 /\ prog.op[v].args = <<>>
      /\ ~Is(v, Outside) => Home(v) \in Block
  BY <1>1 DEF WellFormed, Value, Block, Is, Home
<1>4. \A b \in Block : prog.owner[b] \in Fun
  <2>1. prog.owner \in [1 .. Len(prog.owner) -> Fun] /\ DOMAIN prog.owner = 1 .. Len(prog.owner)
    BY <1>1, LenProperties
  <2> QED
    BY <1>2, <2>1
<1> QED
  BY <1>3, <1>4, ProgramFinite DEF Instruction, FunOf

(* The operands that each kind of value has.                                  *)
LEMMA ValueArity ==
  ASSUME prog \in Programs, NEW v \in Value
  PROVE  /\ Is(v, {"load", "gep", "cast"}) => 1 \in DOMAIN prog.op[v].args
         /\ Is(v, {"store", "cmp"}) => DOMAIN prog.op[v].args = {1, 2}
<1>1. WellFormed(prog)
  BY ProgramTyped
<1>2. /\ prog.op[v].kind \in {"load", "gep", "cast"} => prog.op[v].args # <<>>
      /\ prog.op[v].kind \in {"store", "cmp"} => Len(prog.op[v].args) = 2
  BY <1>1 DEF WellFormed, Value
<1>3. /\ Len(prog.op[v].args) \in Nat /\ DOMAIN prog.op[v].args = 1 .. Len(prog.op[v].args)
      /\ prog.op[v].args # <<>> => Len(prog.op[v].args) \in Nat \ {0}
  BY ValueTyped, EmptySeq
<1>4. 1 .. 2 = {1, 2}
  OBVIOUS
<1>5. prog.op[v].args # <<>> => 1 \in DOMAIN prog.op[v].args
  BY <1>3
<1>6. Len(prog.op[v].args) = 2 => DOMAIN prog.op[v].args = {1, 2}
  BY <1>3, <1>4
<1> QED
  BY <1>2, <1>5, <1>6 DEF Is

-----------------------------------------------------------------------------
(* The blocks behind a block: its own function's, in which the relation is transitive.    *)
LEMMA ReachFacts ==
  ASSUME prog \in Programs, NEW b \in Block
  PROVE  /\ b \in SuccReach(b) /\ SuccReach(b) \subseteq Block
         /\ \A x \in SuccReach(b) : prog.owner[x] = prog.owner[b] /\ prog.succ[x] \subseteq SuccReach(b)
         /\ \A x \in SuccReach(b) : SuccReach(x) \subseteq SuccReach(b)
<1> DEFINE mine == {c \in Block : prog.owner[c] = prog.owner[b]}
<1>1. \A x \in Block : prog.succ[x] \subseteq {c \in Block : prog.owner[c] = prog.owner[x]}
  BY ProgramTyped DEF WellFormed, Block
<1>2. \A x \in Block : prog.succ[x] \subseteq Block
  BY <1>1
<1>3. \A x \in mine : prog.succ[x] \subseteq mine
  BY <1>1
<1>4. SuccReach(b) = Closure({b}, Len(prog.succ), prog.succ)
  BY DEF SuccReach, Reach
<1>5. \A x \in Closure({b}, Len(prog.succ), prog.succ) :
        prog.succ[x] \subseteq Closure({b}, Len(prog.succ), prog.succ)
  <2>1. IsFiniteSet(Block) /\ Cardinality(Block) = Len(prog.succ) /\ Len(prog.succ) \in Nat
    BY ProgramFinite
  <2>2. Cardinality(Block) <= Len(prog.succ)
    BY <2>1
  <2>3. {b} \subseteq Block
    OBVIOUS
  <2> QED
    BY <1>2, <2>1, <2>2, <2>3, ClosureClosed
<1>6. {b} \subseteq SuccReach(b) /\ SuccReach(b) \subseteq mine
  <2>1. Len(prog.succ) \in Nat /\ {b} \subseteq mine
    BY ProgramFinite
  <2> HIDE DEF mine
  <2> QED
    BY <1>3, <1>4, <2>1, ClosureLeast
<1>7. ASSUME NEW x \in SuccReach(b)
      PROVE  SuccReach(x) \subseteq SuccReach(b)
  <2>1. Len(prog.succ) \in Nat /\ {x} \subseteq SuccReach(b)
    BY ProgramFinite
  <2>2. \A y \in SuccReach(b) : prog.succ[y] \subseteq SuccReach(b)
    BY <1>4, <1>5
  <2>3. SuccReach(x) = Closure({x}, Len(prog.succ), prog.succ)
    BY DEF SuccReach, Reach
  <2> QED
    BY <2>1, <2>2, <2>3, ClosureLeast
<1> QED
  BY <1>4, <1>5, <1>6, <1>7

(* What uses a value.                                                          *)
LEMMA UserFacts ==
  ASSUME prog \in Programs, NEW v \in Value, NEW u \in Users(v)
  PROVE  /\ u \in Value /\ ~Is(u, Outside) /\ Home(u) \in Block /\ FunOf(u) \in Fun /\ Instruction(u)
         /\ \E k \in DOMAIN prog.op[u].args : Arg(u, k) = v
         /\ ~Is(v, Outside) => Home(u) \in SuccReach(Home(v)) /\ FunOf(u) = FunOf(v)
<1>1. u \in Value /\ v \in Range(prog.op[u].args)
  BY DEF Users
<1>2. \E k \in DOMAIN prog.op[u].args : Arg(u, k) = v
  BY <1>1 DEF Range, Arg
<1>3. ~Is(u, Outside)
  <2>1. DOMAIN <<>> = {}
    OBVIOUS
  <2> QED
    BY <1>1, <1>2, <2>1, ValuePlaced
<1>4. Home(u) \in Block /\ FunOf(u) \in Fun /\ Instruction(u)
  BY <1>1, <1>3, ValuePlaced
<1>5. ASSUME ~Is(v, Outside)
      PROVE  Home(u) \in SuccReach(Home(v)) /\ FunOf(u) = FunOf(v)
  <2>1. Home(u) \in SuccReach(Home(v))
    <3>1. WellFormed(prog)
      BY ProgramTyped
    <3> QED
      BY <1>1, <1>5, <3>1 DEF WellFormed, Value, Is, Home, SuccReach
  <2>2. Home(v) \in Block
    BY <1>5, ValuePlaced
  <2> QED
    BY <2>1, <2>2, ReachFacts DEF FunOf
<1> QED
  BY <1>1, <1>2, <1>3, <1>4, <1>5

(* A parameter is one of a function, and is used behind its entry.                     *)
LEMMA ParameterFacts ==
  ASSUME prog \in Programs
  PROVE  /\ \A v \in Value : Is(v, {"argument"}) => \E f \in Fun : v \in Range(prog.fn[f].params)
         /\ \A f \in Fun : \A v \in Range(prog.fn[f].params) :
              /\ v \in Value /\ Is(v, {"argument"})
              /\ \A u \in Users(v) : FunOf(u) = f /\ Home(u) \in SuccReach(prog.fn[f].entry)
<1>1. WellFormed(prog)
  BY ProgramTyped
<1>2. \A v \in Value : Is(v, {"argument"}) => \E f \in Fun : v \in Range(prog.fn[f].params)
  BY <1>1 DEF WellFormed, Value, Is
<1>3. ASSUME NEW f \in Fun, NEW v \in Range(prog.fn[f].params)
      PROVE  /\ v \in Value /\ Is(v, {"argument"})
             /\ \A u \in Users(v) : FunOf(u) = f /\ Home(u) \in SuccReach(prog.fn[f].entry)
  BY <1>1, <1>3 DEF WellFormed, Value, Is, Users, FunOf, Home, SuccReach
<1> QED
  BY <1>2, <1>3

-----------------------------------------------------------------------------
(* Bags.                                                                      *)
LEMMA ImageFinite ==
  ASSUME NEW S, IsFiniteSet(S), NEW f
  PROVE  IsFiniteSet({f[x] : x \in S})
<1> DEFINE T == {f[x] : x \in S}
           h == [x \in S |-> f[x]]
<1>1. h \in Surjection(S, T)
  BY DEF Surjection
<1> QED
  BY <1>1, FS_Surjection

(* A finite union of finite sets is finite.                                   *)
LEMMA UnionFinite ==
  ASSUME NEW S, IsFiniteSet(S), NEW f, \A x \in S : IsFiniteSet(f[x])
  PROVE  IsFiniteSet(UNION {f[x] : x \in S})
<1>1. IsFiniteSet({f[x] : x \in S})
  BY ImageFinite
<1>2. \A T \in {f[x] : x \in S} : IsFiniteSet(T)
  OBVIOUS
<1> QED
  BY <1>1, <1>2, FS_UNION

(* Copies of a bag are numbers, zero outside of its domain.                   *)
LEMMA CopiesFacts ==
  ASSUME NEW A, IsABag(A)
  PROVE  \A k : /\ Copies(k, A) \in Nat /\ (k \in DOMAIN A <=> Copies(k, A) # 0)
                /\ (k \in DOMAIN A => Copies(k, A) = A[k])
  BY DEF IsABag, Copies

(* The sum of two bags adds the copies.                                       *)
LEMMA BagSum ==
  ASSUME NEW A, IsABag(A), NEW B, IsABag(B)
  PROVE  /\ IsABag(A (+) B) /\ DOMAIN (A (+) B) = DOMAIN A \cup DOMAIN B
         /\ \A k : Copies(k, A (+) B) = Copies(k, A) + Copies(k, B)
<1> DEFINE C == A (+) B
<1>1. DOMAIN C = DOMAIN A \cup DOMAIN B
  BY DEF (+)
<1>2. \A k \in DOMAIN C : C[k] = Copies(k, A) + Copies(k, B)
  BY DEF (+), Copies
<1>3. C = [k \in DOMAIN C |-> C[k]]
  BY DEF (+)
<1> HIDE DEF C
<1>4. \A k \in DOMAIN C : C[k] \in {m \in Nat : m > 0}
  <2> TAKE k \in DOMAIN C
  <2>1. Copies(k, A) \in Nat /\ Copies(k, B) \in Nat /\ (Copies(k, A) # 0 \/ Copies(k, B) # 0)
    BY <1>1, CopiesFacts
  <2>2. C[k] = Copies(k, A) + Copies(k, B)
    BY <1>2
  <2> QED
    BY <2>1, <2>2
<1>5. IsABag(C)
  BY <1>3, <1>4 DEF IsABag
<1>6. ASSUME NEW k
      PROVE  Copies(k, C) = Copies(k, A) + Copies(k, B)
  <2>1. CASE k \in DOMAIN C
    BY <1>2, <2>1 DEF Copies
  <2>2. CASE k \notin DOMAIN C
    BY <1>1, <2>2 DEF Copies
  <2> QED
    BY <2>1, <2>2
<1> QED
  BY <1>1, <1>5, <1>6 DEF C

(* One bag is below another when it has no more copies of anything.           *)
LEMMA BagOrder ==
  ASSUME NEW A, IsABag(A), NEW B, IsABag(B)
  PROVE  A \sqsubseteq B <=> \A k : Copies(k, A) <= Copies(k, B)
<1>1. ASSUME A \sqsubseteq B, NEW k
      PROVE  Copies(k, A) <= Copies(k, B)
  <2>1. DOMAIN A \subseteq DOMAIN B /\ \A e \in DOMAIN A : A[e] <= B[e]
    BY <1>1 DEF \sqsubseteq
  <2>2. Copies(k, A) \in Nat /\ Copies(k, B) \in Nat
    BY CopiesFacts
  <2> QED
    BY <2>1, <2>2 DEF Copies
<1>2. ASSUME \A k : Copies(k, A) <= Copies(k, B)
      PROVE  A \sqsubseteq B
  <2>1. ASSUME NEW k \in DOMAIN A
        PROVE  k \in DOMAIN B /\ A[k] <= B[k]
    <3>1. /\ Copies(k, A) \in Nat /\ Copies(k, B) \in Nat /\ Copies(k, A) # 0 /\ Copies(k, A) = A[k]
          /\ Copies(k, A) <= Copies(k, B)
      BY <1>2, CopiesFacts
    <3>2. Copies(k, B) # 0
      BY <3>1
    <3> QED
      BY <3>1, <3>2, CopiesFacts
  <2> QED
    BY <2>1 DEF \sqsubseteq
<1> QED
  BY <1>1, <1>2

(* Counted is a bag with as many copies of a key as events carry it.          *)
LEMMA CountedBag ==
  ASSUME NEW E, IsFiniteSet(E)
  PROVE  /\ IsABag(Counted(E)) /\ DOMAIN Counted(E) = {e[2] : e \in E}
         /\ \A k : Copies(k, Counted(E)) = Cardinality({e \in E : e[2] = k})
<1> DEFINE C == Counted(E)
           mine(k) == {e \in E : e[2] = k}
<1>1. /\ DOMAIN C = {e[2] : e \in E} /\ C = [k \in DOMAIN C |-> C[k]]
      /\ \A k \in DOMAIN C : C[k] = Cardinality(mine(k))
  BY DEF Counted
<1>2. \A k : IsFiniteSet(mine(k)) /\ Cardinality(mine(k)) \in Nat /\ (Cardinality(mine(k)) = 0 <=> mine(k) = {})
  <2> TAKE k
  <2>1. mine(k) \in SUBSET E
    OBVIOUS
  <2> HIDE DEF mine
  <2>2. IsFiniteSet(mine(k))
    BY <2>1, FS_Subset
  <2> QED
    BY <2>2, FS_CardinalityType, FS_EmptySet
<1>3. \A k : k \in DOMAIN C <=> mine(k) # {}
  BY <1>1
<1> HIDE DEF C, mine
<1>4. \A k \in DOMAIN C : C[k] \in {m \in Nat : m > 0}
  BY <1>1, <1>2, <1>3
<1>5. IsABag(C)
  BY <1>1, <1>4 DEF IsABag
<1>6. \A k : Copies(k, C) = Cardinality(mine(k))
  BY <1>1, <1>2, <1>3 DEF Copies
<1> QED
  BY <1>1, <1>5, <1>6 DEF C, mine

(* The bag of one key.                                                        *)
LEMMA SingleBag ==
  ASSUME NEW x
  PROVE  /\ IsABag(SetToBag({x})) /\ DOMAIN SetToBag({x}) = {x}
         /\ \A k : Copies(k, SetToBag({x})) = IF k = x THEN 1 ELSE 0
  BY DEF SetToBag, IsABag, Copies

-----------------------------------------------------------------------------
(* The aliases known so far relate values.                                        *)
PointersOK == FuncPAResults \in [Fun -> SUBSET (Value \X Value)]

(* The aliases of a value are values, itself among them.                      *)
LEMMA AliasesFacts ==
  ASSUME prog \in Programs, PointersOK, NEW f \in Fun, NEW p \in Value
  PROVE  /\ Aliases(p, f) \subseteq Value
         /\ \A q : q \in Aliases(p, f) <=> q = p \/ <<p, q>> \in FuncPAResults[f]
<1>1. FuncPAResults[f] \in SUBSET (Value \X Value)
  BY DEF PointersOK
<1>2. \A e \in FuncPAResults[f] : e = <<e[1], e[2]>> /\ e[2] \in Value
  BY <1>1
<1>3. \A q : q \in Aliases(p, f) <=> q = p \/ <<p, q>> \in FuncPAResults[f]
  <2> TAKE q
  <2>1. q \in Aliases(p, f) <=> q = p \/ \E d \in FuncPAResults[f] : d[1] = p /\ q = d[2]
    BY DEF Aliases
  <2>2. (\E d \in FuncPAResults[f] : d[1] = p /\ q = d[2]) <=> <<p, q>> \in FuncPAResults[f]
    BY <1>2
  <2> QED
    BY <2>1, <2>2
<1>4. \A q : <<p, q>> \in FuncPAResults[f] => q \in Value
  BY <1>1
<1>5. \A q \in Aliases(p, f) : q \in Value
  BY <1>3, <1>4
<1> QED
  BY <1>3, <1>5

(* The values that are in function f or used in it.                               *)
InOf(f) == {x \in Value : (Instruction(x) /\ FunOf(x) = f) \/ \E u \in Users(x) : FunOf(u) = f}

(* The operands of an instruction of f are in f, or used in f.                *)
LEMMA InOfFacts ==
  ASSUME prog \in Programs, NEW v \in Value, NEW k \in DOMAIN prog.op[v].args
  PROVE  Arg(v, k) \in InOf(FunOf(v)) /\ v \in Users(Arg(v, k))
<1>1. Arg(v, k) \in Value
  BY ValueTyped
<1>2. v \in Users(Arg(v, k))
  BY DEF Users, Range, Arg
<1> QED
  BY <1>1, <1>2 DEF InOf

(* What is in f and is no constant, global or parameter is an instruction of f. *)
LEMMA InstructionOfFacts ==
  ASSUME prog \in Programs, NEW f, NEW v \in InOf(f), ~Is(v, Outside)
  PROVE  FunOf(v) = f /\ f \in Fun /\ Home(v) \in Block
<1>1. v \in Value
  BY DEF InOf
<1>2. Home(v) \in Block /\ FunOf(v) \in Fun
  BY <1>1, ValuePlaced
<1>3. FunOf(v) = f
  BY <1>1, UserFacts DEF InOf
<1> QED
  BY <1>2, <1>3

(* What may come before a load is in the load's function.                     *)
LEMMA BeforeFacts ==
  ASSUME prog \in Programs, NEW v \in Value, Home(v) \in Block, NEW u \in Before(v)
  PROVE  u \in Value /\ Instruction(u) /\ FunOf(u) = FunOf(v) /\ Home(u) \in Block /\ Home(v) \in SuccReach(Home(u))
<1>1. u \in Value /\ Instruction(u) /\ Home(u) \in Block /\ Home(v) \in SuccReach(Home(u))
  BY DEF Before, PredReach
<1> QED
  BY <1>1, ReachFacts DEF FunOf

(* A step back from a value, and what counts as a source of it.                        *)
FeedKind == {"select", "gep", "phi", "cast", "binary"}
(* Where the search for sources goes on to, one case of the code at a time.   *)
LEMMA FeedsMember ==
  ASSUME NEW v, NEW y \in Feeds(v)
  PROVE  \/ Is(v, FeedKind) /\ y \in Range(prog.op[v].args)
         \/ Is(v, {"load"}) /\ y = Arg(v, 1)
         \/ /\ Is(v, {"load"})
            /\ \E u \in Before(v) : Is(u, {"store"}) /\ Arg(u, 2) \in LoadAliases(v) /\ y = Arg(u, 1)
  BY DEF Feeds, Is, FeedKind

SourceKind == {"constant", "argument", "global", "alloca", "call"}
(* What counts as a source, one case of the code at a time.                   *)
LEMMA SourcesAtMember ==
  ASSUME NEW v, NEW y \in SourcesAt(v)
  PROVE  \/ Is(v, SourceKind) /\ y = v
         \/ /\ Is(v, {"load"}) /\ y \in LoadAliases(v)
            /\ \E u \in Before(v) \cap Users(y) : Is(u, {"call"})
  BY DEF SourcesAt, Is, SourceKind

(* The search for sources does not leave the function.                        *)
LEMMA FeedsInside ==
  ASSUME prog \in Programs, NEW f, NEW v \in InOf(f), NEW y \in Feeds(v)
  PROVE  y \in InOf(f)
<1>1. v \in Value
  BY DEF InOf
<1>2. Is(v, FeedKind \cup {"load"})
  BY FeedsMember DEF Is
<1>3. ~Is(v, Outside)
  BY <1>2 DEF Is, FeedKind, Outside
<1>4. FunOf(v) = f /\ f \in Fun /\ Home(v) \in Block
  BY <1>3, InstructionOfFacts
<1>5. CASE y \in Range(prog.op[v].args)
  <2>1. PICK k \in DOMAIN prog.op[v].args : y = Arg(v, k)
    BY <1>5 DEF Range, Arg
  <2> QED
    BY <1>1, <1>4, <2>1, InOfFacts
<1>6. CASE Is(v, {"load"}) /\ y = Arg(v, 1)
  BY <1>1, <1>4, <1>6, InOfFacts, ValueArity DEF Is
<1>7. ASSUME NEW u \in Before(v), Is(u, {"store"}), y = Arg(u, 1)
      PROVE  y \in InOf(f)
  <2>1. u \in Value /\ FunOf(u) = f
    BY <1>1, <1>4, BeforeFacts
  <2>2. 1 \in DOMAIN prog.op[u].args
    BY <1>7, <2>1, ValueArity DEF Is
  <2> QED
    BY <1>7, <2>1, <2>2, InOfFacts
<1> QED
  BY <1>5, <1>6, <1>7, FeedsMember

(* The sources of a value of f are in f, or used in f.                        *)
LEMMA SourcesInside ==
  ASSUME prog \in Programs, PointersOK, NEW f, NEW v \in InOf(f), NEW t \in Sources(v)
  PROVE  t \in InOf(f)
<1> DEFINE next == [w \in Value |-> Feeds(w)]
           cl == Closure({v}, Len(prog.op), next)
<1>1. PICK x \in cl : t \in SourcesAt(x)
  BY DEF Sources
<1>2. cl \subseteq InOf(f)
  <2>1. \A z \in InOf(f) : next[z] \subseteq InOf(f)
    <3> TAKE z \in InOf(f)
    <3>1. z \in Value
      BY DEF InOf
    <3>2. next[z] = Feeds(z)
      BY <3>1
    <3> QED
      BY <3>2, FeedsInside
  <2>2. Len(prog.op) \in Nat /\ {v} \subseteq InOf(f)
    BY ProgramFinite
  <2> HIDE DEF next
  <2> QED
    BY <2>1, <2>2, ClosureLeast
<1>3. x \in InOf(f) /\ x \in Value
  BY <1>2 DEF InOf
<1>4. CASE t = x
  BY <1>3, <1>4
<1>5. ASSUME Is(x, {"load"}), t \in LoadAliases(x), NEW u \in Before(x) \cap Users(t)
      PROVE  t \in InOf(f)
  <2>1. FunOf(x) = f /\ f \in Fun /\ Home(x) \in Block
    BY <1>3, <1>5, InstructionOfFacts DEF Is, Outside
  <2>2. FunOf(u) = f
    BY <1>3, <2>1, BeforeFacts
  <2>3. t \in Value
    <3>1. Arg(x, 1) \in Value
      BY <1>3, <1>5, ValueArity, ValueTyped DEF Is
    <3> QED
      BY <1>5, <2>1, <3>1, AliasesFacts DEF LoadAliases
  <2> QED
    BY <2>2, <2>3 DEF InOf
<1> QED
  BY <1>1, <1>4, <1>5, SourcesAtMember

-----------------------------------------------------------------------------
(* The keys that a check is counted for.                                          *)
LEMMA MinFacts ==
  ASSUME NEW T \in SUBSET Nat, T # {}
  PROVE  Min(T) \in T /\ \A m \in T : Min(T) <= m
  BY LeastNat DEF Min

(* A key of its parts.                                                        *)
LEMMA KeyTyped ==
  ASSUME NEW role \in {"src", "use"}, NEW of \in Fun \cup Value, NEW no \in Nat \cup {-1}
  PROVE  /\ Key(role, of, no) \in Keys
         /\ Key(role, of, no).role = role /\ Key(role, of, no).of = of /\ Key(role, of, no).arg = no
  BY DEF Key, Keys

(* The position at which a value is passed exists, and the value is there.    *)
LEMMA ArgNoFacts ==
  ASSUME prog \in Programs, NEW v \in Value, NEW u \in Users(v)
  PROVE  ArgNo(u, v) \in Nat /\ ArgNo(u, v) + 1 \in DOMAIN prog.op[u].args /\ Arg(u, ArgNo(u, v) + 1) = v
<1> DEFINE T == {k \in DOMAIN prog.op[u].args : Arg(u, k) = v}
<1>1. u \in Value /\ \E k \in DOMAIN prog.op[u].args : Arg(u, k) = v
  BY UserFacts
<1>2. DOMAIN prog.op[u].args = 1 .. Len(prog.op[u].args) /\ Len(prog.op[u].args) \in Nat
  BY <1>1, ValueTyped
<1>3. T \in SUBSET Nat /\ T # {} /\ \A k \in T : k >= 1
  BY <1>1, <1>2
<1>4. ArgNo(u, v) = Min(T) - 1
  BY DEF ArgNo
<1>5. Min(T) \in T
  BY <1>3, MinFacts
<1>6. Min(T) \in Nat /\ Min(T) >= 1 /\ Min(T) \in DOMAIN prog.op[u].args /\ Arg(u, Min(T)) = v
  BY <1>3, <1>5
<1> HIDE DEF T
<1>7. (Min(T) - 1) + 1 = Min(T) /\ Min(T) - 1 \in Nat
  BY <1>6
<1> QED
  BY <1>4, <1>6, <1>7

(* A value has finitely many users.                                           *)
LEMMA UsersFinite ==
  ASSUME prog \in Programs, NEW t
  PROVE  Users(t) \subseteq Value /\ IsFiniteSet(Users(t))
<1>1. Users(t) \in SUBSET Value
  BY DEF Users
<1> QED
  BY <1>1, ProgramFinite, FS_Subset

(* A function has finitely many callers.                                      *)
LEMMA CallersFinite ==
  ASSUME prog \in Programs, NEW f
  PROVE  /\ IsFiniteSet(Callers(f)) /\ Callers(f) \subseteq Value
         /\ \A c \in Callers(f) : Is(c, {"call"}) /\ ~Is(c, Outside) /\ f \in Range(prog.op[c].callees)
<1>1. Callers(f) \in SUBSET Value
  BY DEF Callers
<1>2. \A c \in Callers(f) : Is(c, {"call"}) /\ ~Is(c, Outside) /\ f \in Range(prog.op[c].callees)
  BY DEF Callers, Is, Outside
<1> QED
  BY <1>1, <1>2, ProgramFinite, FS_Subset

(* The targets of a check are values of its function.                         *)
LEMMA TargetsFacts ==
  ASSUME prog \in Programs, PointersOK, NEW sc \in Value, Is(sc, {"cmp"}), NEW t \in Targets(sc)
  PROVE  t \in Value /\ t \in InOf(FunOf(sc))
<1>1. PICK k \in {1, 2} : t \in Sources(Arg(sc, k))
  BY DEF Targets
<1>2. k \in DOMAIN prog.op[sc].args
  BY <1>1, ValueArity DEF Is
<1>3. Arg(sc, k) \in InOf(FunOf(sc))
  BY <1>2, InOfFacts
<1>4. t \in InOf(FunOf(sc))
  BY <1>1, <1>3, SourcesInside
<1> QED
  BY <1>4 DEF InOf

(* A check has finitely many targets.                                         *)
LEMMA TargetsFinite ==
  ASSUME prog \in Programs, PointersOK, NEW sc \in Value, Is(sc, {"cmp"})
  PROVE  IsFiniteSet(Targets(sc))
<1>1. Targets(sc) \in SUBSET Value
  BY TargetsFacts
<1> QED
  BY <1>1, ProgramFinite, FS_Subset

(* A parameter that is in f has a position among those of f.                   *)
LEMMA ParamNoFacts ==
  ASSUME prog \in Programs, NEW f \in Fun, NEW t \in InOf(f), Is(t, {"argument"})
  PROVE  /\ ParamNo(f, t) - 1 \in Nat /\ ParamNo(f, t) \in DOMAIN prog.fn[f].params
         /\ prog.fn[f].params[ParamNo(f, t)] = t
<1> DEFINE T == {k \in DOMAIN prog.fn[f].params : prog.fn[f].params[k] = t}
<1>1. t \in Value /\ ~Instruction(t)
  BY ValuePlaced DEF InOf, Is, Outside
<1>2. PICK u \in Users(t) : FunOf(u) = f
  BY <1>1 DEF InOf
<1>3. PICK g \in Fun : t \in Range(prog.fn[g].params)
  BY <1>1, ParameterFacts
<1>4. g = f
  BY <1>2, <1>3, ParameterFacts
<1>5. prog.fn[f].params \in Seq(Nat)
  BY ProgramTyped DEF FunRecord
<1>6. DOMAIN prog.fn[f].params = 1 .. Len(prog.fn[f].params) /\ Len(prog.fn[f].params) \in Nat
  BY <1>5, LenProperties
<1>7. T # {} /\ \A k \in T : k \in Nat /\ k - 1 \in Nat
  BY <1>3, <1>4, <1>6 DEF Range
<1>8. T \in SUBSET Nat
  BY <1>7
<1>9. ParamNo(f, t) \in T
  BY <1>7, <1>8, MinFacts DEF ParamNo
<1> QED
  BY <1>7, <1>9

(* What a check counts for a target as a source is finite, under keys.        *)
LEMMA SourceKeysFacts ==
  ASSUME prog \in Programs, PointersOK, NEW sc \in Value, Is(sc, {"cmp"}), NEW t \in Targets(sc)
  PROVE  IsFiniteSet(SourceKeys(sc, t)) /\ \A e \in SourceKeys(sc, t) : e[2] \in Keys
<1> DEFINE f == FunOf(sc)
<1>1. t \in Value /\ t \in InOf(f)
  BY TargetsFacts
<1>2. f \in Fun
  BY ValuePlaced DEF Is, Outside
<1>3. CASE Is(t, {"argument"})
  <2> DEFINE no == ParamNo(f, t) - 1
             D == {d \in Callers(f) : ~Direct(d)}
             h == [c \in D |-> <<<<t, c, 0>>, Key("src", c, no)>>]
             E == {h[c] : c \in D}
  <2>1. SourceKeys(sc, t) = IF ~prog.fn[f].taken THEN {} ELSE {<<<<t, c, 0>>, Key("src", c, no)>> : c \in D}
    <3>1. ~Is(t, {"call"})
      BY <1>3 DEF Is
    <3> QED
      BY <1>3, <3>1 DEF SourceKeys
  <2>2. {<<<<t, c, 0>>, Key("src", c, no)>> : c \in D} = E
    OBVIOUS
  <2>3. D \in SUBSET Callers(f) /\ D \subseteq Value
    BY CallersFinite
  <2>4. IsFiniteSet(D)
    BY <2>3, CallersFinite, FS_Subset
  <2> HIDE DEF D, h
  <2>5. IsFiniteSet(E) /\ IsFiniteSet({})
    BY <2>4, ImageFinite, FS_EmptySet
  <2>6. \A e \in E : e[2] \in Keys
    <3>1. no \in Nat \cup {-1}
      BY <1>1, <1>2, <1>3, ParamNoFacts
    <3> HIDE DEF no
    <3>2. \A c \in D : h[c][2] = Key("src", c, no)
      BY DEF h
    <3>3. \A c \in D : Key("src", c, no) \in Keys
      BY <2>3, <3>1, KeyTyped
    <3> QED
      BY <3>2, <3>3
  <2> HIDE DEF E, no
  <2> QED
    BY <2>1, <2>2, <2>5, <2>6
<1>4. CASE Is(t, {"call"})
  <2>1. ~Is(t, {"argument"})
    BY <1>4 DEF Is
  <2>2. SourceKeys(sc, t) = IF Direct(t) THEN {<<<<t, t, 0>>, Key("src", Called(t), -1)>>} ELSE {}
    BY <1>4, <2>1 DEF SourceKeys
  <2>3. IsFiniteSet({<<<<t, t, 0>>, Key("src", Called(t), -1)>>}) /\ IsFiniteSet({})
    BY FS_Singleton, FS_EmptySet
  <2>4. Direct(t) => Key("src", Called(t), -1) \in Keys
    BY <1>1, ValueTyped, KeyTyped
  <2> QED
    BY <2>2, <2>3, <2>4
<1>5. CASE ~Is(t, {"argument"}) /\ ~Is(t, {"call"})
  <2> DEFINE at == [u \in Users(t) |-> {u} \X DOMAIN prog.op[u].args]
             all == UNION {{u} \X DOMAIN prog.op[u].args : u \in Users(t)}
             Q == {q \in all : /\ Arg(q[1], q[2]) = t
                               /\ Is(q[1], {"call"}) /\ Direct(q[1]) /\ Home(q[1]) \in PredReach(Home(sc))}
             h == [q \in Q |-> <<<<t, q[1], q[2]>>, Key("src", Called(q[1]), ArgNo(q[1], t))>>]
  <2>1. SourceKeys(sc, t) = {<<<<t, q[1], q[2]>>, Key("src", Called(q[1]), ArgNo(q[1], t))>> : q \in Q}
    BY <1>5 DEF SourceKeys
  <2>2. SourceKeys(sc, t) = {h[q] : q \in Q}
    BY <2>1
  <2>3. all = UNION {at[u] : u \in Users(t)}
    OBVIOUS
  <2>4. \A u \in Users(t) : IsFiniteSet(at[u])
    <3> TAKE u \in Users(t)
    <3>1. DOMAIN prog.op[u].args = 1 .. Len(prog.op[u].args) /\ Len(prog.op[u].args) \in Nat
      BY UsersFinite, ValueTyped
    <3>2. IsFiniteSet(1 .. Len(prog.op[u].args))
      BY ONLY <3>1, FS_Interval
    <3>4. IsFiniteSet({u})
      BY ONLY FS_Singleton
    <3>3. IsFiniteSet({u} \X DOMAIN prog.op[u].args)
      BY <3>1, <3>2, <3>4, FS_Product
    <3> QED
      BY <3>3
  <2>5. IsFiniteSet(all)
    <3>1. IsFiniteSet(Users(t))
      BY UsersFinite
    <3> HIDE DEF at
    <3>2. IsFiniteSet(UNION {at[u] : u \in Users(t)})
      BY <2>4, <3>1, UnionFinite
    <3> QED
      BY ONLY <2>3, <3>2
  <2>6. \A q \in all : q[1] \in Users(t)
    OBVIOUS
  <2>7. Q \in SUBSET all
    OBVIOUS
  <2> HIDE DEF all
  <2>8. IsFiniteSet(Q)
    BY <2>5, <2>7, FS_Subset
  <2>9. \A q \in Q : h[q][2] = Key("src", Called(q[1]), ArgNo(q[1], t)) /\ q[1] \in Users(t) /\ Direct(q[1])
    BY <2>6
  <2> HIDE DEF Q, h
  <2>10. IsFiniteSet(SourceKeys(sc, t))
    BY <2>2, <2>8, ImageFinite
  <2>11. \A q \in Q : h[q][2] \in Keys
    <3> TAKE q \in Q
    <3>1. q[1] \in Users(t) /\ q[1] \in Value /\ Direct(q[1])
      BY <2>9, UsersFinite
    <3>2. Called(q[1]) \in Fun /\ ArgNo(q[1], t) \in Nat
      BY <1>1, <3>1, ValueTyped, ArgNoFacts
    <3> QED
      BY <2>9, <3>2, KeyTyped
  <2> QED
    BY <2>2, <2>10, <2>11
<1> QED
  BY <1>3, <1>4, <1>5

(* What a check counts for the uses of a target is finite, under keys.        *)
LEMMA UseKeysFacts ==
  ASSUME prog \in Programs, NEW sc \in Value, NEW t \in Value
  PROVE  IsFiniteSet(UseKeys(sc, t)) /\ \A e \in UseKeys(sc, t) : e[2] \in Keys
<1> DEFINE next == [w \in Value |-> UsesGoOn(sc, w)]
           cl == Closure({t}, Len(prog.op), next)
           at == [x \in cl |-> UsesAt(sc, x)]
<1>1. cl \in SUBSET Value /\ IsFiniteSet(cl)
  <2>1. \A x \in Value : next[x] \subseteq Value
    BY DEF UsesGoOn, Users
  <2>2. Len(prog.op) \in Nat /\ {t} \subseteq Value
    BY ProgramFinite
  <2> HIDE DEF next
  <2>3. cl \in SUBSET Value
    BY <2>1, <2>2, ClosureLeast
  <2> QED
    BY <2>3, ProgramFinite, FS_Subset
<1>2. Uses(sc, t) = UNION {at[x] : x \in cl}
  BY DEF Uses
<1> HIDE DEF cl
<1>3. \A x \in cl : IsFiniteSet(at[x]) /\ \A u \in at[x] : u[1] \in Value /\ u[2] \in Nat
  <2> TAKE x \in cl
  <2> DEFINE C == {c \in Users(x) : Is(c, {"call"}) /\ Home(c) \in SuccReach(Home(sc))}
             h == [u \in C |-> <<u, ArgNo(u, x)>>]
  <2>1. at[x] = {h[u] : u \in C}
    BY DEF UsesAt
  <2>2. C \in SUBSET Users(x) /\ x \in Value
    BY <1>1
  <2>3. \A u \in C : h[u][1] = u /\ h[u][2] = ArgNo(u, x)
    OBVIOUS
  <2> HIDE DEF C, h
  <2>4. IsFiniteSet(C)
    BY <2>2, UsersFinite, FS_Subset
  <2>5. IsFiniteSet(at[x])
    BY <2>1, <2>4, ImageFinite
  <2>6. \A u \in C : u \in Value /\ ArgNo(u, x) \in Nat
    BY <2>2, UsersFinite, ArgNoFacts
  <2> QED
    BY <2>1, <2>3, <2>5, <2>6
<1> HIDE DEF at
<1>4. IsFiniteSet(Uses(sc, t))
  BY <1>1, <1>2, <1>3, UnionFinite
<1>5. \A u \in Uses(sc, t) : u[1] \in Value /\ u[2] \in Nat
  BY <1>2, <1>3
<1> DEFINE U == {x \in Uses(sc, t) : Direct(x[1])}
           k == [u \in U |-> <<<<t, u[1], u[2]>>, Key("use", Called(u[1]), u[2])>>]
<1>6. UseKeys(sc, t) = {k[u] : u \in U}
  BY DEF UseKeys
<1>7. U \in SUBSET Uses(sc, t) /\ \A u \in U : Direct(u[1]) /\ k[u][2] = Key("use", Called(u[1]), u[2])
  OBVIOUS
<1> HIDE DEF U, k
<1>8. IsFiniteSet(U)
  BY <1>4, <1>7, FS_Subset
<1>9. \A u \in U : k[u][2] \in Keys
  <2> TAKE u \in U
  <2>1. u[1] \in Value /\ u[2] \in Nat /\ Direct(u[1])
    BY <1>5, <1>7
  <2>2. Called(u[1]) \in Fun
    BY <2>1, ValueTyped
  <2> QED
    BY <1>7, <2>1, <2>2, KeyTyped
<1>10. IsFiniteSet(UseKeys(sc, t))
  BY <1>6, <1>8, ImageFinite
<1> QED
  BY <1>6, <1>9, <1>10

(* What a check counts in all is finite, under keys.                          *)
LEMMA EventsFacts ==
  ASSUME prog \in Programs, PointersOK, NEW sc \in Value, Is(sc, {"cmp"})
  PROVE  IsFiniteSet(Events(sc)) /\ \A e \in Events(sc) : e[2] \in Keys
<1> DEFINE at == [t \in Targets(sc) |-> SourceKeys(sc, t) \cup UseKeys(sc, t)]
<1>1. Events(sc) = UNION {at[t] : t \in Targets(sc)}
  BY DEF Events
<1>2. \A t \in Targets(sc) : IsFiniteSet(at[t]) /\ \A e \in at[t] : e[2] \in Keys
  <2> TAKE t \in Targets(sc)
  <2>1. t \in Value
    BY TargetsFacts
  <2>2. IsFiniteSet(SourceKeys(sc, t)) /\ \A e \in SourceKeys(sc, t) : e[2] \in Keys
    BY SourceKeysFacts
  <2>3. IsFiniteSet(UseKeys(sc, t)) /\ \A e \in UseKeys(sc, t) : e[2] \in Keys
    BY <2>1, UseKeysFacts
  <2>4. IsFiniteSet(SourceKeys(sc, t) \cup UseKeys(sc, t))
    BY <2>2, <2>3, FS_Union
  <2> QED
    BY <2>2, <2>3, <2>4
<1> HIDE DEF at
<1>3. IsFiniteSet(Targets(sc))
  BY TargetsFinite
<1>4. IsFiniteSet(Events(sc))
  BY <1>1, <1>2, <1>3, UnionFinite
<1> QED
  BY <1>1, <1>2, <1>4

-----------------------------------------------------------------------------
(* The sources that stage 2 finds at a call have keys that stage 1 counted.               *)
LEMMA RangeFinite ==
  ASSUME NEW T, NEW s \in Seq(T)
  PROVE  IsFiniteSet(Range(s))
<1>1. DOMAIN s = 1 .. Len(s) /\ Len(s) \in Nat
  BY LenProperties
<1>2. IsFiniteSet(1 .. Len(s))
  BY <1>1, FS_Interval
<1>3. IsFiniteSet({s[k] : k \in DOMAIN s})
  BY <1>1, <1>2, ImageFinite
<1> QED
  BY <1>3 DEF Range

SourcesOK(S) == IsFiniteSet(S) /\ \A s \in S : s[1] \in Checked

(* The sources at an indirect call are finitely many, under keys of stage 1.  *)
LEMMA ArgumentSourcesOK ==
  ASSUME prog \in Programs, NEW c \in Value
  PROVE  SourcesOK(ArgumentSources(c))
<1> DEFINE all == Range(prog.op[c].callees) \X DOMAIN prog.op[c].args
           P == {q \in all : Key("src", c, q[2] - 1) \in Checked /\ prog.fn[q[1]].entry # 0}
           source(p) ==
             LET called == p[1]
                 v == prog.fn[called].params[p[2]]
                 scope == CalleeScope(c, called)
                 key == Key("src", c, p[2] - 1) IN
             <<key, v, IsCheckedForward(FunOf(c), key, {v} \cup (IF v \in prog.pointer THEN LoadsOf(v, called, scope) ELSE {}), scope)>>
           h == [p \in P |-> source(p)]
<1>1. ArgumentSources(c) = {h[p] : p \in P}
  BY DEF ArgumentSources
<1>2. /\ prog.op[c].callees \in Seq(Fun)
      /\ DOMAIN prog.op[c].args = 1 .. Len(prog.op[c].args) /\ Len(prog.op[c].args) \in Nat
  BY ValueTyped
<1>3. IsFiniteSet(Range(prog.op[c].callees))
  BY <1>2, RangeFinite
<1>4. IsFiniteSet(1 .. Len(prog.op[c].args))
  BY ONLY <1>2, FS_Interval
<1>5. IsFiniteSet(all)
  BY <1>2, <1>3, <1>4, FS_Product, ZenonT(60)
<1>6. P \in SUBSET all
  OBVIOUS
<1>7. \A p \in P : h[p][1] = Key("src", c, p[2] - 1) /\ Key("src", c, p[2] - 1) \in Checked
  OBVIOUS
<1> HIDE DEF P, h, all
<1>8. IsFiniteSet(P)
  BY <1>5, <1>6, FS_Subset
<1>9. IsFiniteSet(ArgumentSources(c))
  BY <1>1, <1>8, ImageFinite
<1> QED
  BY <1>1, <1>7, <1>9, ZenonT(60) DEF SourcesOK

(* The sources at a direct call are finitely many, under keys of stage 1.     *)
LEMMA CallSourcesOK ==
  ASSUME prog \in Programs, NEW c \in Value
  PROVE  SourcesOK(CallSources(c))
<1> DEFINE called == Called(c)
           scope == SuccReach(Home(c))
           outputs == {k \in DOMAIN prog.op[c].args \cap DOMAIN prog.fn[called].params : Arg(c, k) \in prog.pointer}
           start(no) == IF no = -1 THEN {c} ELSE LoadsOf(Arg(c, no + 1), FunOf(c), scope)
           less == [k \in outputs |-> k - 1]
           all == (IF Users(c) = {} THEN {} ELSE {-1}) \cup {k - 1 : k \in outputs}
           P == {k \in all : Key("src", called, k) \in Checked}
           h == [no \in P |-> <<Key("src", called, no), c, IsCheckedForward(FunOf(c), Key("src", called, no), start(no), scope)>>]
<1>1. CallSources(c) = {h[no] : no \in P}
  BY DEF CallSources
<1>2. DOMAIN prog.op[c].args = 1 .. Len(prog.op[c].args) /\ Len(prog.op[c].args) \in Nat
  BY ValueTyped
<1>3. IsFiniteSet(1 .. Len(prog.op[c].args))
  BY ONLY <1>2, FS_Interval
<1>4. outputs \in SUBSET DOMAIN prog.op[c].args
  OBVIOUS
<1>5. IsFiniteSet(outputs)
  BY <1>2, <1>3, <1>4, FS_Subset
<1>6. {k - 1 : k \in outputs} = {less[k] : k \in outputs}
  OBVIOUS
<1>7. IsFiniteSet({k - 1 : k \in outputs})
  <2> HIDE DEF less, outputs
  <2> QED
    BY <1>5, <1>6, ImageFinite
<1>8. IsFiniteSet(IF Users(c) = {} THEN {} ELSE {-1})
  BY ONLY FS_EmptySet, FS_Singleton
<1>9. IsFiniteSet(all)
  BY ONLY <1>7, <1>8, FS_Union
<1>10. P \in SUBSET all
  OBVIOUS
<1>11. \A no \in P : h[no][1] = Key("src", called, no) /\ Key("src", called, no) \in Checked
  OBVIOUS
<1> HIDE DEF P, h, all
<1>12. IsFiniteSet(P)
  BY <1>9, <1>10, FS_Subset
<1>13. IsFiniteSet(CallSources(c))
  BY <1>1, <1>12, ImageFinite
<1> QED
  BY <1>1, <1>11, <1>13 DEF SourcesOK

(* The counts: what is unchecked is counted in the total, under keys that stage 1 counted. *)
CountsOK ==
  /\ IsABag(CheckCount) /\ IsABag(UncheckCount) /\ IsABag(TotalCount)
  /\ Checked \subseteq Keys /\ Checked = {e[1] : e \in ChecksMap}
  /\ BagToSet(UncheckCount) = {e[1] : e \in UnchecksMap}
  /\ UncheckCount \sqsubseteq TotalCount /\ BagToSet(TotalCount) \subseteq Checked

(* Some more of what is counted, of which all of uncounted is not checked.               *)
LEMMA MoreCounted ==
  ASSUME CountsOK, NEW U, IsABag(U), NEW T, IsABag(T), \A k : Copies(k, U) <= Copies(k, T), DOMAIN T \subseteq Checked,
         UncheckCount' = UncheckCount (+) U, TotalCount' = TotalCount (+) T,
         {e[1] : e \in UnchecksMap'} = {e[1] : e \in UnchecksMap} \cup DOMAIN U,
         UNCHANGED <<prog, CheckCount, ChecksMap>>
  PROVE  CountsOK'
<1>1. IsABag(UncheckCount') /\ IsABag(TotalCount') /\ IsABag(UncheckCount) /\ IsABag(TotalCount)
  BY BagSum DEF CountsOK
<1>2. DOMAIN UncheckCount' = DOMAIN UncheckCount \cup DOMAIN U /\ DOMAIN TotalCount' = DOMAIN TotalCount \cup DOMAIN T
  BY BagSum DEF CountsOK
<1>3. \A k : Copies(k, UncheckCount') <= Copies(k, TotalCount')
  <2> TAKE k
  <2>1. /\ Copies(k, UncheckCount') = Copies(k, UncheckCount) + Copies(k, U)
        /\ Copies(k, TotalCount') = Copies(k, TotalCount) + Copies(k, T)
    BY <1>1, BagSum
  <2>2. Copies(k, UncheckCount) \in Nat /\ Copies(k, U) \in Nat /\ Copies(k, TotalCount) \in Nat /\ Copies(k, T) \in Nat
    BY <1>1, CopiesFacts
  <2>3. Copies(k, UncheckCount) <= Copies(k, TotalCount)
    BY <1>1, BagOrder DEF CountsOK
  <2>4. Copies(k, U) <= Copies(k, T)
    OBVIOUS
  <2> QED
    BY <2>1, <2>2, <2>3, <2>4
<1>4. UncheckCount' \sqsubseteq TotalCount'
  BY <1>1, <1>3, BagOrder
<1>5. Checked' = Checked /\ ChecksMap' = ChecksMap /\ CheckCount' = CheckCount /\ Keys' = Keys
  BY DEF Checked, Keys, Value
<1>6. BagToSet(UncheckCount') = {e[1] : e \in UnchecksMap'} /\ BagToSet(TotalCount') \subseteq Checked
  BY <1>2 DEF CountsOK, BagToSet
<1> QED
  BY <1>1, <1>4, <1>5, <1>6 DEF CountsOK

(* What AddSources adds to the counts.                                              *)
Unseens(S) == Counted({<<s, s[1]>> : s \in {t \in S : ~t[3]}})
Looked(S) == Counted({<<s, s[1]>> : s \in S})

(* The two bags that AddSources adds: under each key no more is unchecked than is looked at. *)
LEMMA SourcesCounted ==
  ASSUME NEW S, IsFiniteSet(S)
  PROVE  /\ IsABag(Unseens(S)) /\ IsABag(Looked(S))
         /\ DOMAIN Looked(S) \subseteq {s[1] : s \in S} /\ DOMAIN Unseens(S) = {s[1] : s \in {t \in S : ~t[3]}}
         /\ \A k : Copies(k, Unseens(S)) \in Nat /\ Copies(k, Looked(S)) \in Nat
         /\ \A k : Copies(k, Unseens(S)) <= Copies(k, Looked(S))
         /\ \A k : (\A s \in S : s[1] = k => s[3]) => Copies(k, Unseens(S)) = 0
         /\ \A s \in S : Copies(s[1], Looked(S)) >= 1
<1> DEFINE R == {t \in S : ~t[3]}
           h == [s \in S |-> <<s, s[1]>>]
           EU == {<<s, s[1]>> : s \in R}
           ET == {<<s, s[1]>> : s \in S}
<1>1. R \in SUBSET S
  OBVIOUS
<1>2. IsFiniteSet(R)
  BY <1>1, FS_Subset
<1>3. EU = {h[s] : s \in R} /\ ET = {h[s] : s \in S} /\ \A s \in S : h[s] = <<s, s[1]>>
  OBVIOUS
<1>4. Unseens(S) = Counted(EU) /\ Looked(S) = Counted(ET)
  BY DEF Unseens, Looked
<1>5. \A s \in R : s \in S /\ ~s[3]
  OBVIOUS
<1> HIDE DEF R, h, EU, ET
<1>6. IsFiniteSet(EU) /\ IsFiniteSet(ET)
  BY <1>2, <1>3, ImageFinite
<1>7. EU \subseteq ET
  BY <1>1, <1>3
<1>8. /\ IsABag(Counted(EU)) /\ IsABag(Counted(ET))
      /\ DOMAIN Counted(ET) = {e[2] : e \in ET} /\ DOMAIN Counted(EU) = {e[2] : e \in EU}
  BY <1>6, CountedBag
<1>9. \A k : Copies(k, Counted(EU)) \in Nat /\ Copies(k, Counted(ET)) \in Nat
  BY <1>8, CopiesFacts
<1>10. \A k : Copies(k, Counted(EU)) <= Copies(k, Counted(ET))
  <2> TAKE k
  <2> DEFINE eu == {e \in EU : e[2] = k}
             et == {e \in ET : e[2] = k}
  <2>1. Copies(k, Counted(EU)) = Cardinality(eu) /\ Copies(k, Counted(ET)) = Cardinality(et)
    BY <1>6, CountedBag
  <2>2. eu \in SUBSET et /\ et \in SUBSET ET
    BY <1>7
  <2> HIDE DEF eu, et
  <2>3. IsFiniteSet(et)
    BY <1>6, <2>2, FS_Subset
  <2>4. Cardinality(eu) <= Cardinality(et)
    BY <2>2, <2>3, FS_Subset
  <2> QED
    BY <2>1, <2>4
<1>11. DOMAIN Counted(ET) \subseteq {s[1] : s \in S}
  <2>1. \A e \in ET : \E s \in S : e[2] = s[1]
    BY <1>3
  <2> QED
    BY <1>8, <2>1
<1>12. DOMAIN Counted(EU) = {s[1] : s \in R}
  <2>1. \A e \in EU : \E s \in R : e[2] = s[1]
    BY <1>3, <1>5
  <2>2. \A s \in R : \E e \in EU : e[2] = s[1]
    BY <1>3, <1>5
  <2> QED
    BY <1>8, <2>1, <2>2
<1>13. ASSUME NEW k, \A s \in S : s[1] = k => s[3]
       PROVE  Copies(k, Counted(EU)) = 0
  <2>1. \A e \in EU : e[2] # k
    BY <1>3, <1>5, <1>13
  <2>2. {e \in EU : e[2] = k} = {}
    BY <2>1
  <2>3. Copies(k, Counted(EU)) = Cardinality({e \in EU : e[2] = k})
    BY <1>6, CountedBag
  <2> QED
    BY <2>2, <2>3, FS_EmptySet
<1>14. ASSUME NEW s \in S
       PROVE  Copies(s[1], Counted(ET)) >= 1
  <2>1. h[s] \in ET /\ h[s][2] = s[1]
    BY <1>3
  <2>2. s[1] \in DOMAIN Counted(ET)
    BY <1>8, <2>1
  <2>3. Copies(s[1], Counted(ET)) # 0 /\ Copies(s[1], Counted(ET)) \in Nat
    BY <1>8, <2>2, CopiesFacts
  <2> QED
    BY <2>3
<1> QED
  BY <1>4, <1>8, <1>9, <1>10, <1>11, <1>12, <1>13, <1>14 DEF R

(* Counting the sources of a call keeps the counts consistent.                *)
LEMMA AddSourcesOK ==
  ASSUME CountsOK, NEW S, SourcesOK(S), AddSources(S), UNCHANGED <<prog, CheckCount, ChecksMap>>
  PROVE  CountsOK'
<1> DEFINE R == {t \in S : ~t[3]}
<1>1. IsFiniteSet(S) /\ \A s \in S : s[1] \in Checked
  BY DEF SourcesOK
<1>2. UncheckCount' = UncheckCount (+) Unseens(S) /\ TotalCount' = TotalCount (+) Looked(S)
  BY DEF AddSources, Unseens, Looked
<1>3. /\ IsABag(Unseens(S)) /\ IsABag(Looked(S)) /\ \A k : Copies(k, Unseens(S)) <= Copies(k, Looked(S))
      /\ DOMAIN Looked(S) \subseteq {s[1] : s \in S} /\ DOMAIN Unseens(S) = {s[1] : s \in R}
  BY <1>1, SourcesCounted
<1>4. DOMAIN Looked(S) \subseteq Checked
  BY <1>1, <1>3
<1>5. {e[1] : e \in UnchecksMap'} = {e[1] : e \in UnchecksMap} \cup DOMAIN Unseens(S)
  <2> DEFINE added == {<<s[1], s[2]>> : s \in R}
  <2>1. {e[1] : e \in added} = {s[1] : s \in R}
    <3>1. \A e \in added : \E s \in R : e[1] = s[1]
      OBVIOUS
    <3>2. \A s \in R : <<s[1], s[2]>> \in added /\ <<s[1], s[2]>>[1] = s[1]
      OBVIOUS
    <3> HIDE DEF added
    <3>3. {e[1] : e \in added} \subseteq {s[1] : s \in R}
      BY ONLY <3>1
    <3>4. \A s \in R : \E e \in added : s[1] = e[1]
      BY <3>2
    <3>5. {s[1] : s \in R} \subseteq {e[1] : e \in added}
      BY ONLY <3>4
    <3> QED
      BY <3>3, <3>5
  <2>2. UnchecksMap' = UnchecksMap \cup added
    BY DEF AddSources
  <2> HIDE DEF added, R
  <2>3. {e[1] : e \in UnchecksMap'} = {e[1] : e \in UnchecksMap} \cup {e[1] : e \in added}
    BY <2>2
  <2> QED
    BY <1>3, <2>1, <2>3
<1> HIDE DEF R
<1> QED
  BY <1>2, <1>3, <1>4, <1>5, MoreCounted

(* A check of stage 1.                                                          *)
LEMMA CheckCountedOK ==
  ASSUME prog \in Programs, PointersOK, CountsOK, NEW sc \in Value, Is(sc, {"cmp"}),
         CheckCount' = CheckCount (+) Counted(Events(sc)), AddModels({e[2] : e \in Events(sc)}, ModelCheck(sc)),
         UNCHANGED <<prog, UncheckCount, TotalCount, UnchecksMap>>
  PROVE  CountsOK'
<1> DEFINE E == Events(sc)
           keys == {e[2] : e \in E}
<1>1. IsFiniteSet(E) /\ \A e \in E : e[2] \in Keys
  BY EventsFacts
<1>2. IsABag(CheckCount') /\ DOMAIN CheckCount' = DOMAIN CheckCount \cup keys
  <2>1. IsABag(Counted(E)) /\ DOMAIN Counted(E) = keys
    BY <1>1, CountedBag
  <2> HIDE DEF E, keys
  <2>2. CheckCount' = CheckCount (+) Counted(E)
    BY DEF E
  <2> QED
    BY <2>1, <2>2, BagSum DEF CountsOK
<1>3. Keys' = Keys /\ keys \subseteq Keys
  BY <1>1 DEF Keys, Value
<1>4. Checked' = Checked \cup keys /\ Checked' \subseteq Keys'
  BY <1>2, <1>3 DEF Checked, BagToSet, CountsOK
<1>5. Checked' = {e[1] : e \in ChecksMap'}
  <2>1. ChecksMap' = ChecksMap \cup {<<key, ModelCheck(sc)>> : key \in {k \in keys : \A e \in ChecksMap : e[1] # k}}
    BY DEF AddModels
  <2>2. Checked = {e[1] : e \in ChecksMap}
    BY DEF CountsOK
  <2> HIDE DEF keys
  <2> DEFINE m == ModelCheck(sc)
  <2> HIDE DEF m
  <2>3. ChecksMap' = ChecksMap \cup {<<key, m>> : key \in {k \in keys : k \notin Checked}}
    <3>1. {k \in keys : k \notin Checked} = {k \in keys : \A e \in ChecksMap : e[1] # k}
      BY <2>2
    <3> QED
      BY <2>1, <3>1 DEF m
  <2> DEFINE added == {<<key, m>> : key \in {k \in keys : k \notin Checked}}
  <2>5. {e[1] : e \in added} = {k \in keys : k \notin Checked}
    <3>1. \A k \in keys : k \notin Checked => <<k, m>> \in added /\ <<k, m>>[1] = k
      OBVIOUS
    <3>2. \A e \in added : e[1] \in keys /\ e[1] \notin Checked
      OBVIOUS
    <3> HIDE DEF added
    <3> QED
      BY <3>1, <3>2
  <2>6. ChecksMap' = ChecksMap \cup added
    BY <2>3
  <2> HIDE DEF added
  <2>7. {e[1] : e \in ChecksMap'} = {e[1] : e \in ChecksMap} \cup {e[1] : e \in added}
    BY <2>6
  <2>4. \A k : k \in {e[1] : e \in ChecksMap'} <=> k \in Checked \/ k \in keys
    BY <2>2, <2>5, <2>7
  <2> QED
    BY <1>4, <2>4
<1>6. Checked \subseteq Checked'
  BY <1>4
<1> QED
  BY <1>2, <1>4, <1>5, <1>6 DEF CountsOK

-----------------------------------------------------------------------------
(* The calls of isCheckedBackward.                                                 *)
AnyCall == [fun : Fun, value : Value, scope : SUBSET Block, depth : 1 .. MaxDepth + 1]

(* An order of a set is a sequence of its members.                            *)
LEMMA OrdersTyped ==
  ASSUME NEW T, NEW S \in SUBSET T, IsFiniteSet(S), NEW s \in Orders(S)
  PROVE  s \in Seq(T)
<1>1. Cardinality(S) \in Nat
  BY FS_CardinalityType
<1>2. s \in [1 .. Cardinality(S) -> S]
  BY DEF Orders
<1> QED
  BY <1>1, <1>2

(* A frame of a function, a value, some blocks and a depth is a call of the search.    *)
LEMMA FrameTyped ==
  ASSUME NEW f \in Fun, NEW v \in Value, NEW scope \in SUBSET Block, NEW d \in 1 .. MaxDepth + 1
  PROVE  Frame(f, v, scope, d) \in AnyCall
  BY DEF Frame, AnyCall

(* The calls of the search for a parameter are calls of it.                   *)
LEMMA CallerFramesTyped ==
  ASSUME prog \in Programs, NEW fr \in AnyCall, fr.depth <= MaxDepth
  PROVE  IsFiniteSet(CallerFrames(fr)) /\ CallerFrames(fr) \in SUBSET AnyCall
<1> DEFINE f == fr.fun
           no == ParamNo(f, fr.value)
           C == {d \in Callers(f) : no \in DOMAIN prog.op[d].args}
           h == [c \in C |-> Frame(FunOf(c), Arg(c, no), PredReach(Home(c)), fr.depth + 1)]
<1>1. CallerFrames(fr) = {h[c] : c \in C}
  BY DEF CallerFrames
<1>2. C \in SUBSET Callers(f)
  OBVIOUS
<1>3. \A c \in C : no \in DOMAIN prog.op[c].args /\ h[c] = Frame(FunOf(c), Arg(c, no), PredReach(Home(c)), fr.depth + 1)
  OBVIOUS
<1>4. fr.depth + 1 \in 1 .. MaxDepth + 1
  BY DEF AnyCall, MaxDepth
<1> HIDE DEF C, h, no
<1>5. IsFiniteSet(C)
  BY <1>2, CallersFinite, FS_Subset
<1>6. \A c \in C : h[c] \in AnyCall
  <2> TAKE c \in C
  <2>1. c \in Value /\ ~Is(c, Outside)
    BY <1>2, CallersFinite
  <2>2. FunOf(c) \in Fun /\ Arg(c, no) \in Value /\ PredReach(Home(c)) \in SUBSET Block
    BY <1>3, <2>1, ValuePlaced, ValueTyped DEF PredReach
  <2> QED
    BY <1>3, <1>4, <2>2, FrameTyped
<1> QED
  BY <1>1, <1>5, <1>6, ImageFinite

(* The values a value comes from, one case of the code at a time.             *)
LEMMA OriginsMember ==
  ASSUME NEW fr, NEW s \in Origins(fr)
  PROVE  \/ s = prog.op[fr.value].args
         \/ s = <<>>
         \/ /\ Is(fr.value, {"load"})
            /\ \E users \in SUBSET Value :
                 s \in Orders({u \in users : Is(u, {"load"})} \cup {Arg(u, 1) : u \in {w \in users : Is(w, {"store"})}})
<1> DEFINE v == fr.value
           users == UNION {{u \in Users(a) : Home(u) \in fr.scope} : a \in Aliases(Arg(v, 1), fr.fun)}
<1>1. users \in SUBSET Value
  BY DEF Users
<1>2. CASE Is(v, {"load"})
  <2>1. ~Is(v, {"phi", "select", "gep", "cast", "binary", "alloca"})
    BY <1>2 DEF Is
  <2>2. Origins(fr) = Orders({u \in users : Is(u, {"load"})} \cup {Arg(u, 1) : u \in {w \in users : Is(w, {"store"})}})
    BY <1>2, <2>1 DEF Origins
  <2> HIDE DEF users
  <2> QED
    BY <1>1, <1>2, <2>2
<1>3. CASE ~Is(v, {"load"})
  BY <1>3 DEF Origins
<1> QED
  BY <1>2, <1>3

(* The values a value comes from are values.                                  *)
LEMMA OriginsTyped ==
  ASSUME prog \in Programs, NEW fr \in AnyCall, NEW s \in Origins(fr)
  PROVE  s \in Seq(Value)
<1>1. fr.value \in Value
  BY DEF AnyCall
<1>2. prog.op[fr.value].args \in Seq(Value) /\ <<>> \in Seq(Value)
  BY <1>1, ValueTyped, EmptySeq
<1>3. ASSUME NEW users \in SUBSET Value,
             s \in Orders({u \in users : Is(u, {"load"})} \cup {Arg(u, 1) : u \in {w \in users : Is(w, {"store"})}})
      PROVE  s \in Seq(Value)
  <2> DEFINE loads == {u \in users : Is(u, {"load"})}
             stores == {w \in users : Is(w, {"store"})}
             h == [u \in stores |-> Arg(u, 1)]
  <2>1. {Arg(u, 1) : u \in stores} = {h[u] : u \in stores}
    OBVIOUS
  <2>2. loads \in SUBSET Value /\ stores \in SUBSET Value
    OBVIOUS
  <2>3. \A u \in stores : h[u] \in Value
    BY ValueTyped, ValueArity DEF Is
  <2>4. s \in Orders(loads \cup {h[u] : u \in stores})
    BY <1>3, <2>1
  <2> HIDE DEF loads, stores, h
  <2>5. IsFiniteSet(loads) /\ IsFiniteSet(stores)
    BY <2>2, ProgramFinite, FS_Subset
  <2>6. IsFiniteSet({h[u] : u \in stores})
    BY <2>5, ImageFinite
  <2>7. IsFiniteSet(loads \cup {h[u] : u \in stores}) /\ loads \cup {h[u] : u \in stores} \in SUBSET Value
    BY <2>2, <2>3, <2>5, <2>6, FS_Union
  <2> QED
    BY <2>4, <2>7, OrdersTyped
<1> QED
  BY <1>2, <1>3, OriginsMember

-----------------------------------------------------------------------------
(* Where the pass is, and what that means for the rest of its state.                    *)
ControlOK ==
  /\ prog \in Programs
  /\ pc \in {"aliases", "checks", "calls", "uses", "backward", "report", "done"}
  /\ n \in DOMAIN prog.order /\ todo \subseteq Value /\ ci \in Value \cup {0} /\ arg \in Nat
  /\ pc = "checks" => todo \subseteq Comparisons(F)
  /\ pc \in {"calls", "uses", "backward"} => todo \subseteq Of(F, {"call"})
  /\ pc \in {"uses", "backward"} =>
       ci \in Of(F, {"call"}) /\ Direct(ci) /\ ~Passed(ci) /\ arg <= Len(prog.op[ci].args)
  /\ pc = "backward" => arg < Len(prog.op[ci].args) /\ UseKey \in Checked
StackOK == stack \in Seq(AnyCall) /\ VSet \subseteq Value /\ isChecked \in BOOLEAN
TypeInv == ControlOK /\ PointersOK /\ CountsOK /\ StackOK /\ reports \subseteq Checked

(* The parts of the invariant give TypeOK.                                    *)
LEMMA TypeInvType ==
  ASSUME TypeInv
  PROVE  TypeOK
<1> USE DEF TypeInv
<1>1. FuncPAResults \in [Fun -> SUBSET (Value \X Value)]
  BY DEF PointersOK
<1>2. \A k \in DOMAIN stack : stack[k].value \in Value /\ stack[k].depth \in 1 .. MaxDepth + 1
  <2>1. \A k \in DOMAIN stack : stack[k] \in AnyCall
    BY LenProperties, ElementOfSeq DEF StackOK
  <2> QED
    BY <2>1 DEF AnyCall
<1> QED
  BY <1>1, <1>2 DEF ControlOK, CountsOK, StackOK, TypeOK

(* The empty bag has no copies.                                               *)
LEMMA EmptyBagFacts ==
  IsABag(EmptyBag) /\ DOMAIN EmptyBag = {} /\ \A k : Copies(k, EmptyBag) = 0
  BY DEF EmptyBag, SetToBag, IsABag, Copies

(* Adding the empty bag changes nothing.                                      *)
LEMMA NothingMore ==
  ASSUME NEW A, IsABag(A)
  PROVE  A (+) EmptyBag = A
<1>1. DOMAIN A \cup DOMAIN EmptyBag = DOMAIN A
  BY EmptyBagFacts
<1>2. \A e \in DOMAIN A : A[e] \in Nat /\ e \notin DOMAIN EmptyBag
  BY EmptyBagFacts DEF IsABag
<1>3. A = [e \in DOMAIN A |-> A[e]]
  BY DEF IsABag
<1>4. A (+) EmptyBag = [e \in DOMAIN A |-> A[e] + 0]
  BY <1>1, <1>2 DEF (+)
<1> QED
  BY <1>2, <1>3, <1>4

(* The invariant holds at the start.                                          *)
LEMMA InitTypeInv ==
  ASSUME Init
  PROVE  TypeInv
<1>1. CountsOK
  <2>1. EmptyBag \sqsubseteq EmptyBag
    BY EmptyBagFacts, BagOrder
  <2> QED
    BY <2>1, EmptyBagFacts DEF CountsOK, Init, Checked, BagToSet
<1>2. prog.order \in Seq(Fun) /\ prog.order # <<>>
  BY ProgramTyped DEF Init, WellFormed
<1>3. 1 \in DOMAIN prog.order
  BY <1>2, EmptySeq, LenProperties
<1>4. ControlOK
  BY <1>3 DEF ControlOK, Init
<1>5. StackOK
  BY EmptySeq DEF StackOK, Init
<1>6. PointersOK /\ reports \subseteq Checked
  BY DEF PointersOK, Init
<1> QED
  BY <1>1, <1>4, <1>5, <1>6 DEF TypeInv

(* The checks and calls of a function are values.                             *)
LEMMA ComparisonsTyped ==
  ASSUME prog \in Programs, NEW f \in Fun
  PROVE  /\ Comparisons(f) \subseteq Value /\ \A v \in Comparisons(f) : Is(v, {"cmp"})
         /\ Of(f, {"call"}) \subseteq Value
  BY ProgramTyped DEF Comparisons, WellFormed, Value, Of

(* The work of a function in each stage.                                      *)
LEMMA WorkTyped ==
  ASSUME NEW phase, NEW f
  PROVE  /\ phase = "checks" => Work(phase, f) \subseteq Comparisons(f)
         /\ phase = "calls" => Work(phase, f) \subseteq Of(f, {"call"})
         /\ phase \notin {"checks", "calls"} => Work(phase, f) = {}
  BY DEF Work

(* The function that the pass is at.                                          *)
LEMMA CurrentFunction ==
  ASSUME ControlOK
  PROVE  F \in Fun
<1>1. prog.order \in Seq(Fun) /\ n \in DOMAIN prog.order
  BY ProgramTyped DEF ControlOK
<1> QED
  BY <1>1, LenProperties, ElementOfSeq DEF F

(* Going on to the next function, or to the next stage, keeps the control state in order. *)
LEMMA NextFunctionControl ==
  ASSUME ControlOK, NextFunction, pc \in {"aliases", "checks", "calls"}
  PROVE  ControlOK'
<1>1. prog' = prog /\ ci' = ci /\ arg' = arg /\ Value' = Value
  BY DEF NextFunction, Value
<1>2. prog.order \in Seq(Fun) /\ prog.order # <<>> /\ n \in DOMAIN prog.order
  BY ProgramTyped DEF ControlOK, WellFormed
<1>3. Len(prog.order) \in Nat \ {0} /\ DOMAIN prog.order = 1 .. Len(prog.order)
  BY <1>2, EmptySeq, LenProperties
<1>4. n' \in DOMAIN prog.order
  BY <1>2, <1>3 DEF NextFunction
<1>5. pc' \in {"aliases", "checks", "calls", "report"}
  BY DEF NextFunction, Following
<1>6. F' = prog.order[n'] /\ F' \in Fun
  <2>1. F' = prog.order[n']
    BY <1>1 DEF F
  <2> QED
    BY <1>2, <1>3, <1>4, <2>1, ElementOfSeq
<1>7. todo' = Work(pc', F')
  BY <1>6 DEF NextFunction
<1>8. /\ Comparisons(F') \subseteq Value /\ Of(F', {"call"}) \subseteq Value
      /\ Comparisons(F)' = Comparisons(F') /\ Of(F, {"call"})' = Of(F', {"call"})
  <2>1. Comparisons(F') \subseteq Value /\ Of(F', {"call"}) \subseteq Value
    BY <1>6, ComparisonsTyped DEF ControlOK
  <2>2. Comparisons(F)' = Comparisons(F') /\ Of(F, {"call"})' = Of(F', {"call"})
    BY <1>1 DEF Comparisons, Of, Value, Is, Instruction, FunOf, Home
  <2> QED
    BY <2>1, <2>2
<1>9. /\ pc' = "checks" => todo' \subseteq Comparisons(F')
      /\ pc' = "calls" => todo' \subseteq Of(F', {"call"})
      /\ pc' \notin {"checks", "calls"} => todo' = {}
  BY <1>7, WorkTyped
<1>10. todo' \subseteq Value
  BY <1>5, <1>8, <1>9
<1> QED
  BY <1>1, <1>4, <1>5, <1>8, <1>9, <1>10 DEF ControlOK

(* What the control state speaks of does not change while prog and n stay.    *)
LEMMA SameControl ==
  ASSUME UNCHANGED <<prog, n>>
  PROVE  /\ Value' = Value /\ F' = F /\ Block' = Block /\ AnyCall' = AnyCall /\ Keys' = Keys
         /\ Comparisons(F)' = Comparisons(F) /\ Of(F, {"call"})' = Of(F, {"call"})
         /\ \A c : Direct(c)' = Direct(c) /\ Called(c)' = Called(c) /\ Passed(c)' = Passed(c)
  BY DEF Value, F, Block, AnyCall, Keys, Comparisons, Of, Is, Instruction, FunOf, Home, Direct, Called, Passed, Users

(* The counts stay consistent while they do not change.                       *)
LEMMA SameCounts ==
  ASSUME CountsOK, UNCHANGED <<prog, countVars>>
  PROVE  CountsOK' /\ Checked' = Checked
  BY DEF CountsOK, countVars, Keys, Value, Checked

(* The alias results stay while they do not change.                           *)
LEMMA SamePointers ==
  ASSUME PointersOK, UNCHANGED <<prog, FuncPAResults>>
  PROVE  PointersOK'
  BY DEF PointersOK, Value

(* The calls of the search stay while they do not change.                     *)
LEMMA SameStack ==
  ASSUME StackOK, UNCHANGED <<prog, sliceVars>>
  PROVE  StackOK'
  BY DEF StackOK, sliceVars, Value, AnyCall, Block

(* A search that is over leaves nothing.                                      *)
LEMMA EmptyStack ==
  ASSUME UNCHANGED prog, stack' = <<>>, VSet' = {}, isChecked' = FALSE
  PROVE  StackOK'
<1>1. <<>> \in Seq(AnyCall')
  BY EmptySeq
<1> QED
  BY <1>1 DEF StackOK

(* The aliases found for a function relate values.                            *)
LEMMA AliasesTyped ==
  ASSUME prog \in Programs, NEW f \in Fun
  PROVE  AliasPointers(f) \in SUBSET (Value \X Value)
<1>1. \A v \in Of(f, {"load"}) : Arg(v, 1) \in Value
  BY ValueTyped, ValueArity DEF Of, Is
<1>2. \A v \in Of(f, {"store"}) : Arg(v, 2) \in Value
  BY ValueTyped, ValueArity DEF Of, Is
<1>3. \A v \in Of(f, {"call"}) : Range(prog.op[v].args) \subseteq Value
  BY ValueTyped DEF Of
<1>4. Addresses(f) \subseteq Value
  BY <1>1, <1>2, <1>3 DEF Addresses
<1> QED
  BY <1>4 DEF AliasPointers

(* The invariant survives the alias analysis of a function.                   *)
LEMMA FunctionAliasesStep ==
  ASSUME TypeInv, FunctionAliases
  PROVE  TypeInv'
<1> USE DEF TypeInv, FunctionAliases
<1>1. UNCHANGED <<prog, countVars, sliceVars, reports>>
  BY DEF NextFunction
<1>2. ControlOK'
  BY NextFunctionControl
<1>3. PointersOK'
  <2>1. AliasPointers(F) \in SUBSET (Value \X Value)
    BY CurrentFunction, AliasesTyped DEF ControlOK
  <2>2. FuncPAResults' = [FuncPAResults EXCEPT ![F] = AliasPointers(F)] /\ Value' = Value
    BY <1>1 DEF DetectAliasPointers, Value
  <2> QED
    BY <2>1, <2>2 DEF PointersOK
<1>4. CountsOK' /\ Checked' = Checked
  BY <1>1, SameCounts
<1>5. StackOK'
  BY <1>1, SameStack
<1> QED
  BY <1>1, <1>2, <1>3, <1>4, <1>5

(* The invariant survives the end of a function.                              *)
LEMMA EndFunctionStep ==
  ASSUME TypeInv, EndFunction
  PROVE  TypeInv'
<1> USE DEF TypeInv, EndFunction
<1>1. UNCHANGED <<prog, countVars, sliceVars, reports>>
  BY DEF NextFunction
<1>2. ControlOK'
  BY NextFunctionControl
<1>3. PointersOK' /\ CountsOK' /\ Checked' = Checked /\ StackOK'
  BY <1>1, SamePointers, SameCounts, SameStack
<1> QED
  BY <1>1, <1>2, <1>3

(* The invariant survives a check of stage 1.                                 *)
LEMMA CountSrcUseChecksStep ==
  ASSUME TypeInv, CountSrcUseChecks
  PROVE  TypeInv'
<1> USE DEF TypeInv
<1>1. PICK sc \in todo : /\ todo' = todo \ {sc}
                         /\ CheckCount' = CheckCount (+) Counted(Events(sc))
                         /\ AddModels({e[2] : e \in Events(sc)}, ModelCheck(sc))
  BY DEF CountSrcUseChecks
<1>2. UNCHANGED <<prog, FuncPAResults, pc, n, ci, arg, UncheckCount, TotalCount, UnchecksMap, sliceVars, reports>> /\ pc = "checks"
  BY DEF CountSrcUseChecks
<1>3. sc \in Value /\ Is(sc, {"cmp"})
  BY <1>1, <1>2, CurrentFunction, ComparisonsTyped DEF ControlOK
<1>4. CountsOK'
  BY <1>1, <1>2, <1>3, CheckCountedOK DEF ControlOK
<1>5. Checked \subseteq Checked'
  <2>1. IsFiniteSet(Events(sc))
    BY <1>3, EventsFacts DEF ControlOK
  <2>2. IsABag(Counted(Events(sc))) /\ IsABag(CheckCount)
    BY <2>1, CountedBag DEF CountsOK
  <2> QED
    BY <1>1, <2>2, BagSum DEF Checked, BagToSet
<1>6. ControlOK'
  BY <1>1, <1>2, SameControl DEF ControlOK
<1>7. PointersOK' /\ StackOK'
  BY <1>2, SamePointers, SameStack
<1> QED
  BY <1>2, <1>4, <1>5, <1>6, <1>7

(* The invariant survives the sources of a call in stage 2.                   *)
LEMMA CountSrcUnchecksStep ==
  ASSUME TypeInv, CountSrcUnchecks
  PROVE  TypeInv'
<1> USE DEF TypeInv
<1> DEFINE c == Min(todo)
<1>1. /\ pc = "calls" /\ todo # {} /\ ci' = c /\ arg' = 0 /\ todo' = todo \ {c}
      /\ UNCHANGED <<prog, FuncPAResults, n, CheckCount, ChecksMap, sliceVars, reports>>
  BY DEF CountSrcUnchecks
<1>2. c \in todo /\ c \in Value /\ c \in Of(F, {"call"})
  <2>1. todo \in SUBSET Nat
    BY ProgramFinite DEF ControlOK
  <2>2. c \in todo
    BY <1>1, <2>1, MinFacts
  <2> QED
    BY <1>1, <2>2 DEF ControlOK
<1>3. \/ ~Direct(c) /\ AddSources(ArgumentSources(c)) /\ pc' = pc
      \/ Direct(c) /\ Passed(c) /\ AddSources({}) /\ pc' = pc
      \/ Direct(c) /\ ~Passed(c) /\ AddSources(CallSources(c)) /\ pc' = "uses"
  BY DEF CountSrcUnchecks
<1>4. SourcesOK(ArgumentSources(c)) /\ SourcesOK({}) /\ SourcesOK(CallSources(c))
  <2>1. SourcesOK({})
    BY FS_EmptySet DEF SourcesOK
  <2> QED
    BY <1>2, <2>1, ArgumentSourcesOK, CallSourcesOK DEF ControlOK
<1> HIDE DEF c
<1>5. CountsOK'
  BY <1>1, <1>3, <1>4, AddSourcesOK
<1>6. Checked' = Checked
  BY <1>1 DEF Checked
<1>7. PointersOK' /\ StackOK'
  BY <1>1, SamePointers, SameStack
<1>8. 0 <= Len(prog.op[c].args)
  BY <1>2, ValueTyped DEF ControlOK
<1>9. ControlOK'
  <2>1. pc' \in {"calls", "uses"} /\ (pc' = "uses" => Direct(c) /\ ~Passed(c))
    BY <1>1, <1>3
  <2> QED
    BY <1>1, <1>2, <1>8, <2>1, SameControl DEF ControlOK
<1> QED
  BY <1>1, <1>5, <1>6, <1>7, <1>9

(* The call whose arguments are looked at, and the blocks before it.          *)
LEMMA ScopeTyped ==
  ASSUME ControlOK, pc \in {"uses", "backward"}
  PROVE  ci \in Value /\ Is(ci, {"call"}) /\ Home(ci) \in Block /\ ScopeOf(ci) \in SUBSET Block /\ Called(ci) \in Fun
<1>1. ci \in Value /\ Is(ci, {"call"}) /\ Direct(ci)
  BY DEF ControlOK, Of
<1>2. Home(ci) \in Block
  BY <1>1, ValuePlaced DEF Is, Outside, ControlOK
<1> QED
  BY <1>1, <1>2, ValueTyped DEF ScopeOf, PredReach, ControlOK

(* The argument that is looked at is a value.                                 *)
LEMMA PassedTyped ==
  ASSUME ControlOK, pc \in {"uses", "backward"}, arg < Len(prog.op[ci].args)
  PROVE  arg + 1 \in DOMAIN prog.op[ci].args /\ Arg(ci, arg + 1) \in Value
<1>1. ci \in Value /\ arg \in Nat
  BY ScopeTyped DEF ControlOK
<1>2. DOMAIN prog.op[ci].args = 1 .. Len(prog.op[ci].args) /\ Len(prog.op[ci].args) \in Nat
  BY <1>1, ValueTyped DEF ControlOK
<1>3. arg + 1 \in DOMAIN prog.op[ci].args
  BY <1>1, <1>2
<1> QED
  BY <1>1, <1>3, ValueTyped DEF ControlOK

(* A sequence of one.                                                         *)
LEMMA SingleStack ==
  ASSUME NEW T, NEW x \in T
  PROVE  <<x>> \in Seq(T)
  OBVIOUS

(* The invariant survives the start of a search for an argument, or its omission. *)
LEMMA UseOfArgumentStep ==
  ASSUME TypeInv, UseOfArgument
  PROVE  TypeInv'
<1> USE DEF TypeInv
<1>1. /\ pc = "uses" /\ arg < Len(prog.op[ci].args)
      /\ UNCHANGED <<prog, FuncPAResults, n, todo, ci, countVars, reports>>
  BY DEF UseOfArgument
<1>2. CountsOK' /\ Checked' = Checked /\ PointersOK'
  BY <1>1, SameCounts, SamePointers
<1>3. arg \in Nat /\ Len(prog.op[ci].args) \in Nat
  BY <1>1, ScopeTyped, ValueTyped DEF ControlOK
<1>4. CASE UseKey \in Checked
  <2>1. /\ pc' = "backward" /\ arg' = arg
        /\ stack' = <<StartFrame>> /\ VSet' = {} /\ isChecked' = FALSE
    BY <1>4 DEF UseOfArgument
  <2>2. UseKey' = UseKey
    BY <1>1, <2>1 DEF UseKey, Called
  <2>3. ControlOK'
    BY <1>1, <1>2, <1>4, <2>1, <2>2, SameControl DEF ControlOK
  <2>4. StartFrame \in AnyCall
    <3>1. 1 \in 1 .. MaxDepth + 1
      BY DEF MaxDepth
    <3> QED
      BY <1>1, <3>1, CurrentFunction, ScopeTyped, PassedTyped, FrameTyped DEF StartFrame
  <2>5. StackOK'
    <3>1. stack' \in Seq(AnyCall)
      BY <2>1, <2>4, SingleStack
    <3> QED
      BY <1>1, <2>1, <3>1, SameControl DEF StackOK
  <2> QED
    BY <1>1, <1>2, <2>3, <2>5
<1>5. CASE UseKey \notin Checked
  <2>1. arg' = arg + 1 /\ UNCHANGED <<pc, sliceVars>>
    BY <1>5 DEF UseOfArgument
  <2>2. arg' \in Nat /\ arg' <= Len(prog.op[ci].args)
    BY <1>1, <1>3, <2>1
  <2>3. ControlOK'
    BY <1>1, <2>1, <2>2, SameControl DEF ControlOK
  <2>4. StackOK'
    BY <1>1, <2>1, SameStack
  <2> QED
    BY <1>1, <1>2, <2>3, <2>4
<1> QED
  BY <1>4, <1>5

(* The invariant survives the end of the arguments of a call.                 *)
LEMMA EndUsesStep ==
  ASSUME TypeInv, EndUses
  PROVE  TypeInv'
<1> USE DEF TypeInv
<1>1. /\ pc = "uses" /\ pc' = "calls"
      /\ UNCHANGED <<prog, FuncPAResults, n, todo, ci, arg, countVars, sliceVars, reports>>
  BY DEF EndUses
<1>2. CountsOK' /\ Checked' = Checked /\ PointersOK' /\ StackOK'
  BY <1>1, SameCounts, SamePointers, SameStack
<1>3. ControlOK'
  BY <1>1, SameControl DEF ControlOK
<1> QED
  BY <1>1, <1>2, <1>3

(* A call of isCheckedBackward changes its own state only.                              *)
LEMMA DescendStep ==
  ASSUME TypeInv, pc = "backward", stack # <<>>, NEW frames \in Seq(AnyCall), Descend(frames)
  PROVE  TypeInv'
<1> USE DEF TypeInv
<1>1. /\ VSet' = VSet \cup {Top.value} /\ stack' = frames \o Tail(stack)
      /\ UNCHANGED <<prog, FuncPAResults, pc, n, todo, ci, arg, countVars, isChecked, reports>>
  BY DEF Descend, control
<1>2. CountsOK' /\ Checked' = Checked /\ PointersOK'
  BY <1>1, SameCounts, SamePointers
<1>3. ControlOK'
  <2>1. UseKey' = UseKey
    BY <1>1 DEF UseKey, Called
  <2> QED
    BY <1>1, <1>2, <2>1, SameControl DEF ControlOK
<1>4. Top \in AnyCall /\ Tail(stack) \in Seq(AnyCall)
  BY HeadTailProperties DEF Top, StackOK
<1>5. stack' \in Seq(AnyCall)
  BY <1>1, <1>4, ConcatProperties
<1>6. StackOK'
  <2>1. Top.value \in Value
    BY <1>4 DEF AnyCall
  <2> QED
    BY <1>1, <1>5, <2>1, SameControl DEF StackOK
<1> QED
  BY <1>1, <1>2, <1>3, <1>6

(* The next call of the search, and what remains.                             *)
LEMMA TopTyped ==
  ASSUME StackOK, Slicing, ~Skips
  PROVE  Top \in AnyCall /\ Top.depth <= MaxDepth
<1>1. Top \in AnyCall
  BY HeadTailProperties DEF Top, StackOK, Slicing
<1>2. ~(Top.depth > MaxDepth)
  BY DEF Skips
<1>3. Top.depth \in Int /\ MaxDepth \in Int
  BY <1>1 DEF AnyCall, MaxDepth
<1> QED
  BY <1>1, <1>2, <1>3

(* The invariant survives a step of the search that finds nothing.            *)
LEMMA SlicingStep ==
  ASSUME TypeInv, SkipValue \/ VisitArgument \/ VisitValue
  PROVE  TypeInv'
<1> USE DEF TypeInv
<1>1. pc = "backward" /\ stack # <<>>
  BY DEF SkipValue, VisitArgument, VisitValue, Slicing
<1>2. CASE SkipValue
  BY <1>1, <1>2, EmptySeq, DescendStep DEF SkipValue
<1>3. CASE VisitArgument
  <2>1. PICK frames \in Orders(CallerFrames(Top)) : Descend(frames)
    BY <1>3 DEF VisitArgument
  <2>2. Top \in AnyCall /\ Top.depth <= MaxDepth
    BY <1>3, TopTyped DEF VisitArgument
  <2>3. frames \in Seq(AnyCall)
    BY <2>2, CallerFramesTyped, OrdersTyped DEF ControlOK
  <2> QED
    BY <1>1, <2>1, <2>3, DescendStep
<1>4. CASE VisitValue
  <2>1. PICK values \in Origins(Top) : Descend([k \in DOMAIN values |-> [Top EXCEPT !.value = values[k]]])
    BY <1>4 DEF VisitValue
  <2>2. Top \in AnyCall
    BY <1>4, TopTyped DEF VisitValue
  <2>3. values \in Seq(Value)
    BY <2>2, OriginsTyped DEF ControlOK
  <2> DEFINE frames == [k \in DOMAIN values |-> [Top EXCEPT !.value = values[k]]]
  <2>4. frames \in Seq(AnyCall)
    <3>1. DOMAIN values = 1 .. Len(values) /\ Len(values) \in Nat /\ \A k \in DOMAIN values : values[k] \in Value
      BY <2>3, LenProperties, ElementOfSeq
    <3>2. \A v \in Value : [Top EXCEPT !.value = v] \in AnyCall
      BY <2>2 DEF AnyCall
    <3>3. \A k \in DOMAIN values : frames[k] \in AnyCall
      BY <3>1, <3>2
    <3>4. DOMAIN frames = 1 .. Len(values) /\ frames = [k \in 1 .. Len(values) |-> frames[k]]
      BY <3>1
    <3> HIDE DEF frames
    <3>5. frames \in [1 .. Len(values) -> AnyCall]
      BY <3>1, <3>3, <3>4
    <3> QED
      BY <3>1, <3>5
  <2>5. Descend(frames)
    BY <2>1
  <2> HIDE DEF frames
  <2> QED
    BY <1>1, <2>4, <2>5, DescendStep
<1> QED
  BY <1>2, <1>3, <1>4

(* The invariant survives a step of the search that finds a test.             *)
LEMMA FindTestStep ==
  ASSUME TypeInv, FindTest
  PROVE  TypeInv'
<1> USE DEF TypeInv
<1>1. /\ pc = "backward" /\ isChecked' = TRUE
      /\ UNCHANGED <<prog, FuncPAResults, pc, n, todo, ci, arg, countVars, stack, VSet, reports>>
  BY DEF FindTest, Slicing, control
<1>2. CountsOK' /\ Checked' = Checked /\ PointersOK'
  BY <1>1, SameCounts, SamePointers
<1>3. ControlOK'
  <2>1. UseKey' = UseKey
    BY <1>1 DEF UseKey, Called
  <2> QED
    BY <1>1, <1>2, <2>1, SameControl DEF ControlOK
<1>4. StackOK'
  BY <1>1, SameControl DEF StackOK
<1> QED
  BY <1>1, <1>2, <1>3, <1>4

(* The invariant survives the count of a use.                                 *)
LEMMA CountUseUnchecksStep ==
  ASSUME TypeInv, CountUseUnchecks
  PROVE  TypeInv'
<1> USE DEF TypeInv
<1> DEFINE one == SetToBag({UseKey})
           U == IF isChecked THEN EmptyBag ELSE one
<1>1. /\ pc = "backward" /\ TotalCount' = TotalCount (+) one
      /\ pc' = "uses" /\ arg' = arg + 1 /\ stack' = <<>> /\ VSet' = {} /\ isChecked' = FALSE
      /\ UNCHANGED <<prog, FuncPAResults, n, todo, ci, CheckCount, ChecksMap, reports>>
  BY DEF CountUseUnchecks
<1>2. /\ IsABag(one) /\ DOMAIN one = {UseKey} /\ \A k : Copies(k, one) = IF k = UseKey THEN 1 ELSE 0
  BY SingleBag
<1>3. UseKey \in Checked /\ arg < Len(prog.op[ci].args) /\ arg \in Nat /\ Len(prog.op[ci].args) \in Nat
  BY <1>1, ScopeTyped, ValueTyped DEF ControlOK
<1>4. IsABag(EmptyBag) /\ DOMAIN EmptyBag = {} /\ \A k : Copies(k, EmptyBag) = 0
  BY EmptyBagFacts
<1>5. IsABag(UncheckCount)
  BY DEF CountsOK
<1> HIDE DEF one
<1>6. UncheckCount' = UncheckCount (+) U
  <2>1. CASE isChecked
    <3>1. UncheckCount' = UncheckCount
      BY <2>1 DEF CountUseUnchecks
    <3>2. UncheckCount (+) EmptyBag = UncheckCount
      BY <1>5, NothingMore
    <3> QED
      BY <2>1, <3>1, <3>2
  <2>2. CASE ~isChecked
    BY <2>2 DEF CountUseUnchecks, one
  <2> QED
    BY <2>1, <2>2
<1>7. {e[1] : e \in UnchecksMap'} = {e[1] : e \in UnchecksMap} \cup DOMAIN U
  <2>1. CASE isChecked
    <3>1. UnchecksMap' = UnchecksMap
      BY <2>1 DEF CountUseUnchecks
    <3> QED
      BY <1>4, <2>1, <3>1
  <2>2. CASE ~isChecked
    <3> DEFINE new == <<UseKey, Arg(ci, arg + 1)>>
    <3>1. UnchecksMap' = UnchecksMap \cup {new}
      BY <2>2 DEF CountUseUnchecks
    <3>2. new[1] = UseKey
      OBVIOUS
    <3> HIDE DEF new
    <3>3. {e[1] : e \in UnchecksMap'} = {e[1] : e \in UnchecksMap} \cup {UseKey}
      BY <3>1, <3>2
    <3> QED
      BY <1>2, <2>2, <3>3
  <2> QED
    BY <2>1, <2>2
<1>8. IsABag(U) /\ \A k : Copies(k, U) <= Copies(k, one)
  BY <1>2, <1>4
<1> HIDE DEF U
<1>9. CountsOK'
  BY <1>1, <1>2, <1>3, <1>6, <1>7, <1>8, MoreCounted
<1>10. Checked' = Checked /\ PointersOK'
  BY <1>1, SamePointers DEF Checked
<1>11. arg' \in Nat /\ arg' <= Len(prog.op[ci].args)
  BY <1>1, <1>3
<1>12. ControlOK'
  BY <1>1, <1>11, SameControl DEF ControlOK
<1>13. StackOK'
  BY <1>1, EmptyStack
<1> QED
  BY <1>1, <1>9, <1>10, <1>12, <1>13

(* The invariant survives the report: only what stage 1 counted is reported.  *)
LEMMA ProcessResultsStep ==
  ASSUME TypeInv, ProcessResults
  PROVE  TypeInv'
<1> USE DEF TypeInv
<1>1. /\ pc = "report" /\ pc' = "done" /\ reports' \subseteq Checked
      /\ UNCHANGED <<prog, FuncPAResults, n, todo, ci, arg, countVars, sliceVars>>
  BY DEF ProcessResults
<1>2. CountsOK' /\ Checked' = Checked /\ PointersOK' /\ StackOK'
  BY <1>1, SameCounts, SamePointers, SameStack
<1>3. ControlOK'
  BY <1>1, SameControl DEF ControlOK
<1> QED
  BY <1>1, <1>2, <1>3

(* The invariant survives a step that changes nothing.                        *)
LEMMA UnchangedStep ==
  ASSUME TypeInv, UNCHANGED vars
  PROVE  TypeInv'
<1> USE DEF TypeInv
<1>1. UNCHANGED <<prog, FuncPAResults, pc, n, todo, ci, arg, countVars, sliceVars, reports>>
  BY DEF vars, control
<1>2. CountsOK' /\ Checked' = Checked /\ PointersOK' /\ StackOK'
  BY <1>1, SameCounts, SamePointers, SameStack
<1>3. UseKey' = UseKey
  BY <1>1 DEF UseKey, Called
<1>4. ControlOK'
  BY <1>1, <1>2, <1>3, SameControl DEF ControlOK
<1> QED
  BY <1>1, <1>2, <1>4

(* The invariant is inductive.                                                *)
LEMMA TypeStep ==
  ASSUME TypeInv, [Next]_vars
  PROVE  TypeInv'
<1>1. CASE Next
  BY <1>1, FunctionAliasesStep, EndFunctionStep, CountSrcUseChecksStep, CountSrcUnchecksStep, UseOfArgumentStep,
     EndUsesStep, SlicingStep, FindTestStep, CountUseUnchecksStep, ProcessResultsStep, UnchangedStep DEF Next, Done
<1>2. CASE UNCHANGED vars
  BY <1>2, UnchangedStep
<1> QED
  BY <1>1, <1>2

(* TypeOK for every program: no more is unchecked than was looked at, under keys that stage   *)
(* 1 counted; every key counted has a model; what is unchecked has an entry in the map and    *)
(* the other way round; the search stays within its depth and within the values; and what   *)
(* is reported was checked somewhere.                                              *)
THEOREM TypeCorrect == Spec => []TypeOK
<1>1. Spec => []TypeInv
  BY InitTypeInv, TypeStep, PTL DEF Spec
<1> QED
  BY <1>1, TypeInvType, PTL

-----------------------------------------------------------------------------
(* Once the search has left the argument itself, the argument is a parameter, or nothing    *)
(* before the call tests it.                                                     *)
StartInv ==
  pc = "backward" /\ ~isChecked =>
    \/ stack = <<StartFrame>> /\ VSet = {}
    \/ Is(Arg(ci, arg + 1), {"argument"})
    \/ ~FindsTest(StartFrame)

(* What StartInv speaks of stays while the search goes on.                    *)
LEMMA SameStart ==
  ASSUME UNCHANGED <<prog, FuncPAResults, pc, n, ci, arg, ChecksMap>>
  PROVE  /\ StartFrame' = StartFrame /\ (FindsTest(StartFrame)' <=> FindsTest(StartFrame))
         /\ (Is(Arg(ci, arg + 1), {"argument"})' <=> Is(Arg(ci, arg + 1), {"argument"}))
<1>1. StartFrame' = StartFrame
  BY DEF StartFrame, Frame, F, Arg, ScopeOf, PredReach, SuccReach, Reach, Block, Home
<1>2. FindsTest(StartFrame)' <=> FindsTest(StartFrame)
  BY <1>1 DEF FindsTest, Tests, Users, Value, Home, Is, Arg, InModeledCheckSet, UseKey, Called
<1>3. Is(Arg(ci, arg + 1), {"argument"})' <=> Is(Arg(ci, arg + 1), {"argument"})
  BY DEF Is, Arg
<1> QED
  BY <1>1, <1>2, <1>3

(* StartInv is inductive, given the invariant of types.                       *)
LEMMA StartStep ==
  ASSUME TypeInv, StartInv, [Next]_vars
  PROVE  StartInv'
<1>1. CASE UseOfArgument
  <2>1. CASE pc' = "backward"
    <3>1. /\ UNCHANGED <<prog, n, ci, arg>>
          /\ stack' = <<StartFrame>> /\ VSet' = {}
      BY <1>1, <2>1 DEF UseOfArgument
    <3>2. StartFrame' = StartFrame
      BY <3>1 DEF StartFrame, Frame, F, Arg, ScopeOf, PredReach, SuccReach, Reach, Block, Home
    <3> QED
      BY <3>1, <3>2 DEF StartInv
  <2> QED
    BY <2>1 DEF StartInv
<1>2. CASE SkipValue \/ VisitArgument \/ VisitValue
  <2>1. Slicing /\ UNCHANGED <<prog, FuncPAResults, pc, n, ci, arg, ChecksMap, isChecked>>
    BY <1>2 DEF SkipValue, VisitArgument, VisitValue, Descend, control, countVars
  <2>2. SUFFICES ASSUME stack = <<StartFrame>>, VSet = {}
                 PROVE  Is(Arg(ci, arg + 1), {"argument"}) \/ ~FindsTest(StartFrame)
    BY <2>1, SameStart DEF StartInv, Slicing
  <2>3. Top = StartFrame /\ Top.depth = 1 /\ Top.value = Arg(ci, arg + 1)
    BY <2>2 DEF Top, StartFrame, Frame
  <2>4. ~Skips
    BY <2>2, <2>3 DEF Skips, MaxDepth
  <2>5. VisitArgument \/ VisitValue
    BY <1>2, <2>4 DEF SkipValue
  <2> QED
    BY <2>3, <2>5 DEF VisitArgument, VisitValue
<1>3. CASE FindTest
  BY <1>3 DEF FindTest, StartInv
<1>4. CASE UNCHANGED vars
  <2>1. UNCHANGED <<prog, FuncPAResults, pc, n, ci, arg, ChecksMap, isChecked, stack, VSet>>
    BY <1>4 DEF vars, control, countVars, sliceVars
  <2> QED
    BY <2>1, SameStart DEF StartInv
<1>5. CASE \/ FunctionAliases \/ EndFunction \/ CountSrcUseChecks \/ CountSrcUnchecks \/ EndUses
           \/ CountUseUnchecks \/ ProcessResults
  <2>1. pc' # "backward"
    BY <1>5 DEF FunctionAliases, EndFunction, CountSrcUseChecks, CountSrcUnchecks, EndUses, CountUseUnchecks,
       ProcessResults, NextFunction, Following
  <2> QED
    BY <2>1 DEF StartInv
<1> QED
  BY <1>1, <1>2, <1>3, <1>4, <1>5 DEF Next, Done

(* A comparison of the argument before the call is a test of it, as its key was counted.    *)
LEMMA StartSees ==
  ASSUME TypeInv, StartInv
  PROVE  SeesCheckBefore
<1> SUFFICES ASSUME pc = "backward", stack = <<>>, ~isChecked, ComparedBefore(Arg(ci, arg + 1))
             PROVE  Is(Arg(ci, arg + 1), {"argument"})
  BY DEF SeesCheckBefore
<1>1. FindsTest(StartFrame)
  <2>1. PICK sc \in Comparisons(F) : Arg(ci, arg + 1) \in Range(prog.op[sc].args) /\ Home(sc) \in ScopeOf(ci)
    BY DEF ComparedBefore, ScopeOf
  <2>2. sc \in Users(Arg(ci, arg + 1)) /\ Is(sc, {"cmp"})
    BY <2>1, CurrentFunction, ComparisonsTyped DEF Users, TypeInv, ControlOK
  <2>3. InModeledCheckSet(UseKey)
    <3>1. UseKey \in {e[1] : e \in ChecksMap}
      BY DEF TypeInv, ControlOK, CountsOK
    <3> QED
      BY <3>1 DEF InModeledCheckSet
  <2>4. StartFrame.fun = F /\ StartFrame.value = Arg(ci, arg + 1) /\ StartFrame.scope = ScopeOf(ci)
    BY DEF StartFrame, Frame
  <2>5. sc \in Tests(StartFrame.fun, StartFrame.scope, UseKey, StartFrame.value, {})
    BY <2>1, <2>2, <2>3, <2>4 DEF Tests
  <2> QED
    BY <2>5 DEF FindsTest
<1>2. stack # <<StartFrame>>
  OBVIOUS
<1> QED
  BY <1>1, <1>2 DEF StartInv

(* The search for an argument that ends without a test has an argument that is a parameter,   *)
(* or that no counted check of the function compares in an earlier block.               *)
THEOREM SeesCheckBeforeHolds == Spec => []SeesCheckBefore
<1>1. Init => TypeInv /\ StartInv
  BY InitTypeInv DEF Init, StartInv
<1>2. TypeInv /\ StartInv /\ [Next]_vars => (TypeInv /\ StartInv)'
  BY TypeStep, StartStep
<1>3. Spec => [](TypeInv /\ StartInv)
  BY <1>1, <1>2, PTL DEF Spec
<1> QED
  BY <1>3, StartSees, PTL

-----------------------------------------------------------------------------
(* A search from a root finds the comparison that a search back finds the root for: when    *)
(* the blocks it keeps to hold what uses the root, the aliases it asks for are no fewer    *)
(* than those of the search back, and it gets to the loads through an alias of the root.   *)
Forward(f, start, scope) == Closure(start, Len(prog.op), [w \in Value |-> ForwardSteps(f, scope, w)])
Seen(f, start, scope, root, x) == x \in Forward(f, start, scope) /\ (x = root \/ Home(x) \in scope)

ScopeOK(scope, root, g) ==
  /\ scope \subseteq Block /\ \A b \in scope : SuccReach(b) \subseteq scope /\ prog.owner[b] = g
  /\ \A u \in Users(root) : Home(u) \in scope
AliasesKept(f, g) == \A p, q \in Value : q \in Aliases(p, g) => p \in Aliases(q, f)

(* The search for a test is closed under its steps.                           *)
LEMMA ForwardClosed ==
  ASSUME prog \in Programs, NEW f, NEW scope, NEW start \in SUBSET Value
  PROVE  /\ start \subseteq Forward(f, start, scope) /\ Forward(f, start, scope) \subseteq Value
         /\ \A x \in Forward(f, start, scope) : ForwardSteps(f, scope, x) \subseteq Forward(f, start, scope)
<1> DEFINE next == [w \in Value |-> ForwardSteps(f, scope, w)]
<1>1. Forward(f, start, scope) = Closure(start, Len(prog.op), next)
  BY DEF Forward
<1>2. \A x \in Value : next[x] = ForwardSteps(f, scope, x) /\ ForwardSteps(f, scope, x) \subseteq Value
  BY DEF ForwardSteps, Users
<1>3. \A x \in Value : next[x] \subseteq Value
  BY <1>2
<1>4. IsFiniteSet(Value) /\ Cardinality(Value) <= Len(prog.op) /\ Len(prog.op) \in Nat
  BY ProgramFinite
<1> HIDE DEF next
<1>5. /\ start \subseteq Closure(start, Len(prog.op), next)
      /\ Closure(start, Len(prog.op), next) \subseteq Value
  BY <1>3, <1>4, ClosureLeast
<1>6. \A x \in Closure(start, Len(prog.op), next) : next[x] \subseteq Closure(start, Len(prog.op), next)
  BY <1>3, <1>4, ClosureClosed
<1> QED
  BY <1>1, <1>2, <1>5, <1>6

(* What a seen value is used by lies in the same blocks.                               *)
LEMMA SeenUser ==
  ASSUME prog \in Programs, NEW f, NEW scope, NEW start \in SUBSET Value, NEW root \in start, NEW g,
         ScopeOK(scope, root, g), NEW y, Seen(f, start, scope, root, y), NEW u \in Users(y)
  PROVE  /\ u \in Value /\ Home(u) \in scope /\ FunOf(u) = g /\ g \in Fun
         /\ Is(u, {"gep", "phi", "cast", "alloca", "load", "binary"}) => Seen(f, start, scope, root, u)
         /\ \A l \in Value : Is(l, {"load"}) /\ Is(u, {"store"}) /\ Arg(u, 1) = y /\ Arg(l, 1) \in Aliases(Arg(u, 2), f)
              => l \in Forward(f, start, scope)
<1>1. y \in Value /\ y \in Forward(f, start, scope)
  BY ForwardClosed DEF Seen
<1>2. u \in Value /\ FunOf(u) \in Fun
  BY <1>1, UserFacts
<1>3. Home(u) \in scope
  <2>1. CASE y = root
    BY <2>1 DEF ScopeOK
  <2>2. CASE Home(y) \in scope
    <3>1. Home(y) \in Block /\ SuccReach(Home(y)) \subseteq scope
      BY <2>2 DEF ScopeOK
    <3>2. ~Is(y, Outside)
      BY <1>1, <3>1, ProgramFinite, ValuePlaced DEF Instruction
    <3>3. Home(u) \in SuccReach(Home(y))
      BY <1>1, <3>2, UserFacts
    <3> QED
      BY <3>1, <3>3
  <2> QED
    BY <2>1, <2>2 DEF Seen
<1>4. FunOf(u) = g
  BY <1>3 DEF ScopeOK, FunOf
<1>5. ForwardSteps(f, scope, y) \subseteq Forward(f, start, scope)
  BY <1>1, ForwardClosed
<1>6. ASSUME Is(u, {"gep", "phi", "cast", "alloca", "load", "binary"})
      PROVE  Seen(f, start, scope, root, u)
  <2>1. u \in ForwardSteps(f, scope, y)
    BY <1>3, <1>6 DEF ForwardSteps
  <2> QED
    BY <1>3, <1>5, <2>1 DEF Seen
<1>7. ASSUME NEW l \in Value, Is(l, {"load"}), Is(u, {"store"}), Arg(u, 1) = y, Arg(l, 1) \in Aliases(Arg(u, 2), f)
      PROVE  l \in Forward(f, start, scope)
  <2>1. l \in ForwardSteps(f, scope, y)
    BY <1>3, <1>7 DEF ForwardSteps
  <2> QED
    BY <1>5, <2>1
<1> QED
  BY <1>2, <1>3, <1>4, <1>6, <1>7

(* What a seen value feeds is seen.                                                 *)
LEMMA SeenFeeds ==
  ASSUME prog \in Programs, PointersOK, NoSelect, NEW f \in Fun, NEW scope, NEW start \in SUBSET Value, NEW root \in start,
         NEW g, ScopeOK(scope, root, g), AliasesKept(f, g),
         NEW x \in InOf(g), NEW y \in Feeds(x), Seen(f, start, scope, root, y)
  PROVE  Seen(f, start, scope, root, x)
<1>1. x \in Value
  BY DEF InOf
<1>2. ~Is(x, {"select"})
  BY <1>1 DEF NoSelect
<1>3. Is(x, FeedKind \cup {"load"})
  BY FeedsMember DEF Is
<1>4. Home(x) \in Block /\ FunOf(x) = g /\ g \in Fun
  BY <1>3, InstructionOfFacts DEF Is, FeedKind, Outside
<1>5. CASE Is(x, FeedKind) /\ y \in Range(prog.op[x].args)
  <2>1. x \in Users(y) /\ Is(x, {"gep", "phi", "cast", "alloca", "load", "binary"})
    BY <1>1, <1>2, <1>5 DEF Users, Is, FeedKind
  <2> QED
    BY <2>1, SeenUser
<1>6. CASE Is(x, {"load"}) /\ y = Arg(x, 1)
  <2>1. x \in Users(y) /\ Is(x, {"gep", "phi", "cast", "alloca", "load", "binary"})
    BY <1>1, <1>6, ValueArity, InOfFacts DEF Is
  <2> QED
    BY <2>1, SeenUser
<1>7. ASSUME Is(x, {"load"}), NEW u \in Before(x), Is(u, {"store"}), Arg(u, 2) \in LoadAliases(x), y = Arg(u, 1)
      PROVE  Seen(f, start, scope, root, x)
  <2>1. u \in Value /\ Home(x) \in SuccReach(Home(u))
    BY <1>1, <1>4, BeforeFacts
  <2>2. u \in Users(y) /\ Arg(u, 2) \in Value /\ Arg(x, 1) \in Value
    <3>1. 1 \in DOMAIN prog.op[u].args /\ 2 \in DOMAIN prog.op[u].args
      BY <1>7, <2>1, ValueArity DEF Is
    <3>2. 1 \in DOMAIN prog.op[x].args
      BY <1>1, <1>7, ValueArity DEF Is
    <3> QED
      BY <1>1, <1>7, <2>1, <3>1, <3>2, InOfFacts, ValueTyped
  <2>3. Arg(x, 1) \in Aliases(Arg(u, 2), f)
    <3>1. Arg(u, 2) \in Aliases(Arg(x, 1), g)
      BY <1>4, <1>7 DEF LoadAliases
    <3> QED
      BY <2>2, <3>1 DEF AliasesKept
  <2>4. x \in Forward(f, start, scope) /\ Home(u) \in scope
    BY <1>1, <1>7, <2>2, <2>3, SeenUser
  <2>5. Home(x) \in scope
    BY <2>1, <2>4 DEF ScopeOK
  <2> QED
    BY <2>4, <2>5 DEF Seen
<1> QED
  BY <1>5, <1>6, <1>7, FeedsMember

(* A comparison that has among its targets the root of a search in its scope is found by the search. *)
LEMMA ForwardFinds ==
  ASSUME prog \in Programs, PointersOK, NoSelect, NEW f \in Fun, NEW scope, NEW start \in SUBSET Value, NEW root \in start,
         NEW g, ScopeOK(scope, root, g), AliasesKept(f, g),
         \A x \in InOf(g) : Is(x, {"load"}) /\ root \in LoadAliases(x) => Seen(f, start, scope, root, x),
         NEW sc \in Value, Is(sc, {"cmp"}), FunOf(sc) = g, root \in Targets(sc), NEW key, InModeledCheckSet(key)
  PROVE  IsCheckedForward(f, key, start, scope)
<1>1. PICK i \in {1, 2} : root \in Sources(Arg(sc, i))
  BY DEF Targets
<1> DEFINE v == Arg(sc, i)
           next == [w \in Value |-> Feeds(w)]
           T == {x \in InOf(g) : Seen(f, start, scope, root, x) => Seen(f, start, scope, root, v)}
<1>2. v \in InOf(g) /\ sc \in Users(v)
  BY <1>1, ValueArity, InOfFacts DEF Is
<1>3. PICK x \in Closure({v}, Len(prog.op), next) : root \in SourcesAt(x)
  BY <1>1 DEF Sources
<1>4. Closure({v}, Len(prog.op), next) \subseteq T
  <2>1. \A z \in T : next[z] \subseteq T
    <3> TAKE z \in T
    <3>1. z \in InOf(g) /\ next[z] = Feeds(z)
      BY DEF InOf
    <3>2. ASSUME NEW y \in Feeds(z)
          PROVE  y \in T
      <4>1. y \in InOf(g)
        BY <3>1, FeedsInside
      <4>2. Seen(f, start, scope, root, y) => Seen(f, start, scope, root, z)
        BY <3>1, SeenFeeds
      <4> QED
        BY <4>1, <4>2
    <3> QED
      BY <3>1, <3>2
  <2>2. {v} \subseteq T /\ Len(prog.op) \in Nat
    BY <1>2, ProgramFinite
  <2> HIDE DEF T, next
  <2> QED
    BY <2>1, <2>2, ClosureLeast
<1>5. Seen(f, start, scope, root, x)
  <2>1. CASE x = root
    BY <2>1, ForwardClosed DEF Seen
  <2>2. CASE Is(x, {"load"}) /\ root \in LoadAliases(x)
    BY <1>3, <1>4, <2>2
  <2> QED
    BY <1>3, <2>1, <2>2, SourcesAtMember
<1>6. Seen(f, start, scope, root, v)
  BY <1>3, <1>4, <1>5
<1> HIDE DEF v
<1>7. Home(sc) \in scope
  BY <1>2, <1>6, SeenUser
<1>8. sc \in Tests(f, scope, key, v, {"return"})
  BY <1>2, <1>7 DEF Tests
<1>9. v \in Forward(f, start, scope)
  BY <1>6 DEF Seen
<1> QED
  BY <1>8, <1>9 DEF IsCheckedForward, Forward

-----------------------------------------------------------------------------
(* The aliases of a function are not known yet, or those of its pointers; in either case   *)
(* in both directions.                                                          *)
AliasInv == \A f \in Fun : FuncPAResults[f] \in {{}, AliasPointers(f)}

(* The aliases of a function are symmetric, since the alias results are.      *)
LEMMA AliasesBoth ==
  ASSUME prog \in Programs, PointersOK, AliasInv, NEW f \in Fun
  PROVE  AliasesKept(f, f)
<1> SUFFICES ASSUME NEW p \in Value, NEW q \in Value, q \in Aliases(p, f)
             PROVE  p \in Aliases(q, f)
  BY DEF AliasesKept
<1>1. q = p \/ <<p, q>> \in FuncPAResults[f]
  BY AliasesFacts
<1>2. ASSUME <<p, q>> \in FuncPAResults[f]
      PROVE  <<q, p>> \in FuncPAResults[f]
  <2>1. <<p, q>> \in AliasPointers(f) /\ FuncPAResults[f] = AliasPointers(f)
    BY <1>2 DEF AliasInv
  <2>2. p \in Addresses(f) /\ q \in Addresses(f) /\ p # q /\ Alias(p, q) /\ ~(Cardinality(Addresses(f)) > MaxPointers)
    BY <2>1 DEF AliasPointers
  <2>3. {p, q} = {q, p}
    OBVIOUS
  <2>4. Alias(q, p)
    BY <2>2, <2>3 DEF Alias
  <2>5. <<q, p>> \in AliasPointers(f)
    BY <2>2, <2>4 DEF AliasPointers
  <2> QED
    BY <2>1, <2>5
<1> QED
  BY <1>1, <1>2, AliasesFacts

(* Two aliases that differ were found by the alias analysis.                  *)
LEMMA AliasOf ==
  ASSUME prog \in Programs, PointersOK, AliasInv, NEW f \in Fun, NEW p \in Value, NEW q \in Aliases(p, f), q # p
  PROVE  Alias(p, q)
<1>1. <<p, q>> \in AliasPointers(f)
  BY AliasesFacts DEF AliasInv
<1> QED
  BY <1>1 DEF AliasPointers

(* The blocks behind a call are a scope for its result.                                *)
LEMMA ResultScope ==
  ASSUME prog \in Programs, NEW c \in Value, Is(c, {"call"})
  PROVE  ScopeOK(SuccReach(Home(c)), c, FunOf(c)) /\ Home(c) \in Block /\ FunOf(c) \in Fun /\ ~Is(c, Outside)
<1>1. ~Is(c, Outside)
  BY DEF Is, Outside
<1>2. Home(c) \in Block /\ FunOf(c) \in Fun
  BY <1>1, ValuePlaced
<1>3. \A u \in Users(c) : Home(u) \in SuccReach(Home(c))
  BY <1>1, UserFacts
<1> QED
  BY <1>1, <1>2, <1>3, ReachFacts DEF ScopeOK, FunOf

(* A load that may read a result of its own, which is no pointer but this one's, is seen.   *)
LEMMA ResultLoads ==
  ASSUME prog \in Programs, PointersOK, AliasInv, NEW c \in Value, Is(c, {"call"}), OwnResult(c),
         NEW x \in InOf(FunOf(c)), Is(x, {"load"}), c \in LoadAliases(x)
  PROVE  Seen(FunOf(c), {c}, SuccReach(Home(c)), c, x)
<1> DEFINE f == FunOf(c)
           scope == SuccReach(Home(c))
           p == Arg(x, 1)
           next == [w \in Value |-> Upward(w)]
           up == Closure({p}, Len(prog.op), next)
           T == {y \in Value : Seen(f, {c}, scope, c, y) => Seen(f, {c}, scope, c, p)}
<1>1. ScopeOK(scope, c, f) /\ f \in Fun /\ {c} \in SUBSET Value /\ c \in {c}
  BY ResultScope
<1>2. x \in Value /\ FunOf(x) = f /\ p \in Value /\ x \in Users(p)
  <2>1. x \in Value /\ FunOf(x) = f
    BY InstructionOfFacts DEF Is, Outside, InOf
  <2> QED
    BY <2>1, ValueArity, ValueTyped, InOfFacts DEF Is
<1>3. Seen(f, {c}, scope, c, c)
  BY <1>1, ForwardClosed DEF Seen
<1>4. \A y \in Value : \A z \in Upward(y) :
        y \in Users(z) /\ z \in Value /\ Is(y, {"gep", "phi", "cast", "alloca", "load", "binary"})
  BY ValueArity, ValueTyped, InOfFacts DEF Upward, Is
<1>5. up \subseteq T
  <2>1. \A y \in T : next[y] \subseteq T
    <3> TAKE y \in T
    <3>1. next[y] = Upward(y) /\ y \in Value
      OBVIOUS
    <3>2. ASSUME NEW z \in Upward(y)
          PROVE  z \in T
      <4>1. Seen(f, {c}, scope, c, z) => Seen(f, {c}, scope, c, y)
        BY <1>1, <1>4, <3>1, SeenUser
      <4> QED
        BY <1>4, <3>1, <4>1
    <3> QED
      BY <3>1, <3>2
  <2>2. {p} \subseteq T /\ Len(prog.op) \in Nat
    BY <1>2, ProgramFinite
  <2> HIDE DEF T, next
  <2> QED
    BY <2>1, <2>2, ClosureLeast
<1>6. c \in up \/ p = c
  <2>1. CASE p # c
    <3>1. Alias(p, c)
      BY <1>2, <2>1, AliasOf, ResultScope DEF LoadAliases
    <3>2. SourcePointer(c) = {c}
      <4>1. Upward(c) = {}
        BY DEF Upward, Is
      <4>2. next[c] = {}
        BY <4>1
      <4>3. /\ {c} \subseteq Closure({c}, Len(prog.op), next)
            /\ Closure({c}, Len(prog.op), next) \subseteq {c}
        <5>1. Len(prog.op) \in Nat /\ {c} \subseteq {c} /\ \A y \in {c} : next[y] \subseteq {c}
          BY <4>2, ProgramFinite
        <5> QED
          BY ONLY <5>1, <4>2, ClosureStill
      <4> QED
        BY <4>1, <4>3 DEF SourcePointer
    <3>3. SourcePointer(p) = {c}
      BY <1>2, <3>1, <3>2 DEF Alias, OwnResult
    <3> QED
      BY <3>3 DEF SourcePointer
  <2> QED
    BY <2>1
<1>7. Seen(f, {c}, scope, c, p)
  <2>1. CASE c \in up
    BY <1>3, <1>5, <2>1
  <2> QED
    BY <1>3, <1>6, <2>1
<1>8. Is(x, {"gep", "phi", "cast", "alloca", "load", "binary"})
  BY DEF Is
<1> HIDE DEF p, scope, f
<1>9. Seen(f, {c}, scope, c, x)
  BY <1>1, <1>2, <1>7, <1>8, SeenUser
<1> QED
  BY <1>9 DEF f, scope

(* A result of its own that a counted check tests is found checked.                     *)
LEMMA ResultFound ==
  ASSUME prog \in Programs, PointersOK, AliasInv, NoSelect, NEW c \in Value, Is(c, {"call"}), OwnResult(c),
         ChecksOf(c) # {}, NEW key, InModeledCheckSet(key)
  PROVE  IsCheckedForward(FunOf(c), key, {c}, SuccReach(Home(c)))
<1>1. PICK h \in Analysed : \E sc \in Comparisons(h) : c \in Targets(sc)
  BY DEF ChecksOf
<1>2. PICK sc \in Comparisons(h) : c \in Targets(sc)
  BY <1>1
<1>3. h \in Fun
  <2>1. prog.order \in Seq(Fun)
    BY ProgramTyped
  <2>2. Range(prog.order) \subseteq Fun
    BY <2>1, LenProperties, ElementOfSeq DEF Range
  <2> QED
    BY <2>2 DEF Analysed
<1>4. sc \in Value /\ Is(sc, {"cmp"})
  BY <1>3, ComparisonsTyped
<1>5. c \in InOf(FunOf(sc))
  BY <1>2, <1>4, TargetsFacts
<1>6. ScopeOK(SuccReach(Home(c)), c, FunOf(c)) /\ FunOf(c) \in Fun /\ ~Is(c, Outside)
  BY ResultScope
<1>7. FunOf(sc) = FunOf(c)
  BY <1>5, <1>6, InstructionOfFacts
<1>8. AliasesKept(FunOf(c), FunOf(c))
  BY <1>6, AliasesBoth
<1>9. \A x \in InOf(FunOf(c)) : Is(x, {"load"}) /\ c \in LoadAliases(x) => Seen(FunOf(c), {c}, SuccReach(Home(c)), c, x)
  BY ResultLoads
<1>10. {c} \in SUBSET Value /\ c \in {c}
  OBVIOUS
<1> QED
  BY <1>2, <1>4, <1>6, <1>7, <1>8, <1>9, <1>10, ForwardFinds

(* A parameter of a function without aliases that a counted check tests is found checked,   *)
(* whatever aliases the search asks for.                                            *)
LEMMA ParameterFound ==
  ASSUME prog \in Programs, PointersOK, NoSelect, NEW f \in Fun, NEW called \in Fun, prog.fn[called].entry # 0,
         NEW v \in Range(prog.fn[called].params), NEW start \in SUBSET Value, v \in start,
         NEW sc \in ChecksOf(v), FuncPAResults[FunOf(sc)] = {}, NEW key, InModeledCheckSet(key)
  PROVE  IsCheckedForward(f, key, start, SuccReach(prog.fn[called].entry))
<1> DEFINE scope == SuccReach(prog.fn[called].entry)
<1>1. PICK h \in Analysed : sc \in Comparisons(h) /\ v \in Targets(sc)
  BY DEF ChecksOf
<1>2. h \in Fun
  <2>1. prog.order \in Seq(Fun)
    BY ProgramTyped
  <2>2. Range(prog.order) \subseteq Fun
    BY <2>1, LenProperties, ElementOfSeq DEF Range
  <2> QED
    BY <2>2 DEF Analysed
<1>3. sc \in Value /\ Is(sc, {"cmp"})
  BY <1>1, <1>2, ComparisonsTyped
<1>4. v \in InOf(FunOf(sc)) /\ FunOf(sc) \in Fun
  BY <1>1, <1>3, TargetsFacts, ValuePlaced DEF Is, Outside
<1>5. v \in Value /\ Is(v, {"argument"}) /\ \A u \in Users(v) : FunOf(u) = called /\ Home(u) \in scope
  BY ParameterFacts
<1>6. FunOf(sc) = called
  <2>1. ~Instruction(v)
    BY <1>5, ValuePlaced DEF Is, Outside
  <2> QED
    BY <1>4, <1>5, <2>1 DEF InOf
<1>7. ScopeOK(scope, v, called)
  <2>1. prog.fn[called].entry \in Block
    BY ProgramTyped DEF WellFormed, Block
  <2>2. /\ scope \subseteq Block
        /\ \A b \in scope : SuccReach(b) \subseteq scope /\ prog.owner[b] = prog.owner[prog.fn[called].entry]
    BY <2>1, ReachFacts
  <2>3. PICK u \in Users(v) : FunOf(u) = called
    <3>1. ~Instruction(v)
      BY <1>5, ValuePlaced DEF Is, Outside
    <3> QED
      BY <1>4, <1>6, <3>1 DEF InOf
  <2>4. prog.owner[prog.fn[called].entry] = called
    BY <1>5, <2>2, <2>3 DEF FunOf
  <2> HIDE DEF scope
  <2> QED
    BY <1>5, <2>2, <2>4 DEF ScopeOK
<1>8. \A p \in Value : \A q : q \in Aliases(p, called) <=> q = p
  BY <1>6, AliasesFacts
<1>9. AliasesKept(f, called)
  BY <1>8, AliasesFacts DEF AliasesKept
<1>10. \A x \in InOf(called) : Is(x, {"load"}) /\ v \in LoadAliases(x) => Seen(f, start, scope, v, x)
  <2> SUFFICES ASSUME NEW x \in InOf(called), Is(x, {"load"}), v \in LoadAliases(x)
               PROVE  Seen(f, start, scope, v, x)
    OBVIOUS
  <2>1. x \in Value /\ FunOf(x) = called
    BY InstructionOfFacts DEF Is, Outside, InOf
  <2>2. Arg(x, 1) \in Value /\ x \in Users(Arg(x, 1))
    BY <2>1, ValueArity, ValueTyped, InOfFacts DEF Is
  <2>3. v = Arg(x, 1)
    BY <1>8, <2>1, <2>2 DEF LoadAliases
  <2>4. Seen(f, start, scope, v, v)
    BY ForwardClosed DEF Seen
  <2>5. Is(x, {"gep", "phi", "cast", "alloca", "load", "binary"})
    BY DEF Is
  <2> HIDE DEF scope
  <2> QED
    BY <1>7, <2>2, <2>3, <2>4, <2>5, SeenUser
<1> HIDE DEF scope
<1>11. IsCheckedForward(f, key, start, scope)
  BY <1>1, <1>3, <1>6, <1>7, <1>9, <1>10, ForwardFinds
<1> QED
  BY <1>11 DEF scope

-----------------------------------------------------------------------------
(* What is among the unchecked sources was not seen by a search forward: from the result     *)
(* of a call, or from a parameter of a function with a body.                             *)
ResultUnseen(e) ==
  /\ e[2] \in Value /\ Is(e[2], {"call"}) /\ Direct(e[2]) /\ e[1] = Key("src", Called(e[2]), -1) /\ e[1] \in Checked
  /\ ~IsCheckedForward(FunOf(e[2]), e[1], {e[2]}, SuccReach(Home(e[2])))
ParameterUnseen(e) ==
  \E f \in Fun, called \in Fun, start \in SUBSET Value :
    /\ prog.fn[called].entry # 0 /\ e[2] \in Range(prog.fn[called].params) /\ e[2] \in start /\ e[1] \in Checked
    /\ ~IsCheckedForward(f, e[1], start, SuccReach(prog.fn[called].entry))
Unseen(e) ==
  e[1].role = "src" => (e[1].arg = -1 => ResultUnseen(e)) /\ (e[1].of \in Value => ParameterUnseen(e))
UnseenInv ==
  /\ \A e \in UnchecksMap : Unseen(e)
  /\ pc \in {"aliases", "checks"} => UnchecksMap = {}

(* A search says the same while what it asks stays.                           *)
LEMMA SameSearch ==
  ASSUME UNCHANGED <<prog, FuncPAResults, ChecksMap>>
  PROVE  \A f, key, start, scope : IsCheckedForward(f, key, start, scope)' <=> IsCheckedForward(f, key, start, scope)
  BY DEF IsCheckedForward, ForwardSteps, Users, Value, Home, Is, Arg, Aliases, Tests, InModeledCheckSet

(* What was found unchecked would be found unchecked again.                   *)
LEMMA SameUnseen ==
  ASSUME UNCHANGED <<prog, FuncPAResults, ChecksMap, CheckCount>>, NEW e, Unseen(e)
  PROVE  Unseen(e)'
<1>1. \A f, key, start, scope : IsCheckedForward(f, key, start, scope)' <=> IsCheckedForward(f, key, start, scope)
  BY SameSearch
<1>2. Value' = Value /\ Checked' = Checked
  BY DEF Value, Checked
<1>3. ResultUnseen(e)' <=> ResultUnseen(e)
  <2>1. /\ Is(e[2], {"call"})' = Is(e[2], {"call"}) /\ Direct(e[2])' = Direct(e[2]) /\ Called(e[2])' = Called(e[2])
        /\ FunOf(e[2])' = FunOf(e[2]) /\ SuccReach(Home(e[2]))' = SuccReach(Home(e[2]))
    BY DEF Is, Direct, Called, FunOf, SuccReach, Home, Reach
  <2> QED
    BY <1>1, <1>2, <2>1 DEF ResultUnseen
<1>4. ParameterUnseen(e)' <=> ParameterUnseen(e)
  <2>1. \A b : SuccReach(b)' = SuccReach(b)
    BY DEF SuccReach, Reach
  <2> QED
    BY <1>1, <1>2, <2>1 DEF ParameterUnseen
<1> QED
  BY <1>2, <1>3, <1>4 DEF Unseen

(* An unchecked source at an indirect call is a parameter for which the search failed. *)
LEMMA ArgumentUnseen ==
  ASSUME prog \in Programs, NEW c \in Value, Is(c, {"call"}), ~Direct(c), NEW s \in ArgumentSources(c), ~s[3]
  PROVE  Unseen(<<s[1], s[2]>>)
<1> DEFINE all == Range(prog.op[c].callees) \X DOMAIN prog.op[c].args
<1>1. PICK p \in all :
        LET called == p[1]
            v == prog.fn[called].params[p[2]]
            scope == CalleeScope(c, called)
            key == Key("src", c, p[2] - 1) IN
        /\ key \in Checked /\ prog.fn[called].entry # 0
        /\ s = <<key, v, IsCheckedForward(FunOf(c), key, {v} \cup (IF v \in prog.pointer THEN LoadsOf(v, called, scope) ELSE {}), scope)>>
  BY DEF ArgumentSources
<1> DEFINE called == p[1]
           v == prog.fn[called].params[p[2]]
           scope == SuccReach(prog.fn[called].entry)
           start == {v} \cup (IF v \in prog.pointer THEN LoadsOf(v, called, scope) ELSE {})
           key == Key("src", c, p[2] - 1)
<1>2. /\ called \in Range(prog.op[c].callees) /\ called \in Fun
      /\ p[2] \in 1 .. Len(prog.op[c].args) /\ Len(prog.op[c].args) \in Nat
  BY ValueTyped, SMTT(30)
<1>3. key \in Checked /\ prog.fn[called].entry # 0 /\ s = <<key, v, IsCheckedForward(FunOf(c), key, start, scope)>>
  BY <1>1 DEF CalleeScope
<1>4. v \in Range(prog.fn[called].params)
  <2>1. prog.fn[called].params \in Seq(Nat)
    BY <1>2, ProgramTyped, ZenonT(60) DEF FunRecord
  <2>2. Len(prog.op[c].args) <= Len(prog.fn[called].params)
    BY <1>2, <1>3, ProgramTyped DEF WellFormed, Value, Is, Direct
  <2>3. Len(prog.fn[called].params) \in Nat /\ DOMAIN prog.fn[called].params = 1 .. Len(prog.fn[called].params)
    BY <2>1, LenProperties
  <2>4. p[2] \in DOMAIN prog.fn[called].params
    BY <1>2, <2>2, <2>3, SMTT(30)
  <2> QED
    BY <2>4 DEF Range
<1>5. v \in Value /\ LoadsOf(v, called, scope) \subseteq Value /\ FunOf(c) \in Fun
  BY <1>2, <1>4, ParameterFacts, ResultScope DEF LoadsOf
<1>6. start \in SUBSET Value /\ v \in start
  BY <1>5
<1>7. key.arg = p[2] - 1 /\ p[2] - 1 # -1
  BY <1>2 DEF Key
<1> HIDE DEF key, v, start, scope, called
<1>8. s[1] = key /\ s[2] = v /\ ~IsCheckedForward(FunOf(c), key, start, scope)
  BY <1>3
<1> DEFINE e == <<s[1], s[2]>>
<1>9. e[1] = key /\ e[2] = v
  BY <1>8
<1> HIDE DEF e
<1>10. ParameterUnseen(e)
  BY <1>2, <1>3, <1>4, <1>5, <1>6, <1>8, <1>9 DEF ParameterUnseen, scope
<1>11. Unseen(e)
  BY <1>7, <1>9, <1>10 DEF Unseen
<1> QED
  BY <1>11 DEF e

(* An unchecked result of a call is one for which the search failed.          *)
LEMMA CallUnseen ==
  ASSUME prog \in Programs, NEW c \in Value, Is(c, {"call"}), Direct(c), ~Passed(c), NEW s \in CallSources(c), ~s[3]
  PROVE  Unseen(<<s[1], s[2]>>)
<1> DEFINE called == Called(c)
           scope == SuccReach(Home(c))
           outputs == {k \in DOMAIN prog.op[c].args \cap DOMAIN prog.fn[called].params : Arg(c, k) \in prog.pointer}
           start(no) == IF no = -1 THEN {c} ELSE LoadsOf(Arg(c, no + 1), FunOf(c), scope)
<1>1. PICK no \in (IF Users(c) = {} THEN {} ELSE {-1}) \cup {k - 1 : k \in outputs} :
        /\ Key("src", called, no) \in Checked
        /\ s = <<Key("src", called, no), c, IsCheckedForward(FunOf(c), Key("src", called, no), start(no), scope)>>
  BY DEF CallSources
<1> DEFINE key == Key("src", called, no)
           e == <<s[1], s[2]>>
<1>2. /\ key.arg = no /\ key.of = called /\ called \in Fun /\ key \in Checked
      /\ s[1] = key /\ s[2] = c /\ ~IsCheckedForward(FunOf(c), key, start(no), scope)
  BY <1>1, ValueTyped DEF Key
<1>3. called \notin Value
  BY <1>2, NameAssumption, ProgramFinite
<1>4. e[1] = key /\ e[2] = c
  BY <1>2
<1>5. no = -1 => start(no) = {c}
  OBVIOUS
<1>6. no = -1 => key = Key("src", Called(c), -1)
  OBVIOUS
<1> HIDE DEF key, e, called, start, scope
<1>7. no = -1 => ResultUnseen(e)
  BY <1>2, <1>4, <1>5, <1>6 DEF ResultUnseen, scope
<1>8. Unseen(e)
  BY <1>2, <1>3, <1>4, <1>7 DEF Unseen
<1> QED
  BY <1>8 DEF e

FlowInv == TypeInv /\ AliasInv /\ UnseenInv

(* AliasInv is inductive: the alias results of a function are set once.       *)
LEMMA AliasStep ==
  ASSUME FlowInv, [Next]_vars
  PROVE  AliasInv'
<1> USE DEF FlowInv
<1>1. ASSUME UNCHANGED prog
      PROVE  \A f : AliasPointers(f)' = AliasPointers(f)
  BY <1>1 DEF AliasPointers, Addresses, Alias, SourcePointer, Upward, Of, Value, Is, Arg, Instruction, Home, FunOf
<1>2. CASE FunctionAliases
  <2>1. prog' = prog /\ FuncPAResults' = [FuncPAResults EXCEPT ![F] = AliasPointers(F)]
    BY <1>2 DEF FunctionAliases, NextFunction, DetectAliasPointers
  <2>2. DOMAIN FuncPAResults = Fun
    BY DEF TypeInv, PointersOK
  <2> QED
    BY <1>1, <2>1, <2>2 DEF AliasInv
<1>3. CASE ~FunctionAliases
  <2>1. prog' = prog /\ FuncPAResults' = FuncPAResults
    BY <1>3 DEF Next, EndFunction, NextFunction, CountSrcUseChecks, CountSrcUnchecks, UseOfArgument, EndUses, SkipValue,
       VisitArgument, FindTest, VisitValue, Descend, CountUseUnchecks, ProcessResults, Done, vars
  <2> QED
    BY <1>1, <2>1 DEF AliasInv
<1> QED
  BY <1>2, <1>3

(* UnseenInv survives a step that adds only what the search failed for.       *)
LEMMA AddedUnseen ==
  ASSUME FlowInv, UNCHANGED <<prog, FuncPAResults, CheckCount, ChecksMap>>, pc' \notin {"aliases", "checks"},
         \A e \in UnchecksMap' : e \in UnchecksMap \/ Unseen(e)
  PROVE  UnseenInv'
<1>1. \A e \in UnchecksMap' : Unseen(e)
  BY DEF FlowInv, UnseenInv
<1>2. \A e \in UnchecksMap' : Unseen(e)'
  BY <1>1, SameUnseen
<1> QED
  BY <1>2 DEF UnseenInv

(* UnseenInv is inductive.                                                    *)
LEMMA UnseenStep ==
  ASSUME FlowInv, [Next]_vars
  PROVE  UnseenInv'
<1> USE DEF FlowInv
<1>1. CASE FunctionAliases \/ CountSrcUseChecks
  <2>1. UnchecksMap' = {}
    BY <1>1 DEF FunctionAliases, CountSrcUseChecks, NextFunction, countVars, UnseenInv
  <2> QED
    BY <2>1 DEF UnseenInv
<1>2. CASE \/ EndFunction \/ UseOfArgument \/ EndUses \/ SkipValue \/ VisitArgument \/ FindTest \/ VisitValue
           \/ ProcessResults \/ UNCHANGED vars
  <2>1. UNCHANGED <<prog, FuncPAResults, CheckCount, ChecksMap, UnchecksMap>>
    BY <1>2 DEF EndFunction, NextFunction, UseOfArgument, EndUses, SkipValue, VisitArgument, FindTest, VisitValue,
       Descend, ProcessResults, vars, countVars
  <2>2. pc' \in {"aliases", "checks"} => pc \in {"aliases", "checks"}
    BY <1>2 DEF EndFunction, NextFunction, Following, UseOfArgument, EndUses, SkipValue, VisitArgument, FindTest, VisitValue,
       Descend, ProcessResults, vars, control
  <2>3. \A e \in UnchecksMap' : Unseen(e)'
    BY <2>1, SameUnseen DEF UnseenInv
  <2> QED
    BY <2>1, <2>2, <2>3 DEF UnseenInv
<1>3. CASE CountSrcUnchecks
  <2> DEFINE c == Min(todo)
  <2>1. /\ pc = "calls" /\ todo # {} /\ pc' \in {"calls", "uses"}
        /\ UNCHANGED <<prog, FuncPAResults, CheckCount, ChecksMap>>
    BY <1>3 DEF CountSrcUnchecks
  <2>2. c \in Value /\ Is(c, {"call"})
    <3>1. todo \in SUBSET Nat
      BY ProgramFinite DEF TypeInv, ControlOK
    <3>2. c \in todo
      BY <2>1, <3>1, MinFacts
    <3> QED
      BY <2>1, <3>2 DEF TypeInv, ControlOK, Of
  <2>3. \/ ~Direct(c) /\ AddSources(ArgumentSources(c))
        \/ AddSources({})
        \/ Direct(c) /\ ~Passed(c) /\ AddSources(CallSources(c))
    BY <1>3 DEF CountSrcUnchecks
  <2> HIDE DEF c
  <2>4. ASSUME NEW S, AddSources(S), \A s \in S : ~s[3] => Unseen(<<s[1], s[2]>>)
        PROVE  UnseenInv'
    <3>1. UnchecksMap' = UnchecksMap \cup {<<s[1], s[2]>> : s \in {t \in S : ~t[3]}}
      BY <2>4 DEF AddSources
    <3>2. \A e \in UnchecksMap' : e \in UnchecksMap \/ Unseen(e)
      BY <2>4, <3>1
    <3> QED
      BY <2>1, <3>2, AddedUnseen
  <2>5. ~Direct(c) => \A s \in ArgumentSources(c) : ~s[3] => Unseen(<<s[1], s[2]>>)
    BY <2>2, ArgumentUnseen DEF TypeInv, ControlOK
  <2>6. Direct(c) /\ ~Passed(c) => \A s \in CallSources(c) : ~s[3] => Unseen(<<s[1], s[2]>>)
    BY <2>2, CallUnseen DEF TypeInv, ControlOK
  <2> QED
    BY <2>3, <2>4, <2>5, <2>6
<1>4. CASE CountUseUnchecks
  <2>1. /\ UNCHANGED <<prog, FuncPAResults, CheckCount, ChecksMap>> /\ pc' = "uses"
        /\ UnchecksMap' \subseteq UnchecksMap \cup {<<UseKey, Arg(ci, arg + 1)>>}
    BY <1>4 DEF CountUseUnchecks
  <2>2. Unseen(<<UseKey, Arg(ci, arg + 1)>>)
    BY DEF Unseen, UseKey, Key
  <2>3. \A e \in UnchecksMap' : e \in UnchecksMap \/ Unseen(e)
    BY <2>1, <2>2
  <2> QED
    BY <2>1, <2>3, AddedUnseen
<1> QED
  BY <1>1, <1>2, <1>3, <1>4 DEF Next, Done

(* The invariant behind the agreement of the two slices holds throughout.     *)
LEMMA FlowInvariant == Spec => []FlowInv
<1>1. Init => FlowInv
  BY InitTypeInv DEF FlowInv, AliasInv, UnseenInv, Init
<1>2. FlowInv /\ [Next]_vars => FlowInv'
  BY TypeStep, AliasStep, UnseenStep DEF FlowInv
<1> QED
  BY <1>1, <1>2, PTL DEF Spec

(* A key that stage 1 counted has a model.                                    *)
LEMMA CheckedModelled ==
  ASSUME TypeInv, NEW key \in Checked
  PROVE  InModeledCheckSet(key)
  BY DEF TypeInv, CountsOK, InModeledCheckSet

(* The two slices agree on results of calls: where nothing is selected, the result of an     *)
(* unchecked call is tested by no counted check, when it is no pointer but its own.        *)
THEOREM StagesAgreeHolds == Spec => []StagesAgree
<1>1. FlowInv => StagesAgree
  <2> SUFFICES ASSUME FlowInv, NoSelect, NEW e \in UnchecksMap, e[1].role = "src", e[1].arg = -1, OwnResult(e[2]),
                      ChecksOf(e[2]) # {}
               PROVE  FALSE
    BY DEF StagesAgree
  <2>1. ResultUnseen(e)
    BY DEF FlowInv, UnseenInv, Unseen
  <2>2. InModeledCheckSet(e[1])
    BY <2>1, CheckedModelled DEF FlowInv, ResultUnseen
  <2>3. IsCheckedForward(FunOf(e[2]), e[1], {e[2]}, SuccReach(Home(e[2])))
    BY <2>1, <2>2, ResultFound DEF FlowInv, TypeInv, ControlOK, ResultUnseen
  <2> QED
    BY <2>1, <2>3 DEF ResultUnseen
<1> QED
  BY <1>1, FlowInvariant, PTL

(* They agree on the parameters of functions that are called indirectly, as long as the     *)
(* function has no aliases: the search asks for those of the caller.                      *)
THEOREM ParametersAgreeHolds == Spec => []ParametersAgree
<1>1. FlowInv => ParametersAgree
  <2> SUFFICES ASSUME FlowInv, NoSelect, NEW e \in UnchecksMap, e[1].role = "src", e[1].of \in Value,
                      NEW sc \in ChecksOf(e[2]), FuncPAResults[FunOf(sc)] = {}
               PROVE  FALSE
    BY DEF ParametersAgree
  <2>1. ParameterUnseen(e)
    BY DEF FlowInv, UnseenInv, Unseen
  <2>2. PICK f \in Fun, called \in Fun, start \in SUBSET Value :
          /\ prog.fn[called].entry # 0 /\ e[2] \in Range(prog.fn[called].params) /\ e[2] \in start /\ e[1] \in Checked
          /\ ~IsCheckedForward(f, e[1], start, SuccReach(prog.fn[called].entry))
    BY <2>1 DEF ParameterUnseen
  <2>3. InModeledCheckSet(e[1])
    BY <2>2, CheckedModelled DEF FlowInv
  <2>4. IsCheckedForward(f, e[1], start, SuccReach(prog.fn[called].entry))
    BY <2>2, <2>3, ParameterFound DEF FlowInv, TypeInv, ControlOK
  <2> QED
    BY <2>2, <2>4
<1> QED
  BY <1>1, FlowInvariant, PTL

-----------------------------------------------------------------------------
(* What is used by something, and found as a source of it, is itself used.                *)
LEMMA SourceUsed ==
  ASSUME prog \in Programs, PointersOK, NEW f, NEW v \in InOf(f), Users(v) # {}, NEW t \in Sources(v)
  PROVE  Users(t) # {}
<1> DEFINE next == [w \in Value |-> Feeds(w)]
           T == {x \in InOf(f) : Users(x) # {}}
<1>1. PICK x \in Closure({v}, Len(prog.op), next) : t \in SourcesAt(x)
  BY DEF Sources
<1>2. Closure({v}, Len(prog.op), next) \subseteq T
  <2>1. \A z \in T : next[z] \subseteq T
    <3> TAKE z \in T
    <3>1. z \in InOf(f) /\ z \in Value /\ next[z] = Feeds(z)
      BY DEF InOf
    <3>2. ASSUME NEW y \in Feeds(z)
          PROVE  y \in T
      <4>1. y \in InOf(f)
        BY <3>1, FeedsInside
      <4>2. CASE y \in Range(prog.op[z].args)
        BY <3>1, <4>1, <4>2 DEF Users
      <4>3. CASE Is(z, {"load"}) /\ y = Arg(z, 1)
        BY <3>1, <4>1, <4>3, ValueArity, InOfFacts DEF Is
      <4>4. ASSUME NEW u \in Before(z), Is(u, {"store"}), y = Arg(u, 1)
            PROVE  y \in T
        <5>1. u \in Value
          BY DEF Before
        <5> QED
          BY <4>1, <4>4, <5>1, ValueArity, InOfFacts DEF Is
      <4> QED
        BY <4>2, <4>3, <4>4, FeedsMember
    <3> QED
      BY <3>1, <3>2
  <2>2. {v} \subseteq T /\ Len(prog.op) \in Nat
    BY ProgramFinite
  <2> HIDE DEF T, next
  <2> QED
    BY <2>1, <2>2, ClosureLeast
<1>3. Users(x) # {}
  BY <1>1, <1>2
<1> QED
  BY <1>1, <1>3, SourcesAtMember

(* What a counted check tests is used: by the comparison, or on the way to it. *)
LEMMA CheckedUsed ==
  ASSUME prog \in Programs, PointersOK, NEW t, ChecksOf(t) # {}
  PROVE  Users(t) # {}
<1>1. PICK h \in Analysed : \E sc \in Comparisons(h) : t \in Targets(sc)
  BY DEF ChecksOf
<1>2. PICK sc \in Comparisons(h) : t \in Targets(sc)
  BY <1>1
<1>3. h \in Fun
  <2>1. prog.order \in Seq(Fun)
    BY ProgramTyped
  <2>2. Range(prog.order) \subseteq Fun
    BY <2>1, LenProperties, ElementOfSeq DEF Range
  <2> QED
    BY <2>2 DEF Analysed
<1>4. sc \in Value /\ Is(sc, {"cmp"})
  BY <1>3, ComparisonsTyped
<1>5. PICK i \in {1, 2} : t \in Sources(Arg(sc, i))
  BY <1>2 DEF Targets
<1>6. Arg(sc, i) \in InOf(FunOf(sc)) /\ Users(Arg(sc, i)) # {}
  BY <1>4, <1>5, ValueArity, InOfFacts DEF Is
<1> QED
  BY <1>5, <1>6, SourceUsed

-----------------------------------------------------------------------------
(* The totals of stage 2 grow with the results that are found again, of the calls that it   *)
(* has come to, and only under functions that some call goes to.                         *)
Late == pc \in {"calls", "uses", "backward", "report", "done"}
CameTo(t) ==
  \/ pc \in {"report", "done"}
  \/ \E k \in DOMAIN prog.order : prog.order[k] = FunOf(t) /\ (k < n \/ (k = n /\ t \notin todo))
Got(g) == {t \in FoundAgain(g) : CameTo(t)}
ResultKey(key) == key \in Checked /\ key.role = "src" /\ key.arg = -1
EarlyInv == ~Late => UncheckCount = EmptyBag /\ TotalCount = EmptyBag
GotInv ==
  Late /\ NoSelect =>
    \A key : ResultKey(key) =>
      Copies(key, UncheckCount) + Cardinality(Got(key.of)) <= Copies(key, TotalCount)
CalledInv ==
  \A key \in DOMAIN TotalCount :
    key.role = "src" /\ key.arg = -1 => \E t \in Value : Is(t, {"call"}) /\ key.of \in Range(prog.op[t].callees)
CoverInv == EarlyInv /\ GotInv /\ CalledInv

(* The results found again are finitely many.                                 *)
LEMMA GotFinite ==
  ASSUME prog \in Programs, NEW g
  PROVE  /\ FoundAgain(g) \in SUBSET Value /\ IsFiniteSet(FoundAgain(g))
         /\ \A T \in SUBSET FoundAgain(g) : IsFiniteSet(T) /\ Cardinality(T) \in Nat
<1>1. FoundAgain(g) \in SUBSET Value
  BY DEF FoundAgain, Results
<1>2. IsFiniteSet(FoundAgain(g))
  BY <1>1, ProgramFinite, FS_Subset
<1> QED
  BY <1>1, <1>2, FS_Subset, FS_CardinalityType

(* Which results are found again does not change once the aliases are known.  *)
LEMMA SameFound ==
  ASSUME UNCHANGED <<prog, FuncPAResults>>
  PROVE  /\ \A g : FoundAgain(g)' = FoundAgain(g) /\ (NoSelect' <=> NoSelect)
         /\ Value' = Value /\ \A t : Is(t, {"call"})' = Is(t, {"call"}) /\ FunOf(t)' = FunOf(t)
<1>1. \A t : OwnResult(t)' = OwnResult(t)
  BY DEF OwnResult, SourcePointer, Upward, Value, Is, Arg, Instruction, Home
<1>2. \A v : Sources(v)' = Sources(v)
  BY DEF Sources, Feeds, SourcesAt, LoadAliases, Before, Aliases, Value, Is, Arg, Instruction, Home, FunOf, Users,
     PredReach, SuccReach, Reach, Block
<1>3. \A sc : Targets(sc)' = Targets(sc)
  BY <1>2 DEF Targets, Is, Arg
<1>4. \A t : ChecksOf(t)' = ChecksOf(t)
  BY <1>3 DEF ChecksOf, Analysed, Comparisons, Is
<1>5. \A g : Results(g)' = Results(g)
  BY <1>4 DEF Results, Value, Is, Direct, Called
<1>6. \A g : FoundAgain(g)' = FoundAgain(g)
  BY <1>1, <1>5 DEF FoundAgain, Analysed, FunOf, Home
<1> QED
  BY <1>6 DEF NoSelect, Value, Is, FunOf, Home

(* When a step comes to nothing new, no more results are found again.         *)
LEMMA GotLess ==
  ASSUME prog \in Programs, UNCHANGED <<prog, FuncPAResults>>, NEW g, \A t \in FoundAgain(g) : CameTo(t)' => CameTo(t)
  PROVE  Cardinality(Got(g)') \in Nat /\ Cardinality(Got(g)) \in Nat /\ Cardinality(Got(g)') <= Cardinality(Got(g))
<1>1. FoundAgain(g)' = FoundAgain(g)
  BY SameFound
<1>2. Got(g)' \in SUBSET Got(g) /\ Got(g) \in SUBSET FoundAgain(g)
  BY <1>1 DEF Got
<1>3. IsFiniteSet(Got(g)) /\ Cardinality(Got(g)) \in Nat
  BY <1>2, GotFinite
<1>4. Got(g)' \in SUBSET FoundAgain(g)
  BY <1>2
<1>5. Cardinality(Got(g)') \in Nat
  BY <1>4, GotFinite
<1>6. Cardinality(Got(g)') <= Cardinality(Got(g))
  BY <1>2, <1>3, FS_Subset
<1> QED
  BY <1>3, <1>5, <1>6

(* A step that counts U as unchecked and T in total keeps the balance when it comes to no    *)
(* more results than it adds to the total as checked.                                  *)
LEMMA CoverKept ==
  ASSUME FlowInv, CoverInv, Late, Late', UNCHANGED <<prog, FuncPAResults, CheckCount>>,
         NEW U, IsABag(U), NEW T, IsABag(T), UncheckCount' = UncheckCount (+) U, TotalCount' = TotalCount (+) T,
         NoSelect => \A key : ResultKey(key) =>
           Copies(key, U) + Cardinality(Got(key.of)') <= Copies(key, T) + Cardinality(Got(key.of)),
         \A key \in DOMAIN T : key.role = "src" /\ key.arg = -1 =>
           \E t \in Value : Is(t, {"call"}) /\ key.of \in Range(prog.op[t].callees)
  PROVE  CoverInv'
<1>1. IsABag(UncheckCount) /\ IsABag(TotalCount)
  BY DEF FlowInv, TypeInv, CountsOK
<1>2. GotInv'
  <2> SUFFICES ASSUME NoSelect, NEW key, ResultKey(key)
               PROVE  Copies(key, UncheckCount') + Cardinality(Got(key.of)') <= Copies(key, TotalCount')
    <3>1. \A key : ResultKey(key)' <=> ResultKey(key)
      BY DEF ResultKey, Checked
    <3>2. NoSelect' <=> NoSelect
      BY SameFound
    <3>3. \A key : Copies(key, UncheckCount)' = Copies(key, UncheckCount') /\ Copies(key, TotalCount)' = Copies(key, TotalCount')
      BY DEF Copies
    <3> QED
      BY <3>1, <3>2, <3>3 DEF GotInv
  <2>1. /\ Copies(key, UncheckCount') = Copies(key, UncheckCount) + Copies(key, U)
        /\ Copies(key, TotalCount') = Copies(key, TotalCount) + Copies(key, T)
    BY <1>1, BagSum
  <2>2. /\ Copies(key, UncheckCount) \in Nat /\ Copies(key, U) \in Nat /\ Copies(key, TotalCount) \in Nat /\ Copies(key, T) \in Nat
    BY <1>1, CopiesFacts
  <2>3. Cardinality(Got(key.of)) \in Nat /\ Cardinality(Got(key.of)') \in Nat
    <3>1. FoundAgain(key.of)' = FoundAgain(key.of)
      BY SameFound
    <3>2. Got(key.of) \in SUBSET FoundAgain(key.of) /\ Got(key.of)' \in SUBSET FoundAgain(key.of)
      BY <3>1 DEF Got
    <3> QED
      BY <3>2, GotFinite DEF FlowInv, TypeInv, ControlOK
  <2>4. Copies(key, UncheckCount) + Cardinality(Got(key.of)) <= Copies(key, TotalCount)
    BY DEF CoverInv, GotInv
  <2>5. Copies(key, U) + Cardinality(Got(key.of)') <= Copies(key, T) + Cardinality(Got(key.of))
    OBVIOUS
  <2> QED
    BY <2>1, <2>2, <2>3, <2>4, <2>5
<1>3. CalledInv'
  <2>1. DOMAIN TotalCount' = DOMAIN TotalCount \cup DOMAIN T
    BY <1>1, BagSum
  <2>2. Value' = Value /\ \A t : Is(t, {"call"})' = Is(t, {"call"})
    BY SameFound
  <2> QED
    BY <2>1, <2>2 DEF CoverInv, CalledInv
<1>4. EarlyInv'
  BY DEF EarlyInv
<1> QED
  BY <1>2, <1>3, <1>4 DEF CoverInv

(* A step that counts nothing and comes to nothing new.                                 *)
LEMMA CoverStill ==
  ASSUME FlowInv, CoverInv, Late, Late', UNCHANGED <<prog, FuncPAResults, CheckCount, UncheckCount, TotalCount>>,
         \A g : \A t \in FoundAgain(g) : CameTo(t)' => CameTo(t)
  PROVE  CoverInv'
<1>1. prog \in Programs
  BY DEF FlowInv, TypeInv, ControlOK
<1>2. GotInv'
  <2> SUFFICES ASSUME NoSelect, NEW key, ResultKey(key)
               PROVE  Copies(key, UncheckCount) + Cardinality(Got(key.of)') <= Copies(key, TotalCount)
    <3>1. \A key : ResultKey(key)' <=> ResultKey(key)
      BY DEF ResultKey, Checked
    <3>2. NoSelect' <=> NoSelect
      BY SameFound
    <3>3. \A key : Copies(key, UncheckCount)' = Copies(key, UncheckCount) /\ Copies(key, TotalCount)' = Copies(key, TotalCount)
      BY DEF Copies
    <3> QED
      BY <3>1, <3>2, <3>3 DEF GotInv
  <2>1. Copies(key, UncheckCount) \in Nat /\ Copies(key, TotalCount) \in Nat
    BY CopiesFacts DEF FlowInv, TypeInv, CountsOK
  <2>2. Copies(key, UncheckCount) + Cardinality(Got(key.of)) <= Copies(key, TotalCount)
    BY DEF CoverInv, GotInv
  <2>3. Cardinality(Got(key.of)') \in Nat /\ Cardinality(Got(key.of)) \in Nat /\ Cardinality(Got(key.of)') <= Cardinality(Got(key.of))
    BY <1>1, GotLess
  <2> QED
    BY <2>1, <2>2, <2>3
<1>3. CalledInv'
  <2>1. Value' = Value /\ \A t : Is(t, {"call"})' = Is(t, {"call"})
    BY SameFound
  <2> QED
    BY <2>1 DEF CoverInv, CalledInv
<1>4. EarlyInv'
  BY DEF EarlyInv
<1> QED
  BY <1>2, <1>3, <1>4 DEF CoverInv

(* What is found again is the result of a call in a function that is gone through.          *)
LEMMA FoundPlaced ==
  ASSUME prog \in Programs, NEW g, NEW t \in FoundAgain(g)
  PROVE  /\ t \in Value /\ Is(t, {"call"}) /\ Direct(t) /\ Called(t) = g /\ ChecksOf(t) # {} /\ OwnResult(t)
         /\ prog.op[t].callees # <<>> /\ ~prog.fn[g].ignored
         /\ \E k \in DOMAIN prog.order : prog.order[k] = FunOf(t)
         /\ Work("calls", FunOf(t)) = Of(FunOf(t), {"call"}) /\ t \in Of(FunOf(t), {"call"})
<1>1. /\ t \in Value /\ Is(t, {"call"}) /\ Direct(t) /\ Called(t) = g /\ ChecksOf(t) # {} /\ OwnResult(t)
      /\ prog.op[t].callees # <<>> /\ ~prog.fn[g].ignored /\ FunOf(t) \in Analysed
  BY DEF FoundAgain, Results
<1>2. \E k \in DOMAIN prog.order : prog.order[k] = FunOf(t)
  BY <1>1 DEF Analysed, Range
<1>3. Work("calls", FunOf(t)) = Of(FunOf(t), {"call"})
  BY <1>1 DEF Work
<1>4. t \in Of(FunOf(t), {"call"})
  BY <1>1, ResultScope, ValuePlaced DEF Of
<1> QED
  BY <1>1, <1>2, <1>3, <1>4

(* The next function of a stage: nothing of it has been come to.                         *)
LEMMA EndFunctionCover ==
  ASSUME FlowInv, CoverInv, EndFunction
  PROVE  CoverInv'
<1>1. /\ pc \in {"checks", "calls"} /\ todo = {} /\ todo' = Work(pc', prog.order[n'])
      /\ pc' = (IF n = Len(prog.order) THEN Following(pc) ELSE pc) /\ n' = (IF n = Len(prog.order) THEN 1 ELSE n + 1)
      /\ UNCHANGED <<prog, FuncPAResults, CheckCount, UncheckCount, TotalCount>>
  BY DEF EndFunction, NextFunction, countVars
<1>2. prog \in Programs /\ n \in DOMAIN prog.order /\ DOMAIN prog.order = 1 .. Len(prog.order) /\ Len(prog.order) \in Nat
  BY ProgramTyped, LenProperties DEF FlowInv, TypeInv, ControlOK
<1>3. \A g : FoundAgain(g)' = FoundAgain(g) /\ \A t : FunOf(t)' = FunOf(t)
  BY <1>1, SameFound
<1>4. ASSUME pc' = "calls", NEW g, NEW t \in FoundAgain(g), CameTo(t)'
      PROVE  \E k \in DOMAIN prog.order : prog.order[k] = FunOf(t) /\ k < n'
  <2>1. PICK k \in DOMAIN prog.order : prog.order[k] = FunOf(t) /\ (k < n' \/ (k = n' /\ t \notin todo'))
    BY <1>1, <1>3, <1>4 DEF CameTo
  <2>2. CASE k = n'
    <3>1. todo' = Work("calls", FunOf(t))
      BY <1>1, <1>4, <2>1, <2>2
    <3>2. t \in todo'
      BY <1>2, <3>1, FoundPlaced
    <3> QED
      BY <1>2, <2>1, <2>2, <3>2
  <2> QED
    BY <2>1, <2>2
<1>5. CASE pc = "checks" /\ pc' = "checks"
  BY <1>1, <1>5 DEF CoverInv, EarlyInv, GotInv, CalledInv, Late, EmptyBag, SetToBag
<1>6. CASE pc = "checks" /\ pc' = "calls"
  <2>1. n' = 1 /\ UncheckCount' = EmptyBag /\ TotalCount' = EmptyBag
    BY <1>1, <1>6 DEF CoverInv, EarlyInv, Late
  <2>2. \A g : Got(g)' = {}
    <3> SUFFICES ASSUME NEW g, NEW t \in FoundAgain(g), CameTo(t)'
                 PROVE  FALSE
      BY <1>3 DEF Got
    <3>1. PICK k \in DOMAIN prog.order : k < n'
      BY <1>4, <1>6
    <3> QED
      BY <1>2, <2>1, <3>1
  <2>3. GotInv'
    <3>1. \A key : Copies(key, UncheckCount)' = 0 /\ Copies(key, TotalCount)' = 0
      BY <2>1, EmptyBagFacts DEF Copies
    <3>2. \A key : Cardinality(Got(key.of)') = 0
      BY <2>2, FS_EmptySet
    <3> QED
      BY <3>1, <3>2 DEF GotInv
  <2>4. CalledInv'
    BY <2>1, EmptyBagFacts DEF CalledInv
  <2>5. EarlyInv'
    BY <1>6 DEF EarlyInv, Late
  <2> QED
    BY <2>3, <2>4, <2>5 DEF CoverInv
<1>7. CASE pc = "calls"
  <2>1. Late /\ Late' /\ pc' \in {"calls", "report"} /\ (pc' = "report" => n = Len(prog.order)) /\ (pc' = "calls" => n' = n + 1)
    BY <1>1, <1>7 DEF Late, Following
  <2>2. ASSUME NEW g, NEW t \in FoundAgain(g), CameTo(t)'
        PROVE  CameTo(t)
    <3>1. PICK k \in DOMAIN prog.order : prog.order[k] = FunOf(t) /\ k <= n
      <4>1. CASE pc' = "calls"
        <5>1. PICK k \in DOMAIN prog.order : prog.order[k] = FunOf(t) /\ k < n'
          BY <1>4, <2>2, <4>1
        <5>2. k <= n
          BY <1>2, <2>1, <4>1, <5>1
        <5> QED
          BY <5>1, <5>2
      <4>2. CASE pc' = "report"
        <5>1. PICK k \in DOMAIN prog.order : prog.order[k] = FunOf(t)
          BY <1>2, FoundPlaced
        <5>2. k <= n
          BY <1>2, <2>1, <4>2
        <5> QED
          BY <5>1, <5>2
      <4> QED
        BY <2>1, <4>1, <4>2
    <3>2. k < n \/ k = n
      BY <1>2, <3>1
    <3>3. t \notin todo
      BY <1>1
    <3> QED
      BY <3>1, <3>2, <3>3 DEF CameTo
  <2> QED
    BY <1>1, <2>1, <2>2, CoverStill
<1> QED
  BY <1>1, <1>5, <1>6, <1>7 DEF Following

(* What a call counts for the result of g: no more unchecked than in total, and where the      *)
(* call is one of those found again, its result is counted and is not among the unchecked.   *)
LEMMA SourcesCover ==
  ASSUME prog \in Programs, NEW S, IsFiniteSet(S), NEW key, NEW c,
         c \in FoundAgain(key.of) => (\E s \in S : s[1] = key) /\ \A s \in S : s[1] = key => s[3]
  PROVE  Copies(key, Unseens(S)) + (IF c \in FoundAgain(key.of) THEN 1 ELSE 0) <= Copies(key, Looked(S))
<1>1. /\ Copies(key, Unseens(S)) \in Nat /\ Copies(key, Looked(S)) \in Nat
      /\ Copies(key, Unseens(S)) <= Copies(key, Looked(S))
  BY SourcesCounted
<1>2. CASE c \in FoundAgain(key.of)
  <2>1. Copies(key, Unseens(S)) = 0
    BY <1>2, SourcesCounted
  <2>2. Copies(key, Looked(S)) >= 1
    BY <1>2, SourcesCounted
  <2> QED
    BY <1>1, <1>2, <2>1, <2>2
<1> QED
  BY <1>1, <1>2

(* A call that is found again counts its result, and as checked.              *)
LEMMA CallCovers ==
  ASSUME FlowInv, NoSelect, NEW key, ResultKey(key), NEW c \in FoundAgain(key.of)
  PROVE  /\ ~Passed(c) /\ \E s \in CallSources(c) : s[1] = key
         /\ \A s \in CallSources(c) : s[1] = key => s[3]
<1> DEFINE called == Called(c)
           scope == SuccReach(Home(c))
           outputs == {k \in DOMAIN prog.op[c].args \cap DOMAIN prog.fn[called].params : Arg(c, k) \in prog.pointer}
           start(no) == IF no = -1 THEN {c} ELSE LoadsOf(Arg(c, no + 1), FunOf(c), scope)
           all == (IF Users(c) = {} THEN {} ELSE {-1}) \cup {k - 1 : k \in outputs}
           checked == IsCheckedForward(FunOf(c), key, {c}, scope)
<1>1. prog \in Programs /\ PointersOK /\ AliasInv
  BY DEF FlowInv, TypeInv, ControlOK
<1>2. /\ c \in Value /\ Is(c, {"call"}) /\ Called(c) = key.of /\ ChecksOf(c) # {} /\ OwnResult(c)
      /\ prog.op[c].callees # <<>> /\ ~prog.fn[key.of].ignored
  BY <1>1, FoundPlaced
<1>3. Users(c) # {}
  BY <1>1, <1>2, CheckedUsed
<1>4. ~Passed(c)
  BY <1>2, <1>3 DEF Passed
<1>5. key = Key("src", called, -1) /\ key \in Checked
  <2>1. key \in Keys /\ key.role = "src" /\ key.arg = -1
    BY DEF FlowInv, TypeInv, CountsOK, ResultKey
  <2> QED
    BY <1>2, <2>1 DEF Keys, Key, ResultKey
<1>6. InModeledCheckSet(key)
  BY <1>5, CheckedModelled DEF FlowInv
<1>7. checked
  BY <1>1, <1>2, <1>6, ResultFound
<1>8. CallSources(c) =
        {<<Key("src", called, no), c, IsCheckedForward(FunOf(c), Key("src", called, no), start(no), scope)>> :
           no \in {k \in all : Key("src", called, k) \in Checked}}
  BY DEF CallSources
<1>9. \E s \in CallSources(c) : s[1] = key
  <2>1. -1 \in all /\ Key("src", called, -1) \in Checked
    BY <1>3, <1>5
  <2>2. <<Key("src", called, -1), c, IsCheckedForward(FunOf(c), Key("src", called, -1), start(-1), scope)>> \in CallSources(c)
    <3> HIDE DEF called, scope, start, all
    <3> QED
      BY <1>8, <2>1
  <2> QED
    BY <1>5, <2>2
<1>10. ASSUME NEW s \in CallSources(c), s[1] = key
       PROVE  s[3]
  <2>1. PICK no \in all : s = <<Key("src", called, no), c, IsCheckedForward(FunOf(c), Key("src", called, no), start(no), scope)>>
    <3> HIDE DEF called, scope, start, all
    <3> QED
      BY <1>8
  <2>2. no = -1
    BY <1>5, <1>10, <2>1 DEF Key
  <2>3. start(no) = {c}
    BY <2>2
  <2> HIDE DEF start, scope, called, all
  <2>4. s = <<key, c, IsCheckedForward(FunOf(c), key, {c}, scope)>>
    BY <1>5, <2>1, <2>2, <2>3
  <2> QED
    BY <1>7, <2>4 DEF scope
<1> QED
  BY <1>4, <1>9, <1>10

(* Under the result of a function, only calls of that function are counted.                *)
LEMMA CallSourcesKeys ==
  ASSUME prog \in Programs, NEW c \in Value, Is(c, {"call"}), ~Passed(c), NEW s \in CallSources(c)
  PROVE  \E t \in Value : Is(t, {"call"}) /\ s[1].of \in Range(prog.op[t].callees)
<1>1. s[1].of = Called(c)
  <2>1. \E no, found : s = <<Key("src", Called(c), no), c, found>>
    BY DEF CallSources
  <2> QED
    BY <2>1 DEF Key
<1>2. prog.op[c].callees # <<>> /\ prog.op[c].callees \in Seq(Fun)
  BY ValueTyped DEF Passed
<1>3. 1 \in DOMAIN prog.op[c].callees
  BY <1>2, EmptySeq, LenProperties
<1>4. Called(c) \in Range(prog.op[c].callees)
  BY <1>2, <1>3 DEF Called, Range
<1> QED
  BY <1>1, <1>4

(* No result is counted at an indirect call.                                  *)
LEMMA ArgumentSourcesKeys ==
  ASSUME prog \in Programs, NEW c \in Value, NEW s \in ArgumentSources(c)
  PROVE  s[1].arg # -1
<1>1. PICK no \in DOMAIN prog.op[c].args : s[1] = Key("src", c, no - 1)
  <2>1. PICK p \in Range(prog.op[c].callees) \X DOMAIN prog.op[c].args :
          \E v, found : s = <<Key("src", c, p[2] - 1), v, found>>
    BY Zenon DEF ArgumentSources
  <2>2. p[2] \in DOMAIN prog.op[c].args /\ s[1] = Key("src", c, p[2] - 1)
    BY <2>1
  <2> QED
    BY <2>2
<1>2. no \in 1 .. Len(prog.op[c].args) /\ Len(prog.op[c].args) \in Nat
  BY ValueTyped
<1> QED
  BY <1>1, <1>2 DEF Key

(* The balance survives the sources S of a call, if they hold its result when it is found again. *)
LEMMA SourcesStep ==
  ASSUME FlowInv, CoverInv, pc = "calls", todo # {}, pc' \in {"calls", "uses"}, todo' = todo \ {Min(todo)},
         UNCHANGED <<prog, FuncPAResults, n, CheckCount>>,
         NEW S, SourcesOK(S), AddSources(S),
         NoSelect => \A key : ResultKey(key) /\ Min(todo) \in FoundAgain(key.of) =>
           (\E s \in S : s[1] = key) /\ \A s \in S : s[1] = key => s[3],
         \A s \in S : s[1].arg = -1 => \E t \in Value : Is(t, {"call"}) /\ s[1].of \in Range(prog.op[t].callees)
  PROVE  CoverInv'
<1> DEFINE c == Min(todo)
<1>1. prog \in Programs /\ IsFiniteSet(S)
  BY DEF FlowInv, TypeInv, ControlOK, SourcesOK
<1>2. /\ IsABag(Unseens(S)) /\ IsABag(Looked(S)) /\ DOMAIN Looked(S) \subseteq {s[1] : s \in S}
      /\ \A k : Copies(k, Unseens(S)) \in Nat /\ Copies(k, Looked(S)) \in Nat
  BY <1>1, SourcesCounted
<1>3. UncheckCount' = UncheckCount (+) Unseens(S) /\ TotalCount' = TotalCount (+) Looked(S)
  BY DEF AddSources, Unseens, Looked
<1> HIDE DEF c
<1>4. ASSUME NoSelect, NEW key, ResultKey(key)
      PROVE  Copies(key, Unseens(S)) + Cardinality(Got(key.of)') <= Copies(key, Looked(S)) + Cardinality(Got(key.of))
  <2> DEFINE g == key.of
             more == IF c \in FoundAgain(g) THEN 1 ELSE 0
  <2>1. Copies(key, Unseens(S)) + more <= Copies(key, Looked(S))
    <3>1. c \in FoundAgain(key.of) => (\E s \in S : s[1] = key) /\ \A s \in S : s[1] = key => s[3]
      BY <1>4 DEF c
    <3> QED
      BY <1>1, <3>1, SourcesCover
  <2>2. FoundAgain(g)' = FoundAgain(g) /\ \A t : FunOf(t)' = FunOf(t)
    BY SameFound
  <2>3. ASSUME NEW t \in Got(g)', t # c
        PROVE  t \in Got(g)
    <3>1. t \in FoundAgain(g) /\ CameTo(t)'
      BY <2>2 DEF Got
    <3>2. t \notin todo' => t \notin todo
      BY <2>3 DEF c
    <3>3. CameTo(t)
      BY <2>2, <3>1, <3>2 DEF CameTo
    <3> QED
      BY <3>1, <3>3 DEF Got
  <2>4. Got(g) \in SUBSET FoundAgain(g) /\ Got(g)' \in SUBSET FoundAgain(g)
    BY <2>2 DEF Got
  <2> HIDE DEF g
  <2>5. IsFiniteSet(Got(g)) /\ IsFiniteSet(Got(g)') /\ Cardinality(Got(g)) \in Nat /\ Cardinality(Got(g)') \in Nat
    BY <1>1, <2>4, GotFinite
  <2>6. Cardinality(Got(g)') <= Cardinality(Got(g)) + more
    <3>1. CASE c \in FoundAgain(g)
      <4>1. Got(g)' \in SUBSET (Got(g) \cup {c})
        BY <2>3
      <4>2. /\ IsFiniteSet(Got(g) \cup {c}) /\ Cardinality(Got(g) \cup {c}) \in Nat
            /\ Cardinality(Got(g) \cup {c}) <= Cardinality(Got(g)) + 1
        <5> DEFINE R == Got(g)
        <5>1. IsFiniteSet(R) /\ Cardinality(R) \in Nat
          BY <2>5
        <5> HIDE DEF R
        <5>2. /\ IsFiniteSet(R \cup {c})
              /\ Cardinality(R \cup {c}) = (IF c \in R THEN Cardinality(R) ELSE Cardinality(R) + 1)
          BY ONLY <5>1, FS_AddElement
        <5> QED
          BY <5>1, <5>2 DEF R
      <4>3. Cardinality(Got(g)') <= Cardinality(Got(g) \cup {c})
        BY <4>1, <4>2, FS_Subset
      <4> QED
        BY <2>5, <3>1, <4>2, <4>3
    <3>2. CASE c \notin FoundAgain(g)
      <4>1. Got(g)' \in SUBSET Got(g)
        BY <2>3, <2>4, <3>2
      <4>2. Cardinality(Got(g)') <= Cardinality(Got(g))
        BY <2>5, <4>1, FS_Subset
      <4> QED
        BY <2>5, <3>2, <4>2
    <3> QED
      BY <3>1, <3>2
  <2>7. Copies(key, Unseens(S)) \in Nat /\ Copies(key, Looked(S)) \in Nat /\ more \in Nat
    BY <1>2
  <2> HIDE DEF more
  <2>8. Copies(key, Unseens(S)) + Cardinality(Got(g)') <= Copies(key, Looked(S)) + Cardinality(Got(g))
    BY <2>1, <2>5, <2>6, <2>7
  <2> QED
    BY <2>8 DEF g
<1>5. \A key \in DOMAIN Looked(S) : key.role = "src" /\ key.arg = -1 =>
        \E t \in Value : Is(t, {"call"}) /\ key.of \in Range(prog.op[t].callees)
  BY <1>2
<1>6. Late /\ Late'
  BY DEF Late
<1> QED
  BY <1>2, <1>3, <1>4, <1>5, <1>6, CoverKept

(* The balance survives the sources of a call.                                *)
LEMMA CountSrcUnchecksCover ==
  ASSUME FlowInv, CoverInv, CountSrcUnchecks
  PROVE  CoverInv'
<1> DEFINE c == Min(todo)
<1>1. /\ pc = "calls" /\ todo # {} /\ todo' = todo \ {Min(todo)} /\ pc' \in {"calls", "uses"}
      /\ UNCHANGED <<prog, FuncPAResults, n, CheckCount>>
  BY DEF CountSrcUnchecks
<1>2. \/ ~Direct(c) /\ AddSources(ArgumentSources(c))
      \/ Direct(c) /\ Passed(c) /\ AddSources({})
      \/ Direct(c) /\ ~Passed(c) /\ AddSources(CallSources(c))
  BY DEF CountSrcUnchecks
<1>3. prog \in Programs /\ c \in Value /\ Is(c, {"call"})
  <2>1. prog \in Programs /\ todo \subseteq Of(F, {"call"}) /\ todo \in SUBSET Nat
    BY <1>1, ProgramFinite DEF FlowInv, TypeInv, ControlOK
  <2>2. c \in todo
    BY <1>1, <2>1, MinFacts
  <2> QED
    BY <2>1, <2>2 DEF Of
<1>4. SourcesOK(ArgumentSources(c)) /\ SourcesOK({}) /\ SourcesOK(CallSources(c))
  <2>1. SourcesOK({})
    BY FS_EmptySet DEF SourcesOK
  <2> QED
    BY <1>3, <2>1, ArgumentSourcesOK, CallSourcesOK
<1>5. \A key : c \in FoundAgain(key.of) => Direct(c)
  BY <1>3, FoundPlaced
<1>6. NoSelect => \A key : ResultKey(key) /\ c \in FoundAgain(key.of) =>
        ~Passed(c) /\ (\E s \in CallSources(c) : s[1] = key) /\ \A s \in CallSources(c) : s[1] = key => s[3]
  BY CallCovers
<1>7. CASE ~Direct(c) /\ AddSources(ArgumentSources(c))
  <2> DEFINE S == ArgumentSources(c)
  <2>1. SourcesOK(S) /\ AddSources(S) /\ \A s \in S : s[1].arg # -1
    BY <1>3, <1>4, <1>7, ArgumentSourcesKeys
  <2>2. \A key : c \notin FoundAgain(key.of)
    BY <1>5, <1>7
  <2> HIDE DEF S
  <2> QED
    BY <1>1, <2>1, <2>2, SourcesStep
<1>8. CASE Direct(c) /\ Passed(c) /\ AddSources({})
  <2>1. NoSelect => \A key : ResultKey(key) => c \notin FoundAgain(key.of)
    BY <1>6, <1>8
  <2> DEFINE S == {}
  <2>2. SourcesOK(S) /\ AddSources(S) /\ \A s \in S : s[1].arg # -1
    BY <1>4, <1>8
  <2> HIDE DEF S
  <2> QED
    BY <1>1, <2>1, <2>2, SourcesStep
<1>9. CASE Direct(c) /\ ~Passed(c) /\ AddSources(CallSources(c))
  <2> DEFINE S == CallSources(c)
  <2>1. \A s \in S : \E t \in Value : Is(t, {"call"}) /\ s[1].of \in Range(prog.op[t].callees)
    BY <1>3, <1>9, CallSourcesKeys
  <2>2. SourcesOK(S) /\ AddSources(S)
    BY <1>4, <1>9
  <2>3. NoSelect => \A key : ResultKey(key) /\ c \in FoundAgain(key.of) =>
          (\E s \in S : s[1] = key) /\ \A s \in S : s[1] = key => s[3]
    BY <1>6
  <2> HIDE DEF S
  <2> QED
    BY <1>1, <2>1, <2>2, <2>3, SourcesStep
<1> QED
  BY <1>2, <1>7, <1>8, <1>9

(* The balance survives the count of a use, which is under another key.       *)
LEMMA CountUseUnchecksCover ==
  ASSUME FlowInv, CoverInv, CountUseUnchecks
  PROVE  CoverInv'
<1> DEFINE one == SetToBag({UseKey})
           U == IF isChecked THEN EmptyBag ELSE one
<1>1. /\ pc = "backward" /\ pc' = "uses" /\ TotalCount' = TotalCount (+) one
      /\ UNCHANGED <<prog, FuncPAResults, n, todo, CheckCount>>
  BY DEF CountUseUnchecks
<1>2. /\ IsABag(one) /\ DOMAIN one = {UseKey} /\ \A k : Copies(k, one) = IF k = UseKey THEN 1 ELSE 0
  BY SingleBag
<1>3. IsABag(EmptyBag) /\ DOMAIN EmptyBag = {} /\ \A k : Copies(k, EmptyBag) = 0
  BY EmptyBagFacts
<1> HIDE DEF one
<1>4. UncheckCount' = UncheckCount (+) U
  <2>1. CASE isChecked
    <3>1. UncheckCount' = UncheckCount
      BY <2>1 DEF CountUseUnchecks
    <3>2. IsABag(UncheckCount)
      BY DEF FlowInv, TypeInv, CountsOK
    <3> QED
      BY <2>1, <3>1, <3>2, NothingMore
  <2>2. CASE ~isChecked
    BY <2>2 DEF CountUseUnchecks, one
  <2> QED
    BY <2>1, <2>2
<1>5. IsABag(U) /\ \A k : k # UseKey => Copies(k, U) = 0 /\ Copies(k, one) = 0
  BY <1>2, <1>3
<1>6. UseKey.role = "use"
  BY DEF UseKey, Key
<1> HIDE DEF U
<1>7. prog \in Programs
  BY DEF FlowInv, TypeInv, ControlOK
<1>8. \A t : CameTo(t)' => CameTo(t)
  <2>1. \A t : FunOf(t)' = FunOf(t)
    BY <1>1, SameFound
  <2> QED
    BY <1>1, <2>1 DEF CameTo
<1>9. ASSUME NEW key, ResultKey(key)
      PROVE  Copies(key, U) + Cardinality(Got(key.of)') <= Copies(key, one) + Cardinality(Got(key.of))
  <2>1. Copies(key, U) = 0 /\ Copies(key, one) = 0
    BY <1>5, <1>6, <1>9 DEF ResultKey
  <2>2. Cardinality(Got(key.of)') \in Nat /\ Cardinality(Got(key.of)) \in Nat /\ Cardinality(Got(key.of)') <= Cardinality(Got(key.of))
    BY <1>1, <1>7, <1>8, GotLess
  <2> QED
    BY <2>1, <2>2
<1>10. \A key \in DOMAIN one : ~(key.role = "src" /\ key.arg = -1)
  BY <1>2, <1>6
<1>11. Late /\ Late'
  BY <1>1 DEF Late
<1> QED
  BY <1>1, <1>2, <1>4, <1>5, <1>9, <1>10, <1>11, CoverKept

(* The balance is inductive.                                                  *)
LEMMA CoverStep ==
  ASSUME FlowInv, CoverInv, [Next]_vars
  PROVE  CoverInv'
<1>1. CASE FunctionAliases \/ CountSrcUseChecks \/ (UNCHANGED vars /\ ~Late)
  <2>1. /\ pc' \in {"aliases", "checks"} /\ UncheckCount' = UncheckCount /\ TotalCount' = TotalCount /\ ~Late
    BY <1>1 DEF FunctionAliases, CountSrcUseChecks, NextFunction, Following, countVars, vars, control, Late, FlowInv, TypeInv, ControlOK
  <2>2. UncheckCount' = EmptyBag /\ TotalCount' = EmptyBag
    BY <2>1 DEF CoverInv, EarlyInv
  <2>3. ~Late'
    BY <2>1 DEF Late
  <2>4. CalledInv'
    BY <2>2, EmptyBagFacts DEF CalledInv
  <2>5. GotInv' /\ EarlyInv'
    <3>1. UncheckCount' = EmptyBag' /\ TotalCount' = EmptyBag'
      BY <2>2 DEF EmptyBag, SetToBag
    <3> QED
      BY <2>3, <3>1 DEF GotInv, EarlyInv
  <2> QED
    BY <2>4, <2>5 DEF CoverInv
<1>2. CASE EndFunction
  BY <1>2, EndFunctionCover
<1>3. CASE CountSrcUnchecks
  BY <1>3, CountSrcUnchecksCover
<1>4. CASE CountUseUnchecks
  BY <1>4, CountUseUnchecksCover
<1>5. CASE \/ UseOfArgument \/ EndUses \/ SkipValue \/ VisitArgument \/ FindTest \/ VisitValue \/ ProcessResults
           \/ (UNCHANGED vars /\ Late)
  <2>1. /\ UNCHANGED <<prog, FuncPAResults, n, todo, CheckCount, UncheckCount, TotalCount>> /\ Late /\ Late'
        /\ pc' \in {"report", "done"} => pc \in {"report", "done"}
    BY <1>5 DEF UseOfArgument, EndUses, SkipValue, VisitArgument, FindTest, VisitValue, Slicing, Descend, ProcessResults,
       vars, control, countVars, Late
  <2>2. \A t : CameTo(t)' => CameTo(t)
    <3>1. \A t : FunOf(t)' = FunOf(t)
      BY <2>1, SameFound
    <3> QED
      BY <2>1, <3>1 DEF CameTo
  <2> QED
    BY <2>1, <2>2, CoverStill
<1> QED
  BY <1>1, <1>2, <1>3, <1>4, <1>5 DEF Next, Done

(* At the end every call has been come to, and the balance is TotalsCover.    *)
LEMMA CoverSays ==
  ASSUME FlowInv, CoverInv
  PROVE  TotalsCover
<1> SUFFICES ASSUME pc = "done", NoSelect, NEW key \in Checked, key.role = "src", key.arg = -1
             PROVE  LET looked == Copies(key, TotalCount) IN
                    /\ Copies(key, UncheckCount) + Cardinality(FoundAgain(key.of)) <= looked
                    /\ (\A t \in Value : Is(t, {"call"}) => key.of \notin Range(prog.op[t].callees)) => looked = 0
  BY DEF TotalsCover
<1>1. Got(key.of) = FoundAgain(key.of)
  BY DEF Got, CameTo
<1>2. Copies(key, UncheckCount) + Cardinality(Got(key.of)) <= Copies(key, TotalCount)
  BY DEF CoverInv, GotInv, Late, ResultKey
<1>3. ASSUME \A t \in Value : Is(t, {"call"}) => key.of \notin Range(prog.op[t].callees)
      PROVE  Copies(key, TotalCount) = 0
  <2>1. key \notin DOMAIN TotalCount
    BY <1>3 DEF CoverInv, CalledInv
  <2> QED
    BY <2>1 DEF Copies
<1> QED
  BY <1>1, <1>2, <1>3

(* What is checked of a result is weighed against calls that were looked at: where nothing is   *)
(* selected, the total of a checked result takes in, beside the unchecked ones, each result    *)
(* that a counted check tests if its call is resolved, in an analysed function, calls no        *)
(* ignored one and is no alias of another pointer; and it is 0 if no call resolves to it.      *)
THEOREM TotalsCoverHolds == Spec => []TotalsCover
<1>1. Init => CoverInv
  BY EmptyBagFacts DEF Init, CoverInv, EarlyInv, GotInv, CalledInv, Late
<1>2. FlowInv /\ CoverInv /\ [Next]_vars => CoverInv'
  BY CoverStep
<1>3. FlowInv /\ CoverInv => TotalsCover
  BY CoverSays
<1> QED
  BY <1>1, <1>2, <1>3, FlowInvariant, PTL DEF Spec

-----------------------------------------------------------------------------
(* The search for an argument, beside the closure of the same steps that forgets what it   *)
(* has seen: what the steps lead to within k of them, what was seen, what is tested.      *)
Steps == [fr \in AnyFrame |-> OriginFrames(fr)]
Within(k) == Closure({StartFrame}, k, Steps)
Visited == {fr \in Frames : fr.value \in VSet}
IsTested(fr) == fr.depth <= MaxDepth /\ ~Is(fr.value, {"argument"}) /\ FindsTest(fr)
OneWay == \A fr, gr \in Frames : fr.value = gr.value => fr = gr

(* A call still to be made is no more steps from the start than values were seen.  As long  *)
(* as no test is found, and no value is come to in two ways, what the calls that were made  *)
(* lead to was seen or is still to be made, and none of it is tested.                   *)
CallsWithin == Range(stack) \subseteq Within(Cardinality(VSet))
NoneMissed ==
  /\ StartFrame \in Range(stack) \cup Visited
  /\ \A fr \in Visited : OriginFrames(fr) \subseteq Range(stack) \cup Visited /\ ~IsTested(fr)
SearchInv ==
  pc = "backward" => CallsWithin /\ (isChecked => Tested) /\ (~isChecked /\ OneWay => NoneMissed)

(* The first call of the search is a call.                                    *)
LEMMA StartTyped ==
  ASSUME ControlOK, pc \in {"uses", "backward"}, arg < Len(prog.op[ci].args)
  PROVE  StartFrame \in AnyCall
<1>1. 1 \in 1 .. MaxDepth + 1
  BY DEF MaxDepth
<1> QED
  BY <1>1, CurrentFunction, ScopeTyped, PassedTyped, FrameTyped DEF StartFrame

(* All orders of what a value comes from have the same members.               *)
LEMMA OriginsAgree ==
  ASSUME NEW fr, NEW s \in Origins(fr), NEW t \in Origins(fr)
  PROVE  Range(s) = Range(t)
<1> DEFINE v == fr.value
           users == UNION {{u \in Users(a) : Home(u) \in fr.scope} : a \in Aliases(Arg(v, 1), fr.fun)}
           all == {u \in users : Is(u, {"load"})} \cup {Arg(u, 1) : u \in {w \in users : Is(w, {"store"})}}
<1>1. CASE Is(v, {"load"})
  <2>1. ~Is(v, {"phi", "select", "gep", "cast", "binary", "alloca"})
    BY <1>1 DEF Is
  <2>2. Origins(fr) = Orders(all)
    BY <1>1, <2>1 DEF Origins
  <2> HIDE DEF all
  <2> QED
    BY <2>2 DEF Orders
<1>2. CASE ~Is(v, {"load"}) /\ Is(v, {"phi", "select", "gep", "cast", "binary", "alloca"})
  BY <1>2 DEF Origins
<1>3. CASE ~Is(v, {"load"}) /\ ~Is(v, {"phi", "select", "gep", "cast", "binary", "alloca"})
  BY <1>3 DEF Origins
<1> QED
  BY <1>1, <1>2, <1>3

(* The steps lead from calls to calls.                                        *)
LEMMA StepsTyped ==
  ASSUME prog \in Programs, NEW fr \in AnyCall
  PROVE  fr \in AnyFrame /\ Steps[fr] = OriginFrames(fr) /\ OriginFrames(fr) \subseteq AnyCall
<1>1. fr \in AnyFrame
  BY DEF AnyCall, AnyFrame
<1>2. OriginFrames(fr) \subseteq AnyCall
  <2>1. CASE fr.depth > MaxDepth
    BY <2>1 DEF OriginFrames
  <2>2. CASE ~(fr.depth > MaxDepth) /\ Is(fr.value, {"argument"})
    <3>1. fr.depth <= MaxDepth
      BY <2>2 DEF AnyCall, MaxDepth
    <3> QED
      BY <2>2, <3>1, CallerFramesTyped DEF OriginFrames
  <2>3. CASE ~(fr.depth > MaxDepth) /\ ~Is(fr.value, {"argument"})
    <3>1. OriginFrames(fr) = {[fr EXCEPT !.value = v] : v \in UNION {Range(values) : values \in Origins(fr)}}
      BY <2>3 DEF OriginFrames
    <3>2. \A v \in Value : [fr EXCEPT !.value = v] \in AnyCall
      BY DEF AnyCall
    <3>3. \A values \in Origins(fr) : Range(values) \subseteq Value
      BY OriginsTyped, RangeOfSeq
    <3>4. \A v \in UNION {Range(values) : values \in Origins(fr)} : v \in Value
      BY <3>3
    <3> QED
      BY <3>1, <3>2, <3>4
  <2> QED
    BY <2>1, <2>2, <2>3
<1> QED
  BY <1>1, <1>2 DEF Steps

(* What the steps lead to are calls, in every number of them; Frames is what they lead to  *)
(* within twice as many as there are values.                                   *)
LEMMA WithinFacts ==
  ASSUME ControlOK, StartFrame \in AnyCall, NEW k \in Nat
  PROVE  /\ StartFrame \in Within(k) /\ Within(k) \subseteq AnyCall
         /\ \A fr \in Within(k) : OriginFrames(fr) \subseteq Within(k + 1)
         /\ k <= Len(prog.op) => Within(k) \subseteq Frames
<1>1. prog \in Programs
  BY DEF ControlOK
<1>2. \A fr \in AnyCall : Steps[fr] \subseteq AnyCall
  BY <1>1, StepsTyped
<1>3. StartFrame \in Within(k) /\ Within(k) \subseteq AnyCall
  <2>1. {StartFrame} \subseteq AnyCall
    OBVIOUS
  <2>2. {StartFrame} \subseteq Within(k)
    BY ClosureLeast DEF Within
  <2>3. Within(k) \subseteq AnyCall
    BY <1>2, <2>1, ClosureLeast DEF Within
  <2> QED
    BY <2>2, <2>3
<1>4. ASSUME NEW fr \in Within(k)
      PROVE  OriginFrames(fr) \subseteq Within(k + 1)
  <2>1. fr \in AnyCall
    BY <1>3
  <2>2. Steps[fr] = OriginFrames(fr)
    BY <1>1, <2>1, StepsTyped
  <2>3. Within(k + 1) = More(Within(k), Steps)
    BY ClosureNext DEF Within
  <2> QED
    BY <2>2, <2>3, MoreMember
<1>5. ASSUME k <= Len(prog.op)
      PROVE  Within(k) \subseteq Frames
  <2>1. Len(prog.op) \in Nat
    BY <1>1, ProgramFinite
  <2>2. 2 * Len(prog.op) \in Nat /\ k <= 2 * Len(prog.op)
    BY <1>5, <2>1
  <2>3. Closure({StartFrame}, k, Steps) \subseteq Closure({StartFrame}, 2 * Len(prog.op), Steps)
    BY <2>2, ClosureGrows
  <2> QED
    BY <2>3 DEF Within, Frames, Steps
<1> QED
  BY <1>3, <1>4, <1>5

(* The steps and what they lead to stay while the search goes on.                 *)
LEMMA SameSteps ==
  ASSUME UNCHANGED <<prog, FuncPAResults, n, ci, arg, ChecksMap>>
  PROVE  /\ StartFrame' = StartFrame /\ Steps' = Steps /\ Frames' = Frames
         /\ \A k : Within(k)' = Within(k)
         /\ \A fr : OriginFrames(fr)' = OriginFrames(fr) /\ (IsTested(fr)' <=> IsTested(fr))
         /\ (OneWay' <=> OneWay) /\ (Tested' <=> Tested)
<1>1. StartFrame' = StartFrame
  BY DEF StartFrame, Frame, F, Arg, ScopeOf, PredReach, SuccReach, Reach, Block, Home
<1>2. \A fr : CallerFrames(fr)' = CallerFrames(fr)
  BY DEF CallerFrames, Callers, Value, Is, Arg, FunOf, Home, PredReach, SuccReach, Reach, Block, ParamNo, Frame
<1>3. \A fr : Origins(fr)' = Origins(fr)
  BY DEF Origins, Users, Value, Is, Arg, Home, Aliases
<1>4. \A fr : OriginFrames(fr)' = OriginFrames(fr)
  BY <1>2, <1>3 DEF OriginFrames, Is
<1>5. \A fr : IsTested(fr)' <=> IsTested(fr)
  BY DEF IsTested, Is, FindsTest, Tests, Users, Value, Home, Arg, InModeledCheckSet, UseKey, Called
<1>6. Steps' = Steps
  <2>1. AnyFrame' = AnyFrame
    BY DEF AnyFrame, Value, Block
  <2> QED
    BY <1>4, <2>1 DEF Steps
<1>7. \A k : Within(k)' = Within(k)
  BY <1>1, <1>6 DEF Within
<1>8. Frames' = Frames
  BY <1>1, <1>6 DEF Frames, Steps
<1>9. OneWay' <=> OneWay
  BY <1>8 DEF OneWay
<1>10. Tested <=> \E fr \in Frames : IsTested(fr)
  BY DEF Tested, IsTested
<1>11. Tested' <=> \E fr \in Frames' : IsTested(fr)'
  BY DEF Tested, IsTested
<1> QED
  BY <1>1, <1>4, <1>5, <1>6, <1>7, <1>8, <1>9, <1>10, <1>11

(* A search that starts has nothing behind it.                                *)
LEMMA SearchStart ==
  ASSUME TypeInv, UseOfArgument, pc' = "backward"
  PROVE  SearchInv'
<1>1. /\ pc = "uses" /\ arg < Len(prog.op[ci].args)
      /\ UNCHANGED <<prog, FuncPAResults, n, ci, arg, ChecksMap>>
      /\ stack' = <<StartFrame>> /\ VSet' = {} /\ isChecked' = FALSE
  BY DEF UseOfArgument, countVars
<1>2. StartFrame \in AnyCall
  BY <1>1, StartTyped DEF TypeInv
<1>3. Range(stack') = {StartFrame}
  BY <1>1 DEF Range
<1>4. Cardinality(VSet') = 0
  BY <1>1, FS_EmptySet
<1>5. StartFrame \in Within(0)
  BY <1>2, WithinFacts DEF TypeInv
<1>6. StartFrame' = StartFrame /\ \A k : Within(k)' = Within(k)
  BY <1>1, SameSteps
<1>7. CallsWithin'
  <2>1. \A k : k = Cardinality(VSet') => Within(Cardinality(VSet))' = Within(k)'
    BY DEF Within
  <2>2. Within(Cardinality(VSet))' = Within(0)
    BY <1>4, <1>6, <2>1
  <2> QED
    BY <1>3, <1>5, <2>2 DEF CallsWithin
<1>8. NoneMissed'
  BY <1>1, <1>3, <1>6 DEF NoneMissed, Visited
<1> QED
  BY <1>1, <1>7, <1>8 DEF SearchInv

(* A call that is made leaves the others, and puts before them what it is to go on to:       *)
(* nothing, if its value was seen or it is too deep, or else all that its value comes from.  *)
LEMMA SearchStep ==
  ASSUME TypeInv, SearchInv, Slicing, NEW frames \in Seq(AnyCall), Descend(frames),
         Range(frames) \subseteq OriginFrames(Top),
         Top.value \in VSet \/ (Range(frames) = OriginFrames(Top) /\ ~IsTested(Top)),
         Top.value \in VSet => frames = <<>>
  PROVE  SearchInv'
<1>1. /\ pc = "backward" /\ stack # <<>> /\ ~isChecked
      /\ VSet' = VSet \cup {Top.value} /\ stack' = frames \o Tail(stack)
      /\ UNCHANGED <<prog, FuncPAResults, pc, n, ci, arg, ChecksMap, isChecked>>
  BY DEF Descend, control, countVars, Slicing
<1>2. ControlOK /\ stack \in Seq(AnyCall) /\ VSet \subseteq Value /\ prog \in Programs
  BY DEF TypeInv, StackOK, ControlOK
<1>3. StartFrame \in AnyCall
  BY <1>1, <1>2, StartTyped DEF ControlOK
<1>4. Top \in AnyCall /\ Tail(stack) \in Seq(AnyCall) /\ Range(stack) = {Top} \cup Range(Tail(stack))
  <2>1. Top \in AnyCall /\ Tail(stack) \in Seq(AnyCall)
    BY <1>1, <1>2, HeadTailProperties DEF Top
  <2>2. /\ Len(Tail(stack)) = Len(stack) - 1
        /\ \A j \in 1 .. Len(Tail(stack)) : Tail(stack)[j] = stack[j + 1]
    BY <1>1, <1>2, HeadTailProperties
  <2>3. /\ Len(stack) \in Nat \ {0} /\ Top = stack[1] /\ DOMAIN stack = 1 .. Len(stack)
        /\ DOMAIN Tail(stack) = 1 .. Len(Tail(stack))
    BY <1>1, <1>2, <2>1, EmptySeq, LenProperties DEF Top
  <2> DEFINE T == Tail(stack)
             L == Len(stack)
  <2>4. \A x : x \in Range(stack) <=> \E j \in 1 .. L : x = stack[j]
    BY <2>3 DEF Range
  <2>5. \A x : x \in Range(T) <=> \E j \in 1 .. L - 1 : x = stack[j + 1]
    BY <2>2, <2>3 DEF Range
  <2> HIDE DEF T, L
  <2>6. \A x : x \in Range(stack) <=> x = Top \/ x \in Range(T)
    <3>1. L \in Nat \ {0} /\ 1 \in 1 .. L
      BY <2>3 DEF L
    <3>2. \A j \in 1 .. L : j = 1 \/ (j - 1 \in 1 .. L - 1 /\ (j - 1) + 1 = j)
      BY <3>1
    <3>3. \A j \in 1 .. L - 1 : j + 1 \in 1 .. L
      BY <3>1
    <3> QED
      BY <2>3, <2>4, <2>5, <3>1, <3>2, <3>3, SMTT(30)
  <2> QED
    BY <2>1, <2>6 DEF T
<1>5. Range(stack') = Range(frames) \cup Range(Tail(stack))
  <2>1. frames \in Seq(AnyCall) /\ Tail(stack) \in Seq(AnyCall)
    BY <1>4
  <2>2. Range(frames \o Tail(stack)) = Range(frames) \cup Range(Tail(stack))
    BY ONLY <2>1, RangeConcatenation, ZenonT(60)
  <2> QED
    BY <1>1, <2>2
<1>6. Top.value \in Value
  BY <1>4 DEF AnyCall
<1> DEFINE k == Cardinality(VSet)
           m == Cardinality(VSet')
<1>7. /\ k \in Nat /\ m \in Nat /\ k <= m /\ m <= Len(prog.op) /\ k <= Len(prog.op)
      /\ Top.value \notin VSet => m = k + 1
      /\ Len(prog.op) \in Nat
  <2>1. IsFiniteSet(Value) /\ Cardinality(Value) = Len(prog.op) /\ Len(prog.op) \in Nat
    BY <1>2, ProgramFinite
  <2>2. VSet' \subseteq Value /\ VSet \subseteq VSet'
    BY <1>1, <1>2, <1>6
  <2>3. IsFiniteSet(VSet') /\ m <= Len(prog.op)
    BY <2>1, <2>2, FS_Subset
  <2>4. IsFiniteSet(VSet) /\ k <= m
    BY <2>2, <2>3, FS_Subset
  <2>5. k \in Nat /\ m \in Nat
    BY <2>3, <2>4, FS_CardinalityType
  <2>6. Top.value \notin VSet => m = k + 1
    BY <1>1, <2>4, FS_AddElement
  <2> HIDE DEF k, m
  <2> QED
    BY <2>1, <2>3, <2>4, <2>5, <2>6
<1> HIDE DEF k, m
<1>8. Range(stack) \subseteq Within(k)
  BY <1>1 DEF SearchInv, CallsWithin, k
<1>9. Within(k) \subseteq Within(m)
  BY <1>7, ClosureGrows DEF Within
<1>10. Range(frames) \subseteq Within(m)
  <2>1. CASE Top.value \in VSet
    BY <2>1 DEF Range
  <2>2. CASE Top.value \notin VSet
    <3>1. Top \in Within(k) /\ m = k + 1
      BY <1>4, <1>7, <1>8, <2>2
    <3>2. OriginFrames(Top) \subseteq Within(k + 1)
      BY <1>2, <1>3, <1>7, <3>1, WithinFacts
    <3> QED
      BY <3>1, <3>2
  <2> QED
    BY <2>1, <2>2
<1>11. /\ StartFrame' = StartFrame /\ Frames' = Frames /\ \A j : Within(j)' = Within(j)
       /\ \A fr : OriginFrames(fr)' = OriginFrames(fr) /\ (IsTested(fr)' <=> IsTested(fr))
       /\ (OneWay' <=> OneWay) /\ (Tested' <=> Tested)
  BY <1>1, SameSteps
<1>12. CallsWithin'
  <2>1. \A j : j = m => Within(Cardinality(VSet))' = Within(j)'
    BY DEF Within, m
  <2>2. Within(Cardinality(VSet))' = Within(m)
    BY <1>11, <2>1
  <2>3. Range(stack') \subseteq Within(m)
    BY <1>4, <1>5, <1>8, <1>9, <1>10
  <2> QED
    BY <2>2, <2>3 DEF CallsWithin
<1>13. ASSUME OneWay
       PROVE  NoneMissed'
  <2>1. NoneMissed
    BY <1>1, <1>13 DEF SearchInv
  <2>2. Top \in Frames
    BY <1>2, <1>3, <1>4, <1>7, <1>8, WithinFacts
  <2>3. Visited' = Visited \cup {Top}
    <3>1. Visited' = {fr \in Frames : fr.value \in VSet'}
      BY <1>11 DEF Visited
    <3>2. ASSUME NEW fr \in Frames, fr.value = Top.value
          PROVE  fr = Top
      BY <1>13, <2>2, <3>2 DEF OneWay
    <3> QED
      BY <1>1, <2>2, <3>1, <3>2 DEF Visited
  <2>4. Range(stack) \cup Visited \subseteq Range(stack') \cup Visited'
    BY <1>4, <1>5, <2>3
  <2>5. CASE Top.value \in VSet
    <3>1. Visited' = Visited
      BY <2>2, <2>3, <2>5 DEF Visited
    <3> QED
      BY <1>11, <2>1, <2>4, <3>1 DEF NoneMissed
  <2>6. CASE Top.value \notin VSet
    <3>1. OriginFrames(Top) \subseteq Range(stack') /\ ~IsTested(Top)
      BY <1>5, <2>6
    <3>2. \A fr \in Visited' : OriginFrames(fr) \subseteq Range(stack') \cup Visited' /\ ~IsTested(fr)
      <4>1. \A fr \in Visited : OriginFrames(fr) \subseteq Range(stack') \cup Visited' /\ ~IsTested(fr)
        BY <2>1, <2>4 DEF NoneMissed
      <4> QED
        BY <2>3, <3>1, <4>1
    <3>3. StartFrame \in Range(stack') \cup Visited'
      BY <2>1, <2>4 DEF NoneMissed
    <3> QED
      BY <1>11, <3>2, <3>3 DEF NoneMissed
  <2> QED
    BY <2>5, <2>6
<1> QED
  BY <1>1, <1>11, <1>12, <1>13 DEF SearchInv

(* What the search goes on to is what its steps lead to.                          *)
LEMMA SearchGoesOn ==
  ASSUME TypeInv, SearchInv, SkipValue \/ VisitArgument \/ VisitValue
  PROVE  SearchInv'
<1>1. Slicing /\ stack # <<>> /\ stack \in Seq(AnyCall) /\ prog \in Programs
  BY DEF SkipValue, VisitArgument, VisitValue, Slicing, TypeInv, StackOK, ControlOK
<1>2. Top \in AnyCall
  BY <1>1, HeadTailProperties DEF Top
<1>3. CASE SkipValue
  <2>1. Descend(<<>>) /\ <<>> \in Seq(AnyCall) /\ Range(<<>>) = {} /\ Skips
    BY <1>3, EmptySeq DEF SkipValue, Range
  <2>2. Top.value \in VSet \/ (OriginFrames(Top) = {} /\ ~IsTested(Top))
    BY <1>2, <2>1 DEF Skips, OriginFrames, IsTested, AnyCall, MaxDepth
  <2> QED
    BY <1>1, <2>1, <2>2, SearchStep
<1>4. CASE VisitArgument \/ VisitValue
  <2>1. Top.value \notin VSet /\ ~(Top.depth > MaxDepth) /\ Top.depth <= MaxDepth
    BY <1>4, TopTyped DEF VisitArgument, VisitValue, Skips, TypeInv
  <2>2. CASE VisitArgument
    <3>1. PICK frames \in Orders(CallerFrames(Top)) : Descend(frames)
      BY <2>2 DEF VisitArgument
    <3>2. frames \in Seq(AnyCall)
      BY <1>1, <1>2, <2>1, CallerFramesTyped, OrdersTyped
    <3>3. Range(frames) = CallerFrames(Top)
      BY DEF Orders
    <3>4. OriginFrames(Top) = CallerFrames(Top) /\ ~IsTested(Top)
      BY <2>1, <2>2 DEF OriginFrames, IsTested, VisitArgument
    <3> QED
      BY <1>1, <2>1, <3>1, <3>2, <3>3, <3>4, SearchStep
  <2>3. CASE VisitValue
    <3> DEFINE at(v) == [Top EXCEPT !.value = v]
    <3>1. PICK values \in Origins(Top) : Descend([k \in DOMAIN values |-> at(values[k])])
      BY <2>3 DEF VisitValue
    <3> DEFINE frames == [k \in DOMAIN values |-> at(values[k])]
    <3>2. values \in Seq(Value)
      BY <1>1, <1>2, OriginsTyped
    <3>3. DOMAIN values = 1 .. Len(values) /\ Len(values) \in Nat /\ \A k \in DOMAIN values : values[k] \in Value
      BY <3>2, LenProperties, ElementOfSeq
    <3>4. \A v \in Value : at(v) \in AnyCall
      BY <1>2 DEF AnyCall
    <3>5. OriginFrames(Top) = {at(v) : v \in UNION {Range(s) : s \in Origins(Top)}} /\ ~IsTested(Top)
      BY <2>1, <2>3 DEF OriginFrames, IsTested, VisitValue
    <3>6. UNION {Range(s) : s \in Origins(Top)} = Range(values)
      <4>1. \A s \in Origins(Top) : Range(s) = Range(values)
        BY OriginsAgree
      <4> QED
        BY <4>1
    <3> HIDE DEF at
    <3>7. \A k \in DOMAIN values : frames[k] = at(values[k]) /\ frames[k] \in AnyCall
      BY <3>3, <3>4
    <3>8. DOMAIN frames = DOMAIN values /\ frames = [k \in 1 .. Len(values) |-> frames[k]]
      BY <3>3
    <3>9. Descend(frames)
      BY <3>1
    <3> HIDE DEF frames
    <3>10. frames \in Seq(AnyCall)
      <4>1. frames \in [1 .. Len(values) -> AnyCall]
        BY <3>3, <3>7, <3>8
      <4> QED
        BY <3>3, <4>1
    <3>11. Range(frames) = OriginFrames(Top)
      <4>1. \A x : x \in Range(frames) <=> \E k \in DOMAIN values : x = at(values[k])
        BY <3>7, <3>8 DEF Range
      <4>2. \A x : x \in OriginFrames(Top) <=> \E v \in Range(values) : x = at(v)
        BY <3>5, <3>6
      <4>3. \A v : v \in Range(values) <=> \E k \in DOMAIN values : v = values[k]
        BY DEF Range
      <4> QED
        BY <4>1, <4>2, <4>3
    <3> QED
      BY <1>1, <2>1, <3>5, <3>9, <3>10, <3>11, SearchStep
  <2> QED
    BY <1>4, <2>2, <2>3
<1> QED
  BY <1>3, <1>4

(* A test that is found is a test of what the steps lead to.                      *)
LEMMA SearchFinds ==
  ASSUME TypeInv, SearchInv, FindTest
  PROVE  SearchInv'
<1>1. /\ pc = "backward" /\ stack # <<>> /\ ~isChecked /\ ~Skips /\ isChecked' = TRUE
      /\ ~Is(Top.value, {"argument"}) /\ FindsTest(Top)
      /\ UNCHANGED <<prog, FuncPAResults, pc, n, ci, arg, ChecksMap, stack, VSet>>
  BY DEF FindTest, Slicing, control, countVars
<1>2. ControlOK /\ stack \in Seq(AnyCall) /\ VSet \subseteq Value /\ prog \in Programs
  BY DEF TypeInv, StackOK, ControlOK
<1>3. StartFrame \in AnyCall
  BY <1>1, <1>2, StartTyped DEF ControlOK
<1>4. Top.depth <= MaxDepth /\ Top \in Range(stack)
  <2>1. Top.depth <= MaxDepth
    BY TopTyped DEF TypeInv, FindTest
  <2>2. 1 \in DOMAIN stack /\ Top = stack[1]
    BY <1>1, <1>2, LenProperties, EmptySeq DEF Top
  <2> QED
    BY <2>1, <2>2 DEF Range
<1>5. Cardinality(VSet) \in Nat /\ Cardinality(VSet) <= Len(prog.op)
  BY <1>2, ProgramFinite, FS_Subset, FS_CardinalityType
<1>6. Top \in Frames
  BY <1>1, <1>2, <1>3, <1>4, <1>5, WithinFacts DEF SearchInv, CallsWithin
<1>7. Tested
  BY <1>1, <1>4, <1>6 DEF Tested
<1>8. (Tested' <=> Tested) /\ \A k : Within(k)' = Within(k)
  BY <1>1, SameSteps
<1>9. CallsWithin'
  <2>1. \A k : k = Cardinality(VSet') => Within(Cardinality(VSet))' = Within(k)'
    BY DEF Within
  <2>2. Within(Cardinality(VSet))' = Within(Cardinality(VSet))
    BY <1>1, <1>8, <2>1
  <2> QED
    BY <1>1, <2>2 DEF SearchInv, CallsWithin
<1> QED
  BY <1>1, <1>7, <1>8, <1>9 DEF SearchInv

(* SearchInv is inductive, given the invariant of types.                      *)
LEMMA SearchKept ==
  ASSUME TypeInv, SearchInv, [Next]_vars
  PROVE  SearchInv'
<1>1. CASE UseOfArgument
  <2>1. CASE pc' = "backward"
    BY <1>1, <2>1, SearchStart
  <2>2. CASE pc' # "backward"
    BY <2>2 DEF SearchInv
  <2> QED
    BY <2>1, <2>2
<1>2. CASE SkipValue \/ VisitArgument \/ VisitValue
  BY <1>2, SearchGoesOn
<1>3. CASE FindTest
  BY <1>3, SearchFinds
<1>4. CASE UNCHANGED vars
  <2>1. UNCHANGED <<prog, FuncPAResults, pc, n, ci, arg, ChecksMap, isChecked, stack, VSet>>
    BY <1>4 DEF vars, control, countVars, sliceVars
  <2>2. /\ StartFrame' = StartFrame /\ Frames' = Frames
        /\ \A k : Within(k)' = Within(k)
        /\ \A fr : OriginFrames(fr)' = OriginFrames(fr) /\ (IsTested(fr)' <=> IsTested(fr))
        /\ (OneWay' <=> OneWay) /\ (Tested' <=> Tested)
    BY <2>1, SameSteps
  <2>3. CallsWithin' <=> CallsWithin
    <3>1. \A k : k = Cardinality(VSet') => Within(Cardinality(VSet))' = Within(k)'
      BY DEF Within
    <3>2. Within(Cardinality(VSet))' = Within(Cardinality(VSet))
      BY <2>1, <2>2, <3>1
    <3> QED
      BY <2>1, <3>2 DEF CallsWithin
  <2>4. NoneMissed' <=> NoneMissed
    <3>1. Visited' = Visited
      BY <2>1, <2>2 DEF Visited
    <3> QED
      BY <2>1, <2>2, <3>1 DEF NoneMissed
  <2> QED
    BY <2>1, <2>2, <2>3, <2>4 DEF SearchInv
<1>5. CASE \/ FunctionAliases \/ EndFunction \/ CountSrcUseChecks \/ CountSrcUnchecks \/ EndUses
           \/ CountUseUnchecks \/ ProcessResults
  <2>1. pc' # "backward"
    BY <1>5 DEF FunctionAliases, EndFunction, CountSrcUseChecks, CountSrcUnchecks, EndUses, CountUseUnchecks,
       ProcessResults, NextFunction, Following
  <2> QED
    BY <2>1 DEF SearchInv
<1> QED
  BY <1>1, <1>2, <1>3, <1>4, <1>5 DEF Next, Done

(* A search that is over has seen all that the steps lead to, if no test was found.         *)
LEMMA SearchSays ==
  ASSUME TypeInv, SearchInv
  PROVE  BackwardExact
<1> SUFFICES ASSUME pc = "backward", stack = <<>> \/ isChecked, Tested, OneWay, ~isChecked
             PROVE  FALSE
  BY DEF SearchInv, BackwardExact, OneWay, TypeInv, StackOK
<1>1. ControlOK /\ prog \in Programs /\ Len(prog.op) \in Nat
  BY ProgramFinite DEF TypeInv, ControlOK
<1>2. NoneMissed /\ Range(stack) = {}
  BY DEF SearchInv, Range
<1>3. StartFrame \in AnyCall
  BY <1>1, StartTyped DEF ControlOK
<1>4. 2 * Len(prog.op) \in Nat /\ Frames = Within(2 * Len(prog.op))
  BY <1>1 DEF Frames, Within, Steps
<1>5. Frames \subseteq AnyCall
  BY <1>1, <1>3, <1>4, WithinFacts
<1>6. \A fr \in Visited : Steps[fr] \subseteq Visited
  <2> TAKE fr \in Visited
  <2>1. fr \in AnyCall
    BY <1>5 DEF Visited
  <2>2. Steps[fr] = OriginFrames(fr)
    BY <1>1, <2>1, StepsTyped
  <2> QED
    BY <1>2, <2>2 DEF NoneMissed
<1>7. {StartFrame} \subseteq Visited
  BY <1>2 DEF NoneMissed
<1>8. Frames \subseteq Visited
  BY <1>4, <1>6, <1>7, ClosureLeast DEF Within
<1>9. \A fr \in Frames : ~IsTested(fr)
  BY <1>2, <1>8 DEF NoneMissed
<1> QED
  BY <1>9 DEF Tested, IsTested

(* BackwardExact for every program: isCheckedBackward says checked only if something that    *)
(* the argument comes from, by the steps of the search, is tested; and if it comes to no    *)
(* value in two ways, so that forgetting what it saw loses nothing, whenever something is.   *)
THEOREM BackwardExactHolds == Spec => []BackwardExact
<1>1. Init => TypeInv /\ SearchInv
  BY InitTypeInv DEF Init, SearchInv
<1>2. TypeInv /\ SearchInv /\ [Next]_vars => (TypeInv /\ SearchInv)'
  BY TypeStep, SearchKept
<1>3. Spec => [](TypeInv /\ SearchInv)
  BY <1>1, <1>2, PTL DEF Spec
<1> QED
  BY <1>3, SearchSays, PTL
=============================================================================
