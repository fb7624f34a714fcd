-------------------------------- MODULE CFG --------------------------------
(***************************************************************************)
(* The control-flow graphs the security-check analysis walks.  A function   *)
(* has the blocks 1..N, in the order of Function::begin()..end(), block 1    *)
(* being its entry.  A record of Functions is one function with what         *)
(* checkErrReturn and checkErrHandle found in it:                            *)
(*   succ[b]   the successors of b's terminator, by index: a switch may name *)
(*             the same block twice;                                         *)
(*   bbErr[b]  bbErrMap: the flags of the block, {} when it has no entry;     *)
(*   cond[b]   the value the terminator of b tests (two branches may test    *)
(*             the same value); values are named by block numbers.           *)
(***************************************************************************)
EXTENDS ErrFlags, Naturals, Sequences

CONSTANTS N,          \* the number of basic blocks
          Functions   \* the functions under analysis

Block == 1 .. N
Edge == Block \X Block    \* CFGEdge: (terminator of the first, the second)

ASSUME NAssumption == N \in Nat \ {0}

ASSUME FunctionsAssumption ==
  Functions \subseteq [succ : [Block -> Seq(Block)],
                       bbErr : [Block -> SUBSET Flag],
                       cond : [Block -> Block]]

(* LLVM's verifier rejects a branch to the entry block.                     *)
ASSUME EntryAssumption ==
  \A f \in Functions : \A b \in Block : \A i \in DOMAIN f.succ[b] : f.succ[b][i] # 1

(* markBBErr is called with every flag but this one.                        *)
ASSUME NoMayHandleAssumption ==
  \A f \in Functions : \A b \in Block : "May_Handle_Err" \notin f.bbErr[b]

-----------------------------------------------------------------------------
NumSuccessors(f, b) == Len(f.succ[b])

(* An arc <<b, i>> is the i-th outgoing edge of b: what predecessors() and  *)
(* successors() iterate over.                                               *)
Out(f, b) == {<<b, i>> : i \in DOMAIN f.succ[b]}
Arcs(f) == UNION {Out(f, b) : b \in Block}
Dst(f, a) == f.succ[a[1]][a[2]]
EdgeOf(f, a) == <<a[1], Dst(f, a)>>
In(f, b) == {a \in Arcs(f) : Dst(f, a) = b}
EdgesOf(f) == {EdgeOf(f, a) : a \in Arcs(f)}

-----------------------------------------------------------------------------
(* What the handle marks mean.  A handled block calls an error-handling      *)
(* function, or does nothing but go on to a handled block: control that      *)
(* enters it reaches the handler without passing a branch.                   *)
HandlersIn(f) == {b \in Block : Handled(f.bbErr[b])}

HandledClosed(f, S) ==
  /\ HandlersIn(f) \subseteq S
  /\ \A p \in Block : NumSuccessors(f, p) = 1 /\ f.succ[p][1] \in S => p \in S

HandledBlocks(f) ==
  LET closed == {S \in SUBSET Block : HandledClosed(f, S)} IN
  {b \in Block : \A S \in closed : b \in S}

HandleEdges(f) ==
  LET handled == HandledBlocks(f) IN {e \in EdgesOf(f) : e[2] \in handled}

-----------------------------------------------------------------------------
(* No switch leads to three different blocks: for stating properties.         *)
TwoWay(f) ==
  \A c, d, e \in EdgesOf(f) : c[1] = d[1] /\ d[1] = e[1] => c = d \/ d = e \/ c = e

(* Reachability, as the least closed set: for stating properties.           *)
Ahead(f, S) ==
  LET closed == {T \in SUBSET Block :
                   S \subseteq T /\ \A e \in EdgesOf(f) : e[1] \in T => e[2] \in T} IN
  {b \in Block : \A T \in closed : b \in T}

Behind(f, S) ==
  LET closed == {T \in SUBSET Block :
                   S \subseteq T /\ \A e \in EdgesOf(f) : e[2] \in T => e[1] \in T} IN
  {b \in Block : \A T \in closed : b \in T}
=============================================================================
