---------------------------- MODULE MCMarkEdges ----------------------------
(***************************************************************************)
(* The functions on which TLC runs MarkEdges.                                *)
(***************************************************************************)
EXTENDS MarkEdges, FiniteSets

CONSTANTS Graphs,       \* the flow graphs
          BlockFlags,   \* the entries of bbErrMap a block may have
          MaxFlagged,   \* at most so many blocks have one
          Conditions    \* the values the branches test

Target == 2 .. N

(* Up to two successors in either order; block 2 twice.                       *)
OrderedLists == {<<>>} \cup {<<d>> : d \in Target} \cup {<<2, 2>>}
                  \cup {s \in Target \X Target : s[1] # s[2]}

(* Up to two different successors, the lower block first.                     *)
SortedLists == {<<>>} \cup {<<d>> : d \in Target}
                 \cup {s \in Target \X Target : s[1] < s[2]}

(* Every flow graph of N blocks, all reachable, with such terminators.         *)
OrderedGraphs == {g \in [Block -> OrderedLists] : Ahead([succ |-> g], {1}) = Block}
SortedGraphs == {g \in [Block -> SortedLists] : Ahead([succ |-> g], {1}) = Block}

(* Five blocks: a conditional followed by straight code; a loop left from its   *)
(* middle; a switch two of whose cases share a block.                          *)
Diamond == << <<2, 3>>, <<4>>, <<4>>, <<5>>, <<>> >>
Loop    == << <<2>>, <<3, 5>>, <<4, 5>>, <<2>>, <<>> >>
Switch  == << <<2, 3, 3, 4>>, <<5>>, <<5>>, <<4, 5>>, <<>> >>
FiveBlockGraphs == {Diamond, Loop, Switch}

HandleFlags == {{}, {"Must_Handle_Err"}}
ReturnFlags == {{}, {"Must_Return_Err"}, {"May_Return_Err"}, ReturnMask}
MixedFlags == ReturnFlags \cup {{"Must_Handle_Err"}, {"Must_Return_Err", "Must_Handle_Err"}}

OwnCondition == {[b \in Block |-> b]}
SharedConditions == OwnCondition \cup {[b \in Block |-> 1]}

Marks == {m \in [Block -> BlockFlags] : Cardinality({b \in Block : m[b] # {}}) <= MaxFlagged}

MCFunctions == [succ : Graphs, bbErr : Marks, cond : Conditions]
=============================================================================
