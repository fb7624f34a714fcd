--------------------------- MODULE HandleClosure ---------------------------
(***************************************************************************)
(* What markAllEdgesErrFlag promises about error handling, whatever order   *)
(* it visits the blocks in: it marks edges of the function, only edges that *)
(* lead to a handler without a further branch, never takes a mark back, and *)
(* hands over to the identification of checks only when all are marked.     *)
(***************************************************************************)
EXTENDS CFG

VARIABLES fn,        \* the function being marked
          marked,    \* the edges that carry Must_Handle_Err
          finished   \* the identification of checks may begin

vars == <<fn, marked, finished>>

Init == fn \in Functions /\ marked = {} /\ finished = FALSE

Mark ==
  /\ ~finished
  /\ marked' \in {marked \cup {e} : e \in HandleEdges(fn) \ marked}
  /\ UNCHANGED <<fn, finished>>

Finish ==
  /\ ~finished
  /\ marked = HandleEdges(fn)
  /\ finished' = TRUE
  /\ UNCHANGED <<fn, marked>>

Next == Mark \/ Finish

Spec == Init /\ [][Next]_vars /\ WF_vars(Next)
=============================================================================
