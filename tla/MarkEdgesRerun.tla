--------------------------- MODULE MarkEdgesRerun ---------------------------
(***************************************************************************)
(* Two runs of identifySecurityChecks on the same function: SCPass runs once *)
(* for -sc and once more for -mc, and edgeErrMap and SCSet are cleared at    *)
(* the start of each.  Each run meets the predecessors in an order of its    *)
(* own.  Is what it finds a property of the function, or of the order?       *)
(***************************************************************************)
EXTENDS MarkEdges

VARIABLE first    \* what the first run found, <<>> before it ends

rerunVars == <<vars, first>>

Found == <<edgeErr, checks>>

RerunInit == Init /\ first = <<>>

Run == pc # "done" /\ Next /\ UNCHANGED first

Rerun ==
  /\ pc = "done" /\ first = <<>>
  /\ first' = Found
  /\ fn' = fn
  /\ edgeErr' = [e \in Edge |-> {}]
  /\ pc' = "block"
  /\ cur' = 1
  /\ outer' = {} /\ todo' = {}
  /\ EB' = <<>> /\ PB' = {}
  /\ EEP' = <<>> /\ PE' = {}
  /\ at' = <<1, 1>>
  /\ IntFlag' = {}
  /\ checks' = {}

BothDone == pc = "done" /\ first # <<>> /\ UNCHANGED rerunVars

RerunNext == Run \/ Rerun \/ BothDone

RerunSpec == RerunInit /\ [][RerunNext]_rerunVars

(* The marks and the checks do not depend on the order in which LLVM lists the   *)
(* predecessors of a block, as long as no block is marked both Must and May and     *)
(* no switch leads to three different blocks: mergeFlag is order-free on single     *)
(* flags, and a branch of two edges is raised when the later one is taken, whichever *)
(* that is.                                                                     *)
OrderIndependent ==
  /\ pc = "done" /\ first # <<>>
  /\ TwoWay(fn)
  /\ \A b \in Block : ~(Must(fn.bbErr[b]) /\ May(fn.bbErr[b]))
  => Found = first
=============================================================================
