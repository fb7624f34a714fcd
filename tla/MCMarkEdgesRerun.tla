-------------------------- MODULE MCMarkEdgesRerun --------------------------
(***************************************************************************)
(* TLC runs MarkEdgesRerun on the functions of MCMarkEdges.                  *)
(***************************************************************************)
EXTENDS MarkEdgesRerun, MCMarkEdges
=============================================================================
