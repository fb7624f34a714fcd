----------------------------- MODULE CrossCheck -----------------------------
(***************************************************************************)
(* What the missing-check analysis promises at the scale of the program: the *)
(* checks of every loaded module are collected before the absence of a check  *)
(* is counted in any, and nothing is reported before that is counted in all.  *)
(* Rating = Unchecks / Total would otherwise compare parts of the program.    *)
(***************************************************************************)
EXTENDS Naturals

CONSTANT Files    \* the number of input files

VARIABLES loaded,      \* so many of them have been loaded, as modules 1..loaded
          collected,   \* the modules whose checks have been counted
          counted,     \* the modules whose missing checks have been counted
          reported

vars == <<loaded, collected, counted, reported>>

Init == loaded = 0 /\ collected = {} /\ counted = {} /\ reported = FALSE

Load ==
  /\ collected = {} /\ ~reported
  /\ loaded < Files
  /\ loaded' = loaded + 1
  /\ UNCHANGED <<collected, counted, reported>>

Collect ==
  /\ counted = {} /\ ~reported
  /\ \E m \in (1 .. loaded) \ collected : collected' = collected \cup {m}
  /\ UNCHANGED <<loaded, counted, reported>>

Count ==
  /\ collected = 1 .. loaded /\ ~reported
  /\ \E m \in collected \ counted : counted' = counted \cup {m}
  /\ UNCHANGED <<loaded, collected, reported>>

Report ==
  /\ collected = 1 .. loaded /\ counted = collected /\ ~reported
  /\ reported' = TRUE
  /\ UNCHANGED <<loaded, collected, counted>>

Next == Load \/ Collect \/ Count \/ Report

Spec == Init /\ [][Next]_vars
=============================================================================
