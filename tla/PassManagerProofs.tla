-------------------------- MODULE PassManagerProofs --------------------------
(***************************************************************************)
(* Proofs about PassManager, for every number of files.  The inductive        *)
(* invariant ties the stage, which is a static variable of the last pass, to   *)
(* how far run's current sweep has come and to what has been counted.  A second *)
(* one says what is left of the plan still provides what is read after it.      *)
(***************************************************************************)
EXTENDS PassManager, SequenceTheorems, TLAPS

collect == "srcUseChecks"
count == "srcUseUnchecks"

(* Work w has been done, once, for exactly the modules 1..d.                 *)
Upto(w, d) == \A m \in 1 .. Files : times[w][m] = IF m <= d THEN 1 ELSE 0

Fresh == AnalysisStage = 1 /\ MIdx = 0 /\ Upto(collect, 0) /\ Upto(count, 0)
Complete == Upto(collect, modules) /\ Upto(count, modules)

(* MissingChecks is the last pass, processResults the last step.             *)
PlanOK ==
  \A k \in 1 .. Len(plan) :
    /\ plan[k] = "processResults" => k = Len(plan)
    /\ plan[k] = "MissingChecks" => k + 1 = Len(plan)

AtMissingChecks ==
  phase \in {"init", "iterate", "final"} /\ Head(plan) = "MissingChecks"

Planned(step) == \E k \in 1 .. Len(plan) : plan[k] = step

(* The stages of MissingChecks, sweep by sweep: the first, its end, the second,*)
(* its end.  With no module at all the first sweep ends in stage 1.            *)
Collecting ==
  /\ AnalysisStage = 1 /\ changed = 0 /\ (i <= modules \/ modules = 0)
  /\ MIdx = i - 1
  /\ Upto(collect, i - 1) /\ Upto(count, 0)
Collected ==
  /\ AnalysisStage = 2 /\ changed = 1 /\ i = modules + 1 /\ modules > 0 /\ MIdx = 0
  /\ Upto(collect, modules) /\ Upto(count, 0)
Counting ==
  /\ AnalysisStage = 2 /\ changed = 0 /\ i <= modules /\ MIdx = i - 1
  /\ Upto(collect, modules) /\ Upto(count, i - 1)
Counted ==
  AnalysisStage = 3 /\ changed = 0 /\ i = modules + 1 /\ MIdx = 0 /\ Complete

StageInv ==
  /\ phase = "load" \/ (Planned("MissingChecks") /\ ~AtMissingChecks) => Fresh
  /\ AtMissingChecks /\ phase = "init" => Fresh
  /\ AtMissingChecks /\ phase = "iterate" => Collecting \/ Collected \/ Counting \/ Counted
  /\ AtMissingChecks /\ phase = "final" => Complete
  /\ Planned("processResults") /\ ~Planned("MissingChecks") => Complete /\ phase # "load"
  /\ reported => plan = <<>> /\ Complete
  /\ Complete \/ (Upto(collect, 0) /\ Upto(count, 0)) \/ AtMissingChecks

(* In the loops of run there is a pass at the head of the plan.              *)
HeadOK ==
  /\ phase \in {"init", "iterate", "final"} => plan # <<>> /\ Head(plan) \in Pass
  /\ phase = "load" => ~reported /\ i = 1

IInv == TypeOK /\ PlanOK /\ HeadOK /\ StageInv

-----------------------------------------------------------------------------
(* The plan of every combination of options has its passes where PlanOK says.  *)
LEMMA PlanFacts ==
  ASSUME NEW a \in BOOLEAN, NEW b \in BOOLEAN
  PROVE  /\ Plan(a, b) \in Seq(Step)
         /\ \A k \in 1 .. Len(Plan(a, b)) :
              /\ Plan(a, b)[k] = "processResults" =>
                   /\ k = Len(Plan(a, b))
                   /\ \E j \in 1 .. Len(Plan(a, b)) : Plan(a, b)[j] = "MissingChecks"
              /\ Plan(a, b)[k] = "MissingChecks" => k + 1 = Len(Plan(a, b))
<1> DEFINE common == <<"TypeInitializer", "BuildTypeStructMap", "CallGraph">>
           check == IF a THEN <<"SecurityChecks">> ELSE <<>>
           missing == IF b THEN <<"PointerAnalysis", "SecurityChecks", "MissingChecks", "processResults">>
                           ELSE <<>>
           start == common \o check
<1>1. common \in Seq(Step) /\ check \in Seq(Step)
  <2>1. common \in Seq(Step) /\ <<"SecurityChecks">> \in Seq(Step) /\ <<>> \in Seq(Step)
    BY DEF Step, Pass
  <2> QED
    BY <2>1, Zenon
<1>2. Len(common) = 3 /\ \A k \in 1 .. 3 : common[k] \notin {"processResults", "MissingChecks"}
  OBVIOUS
<1>3. Len(check) \in Nat /\ \A k \in 1 .. Len(check) : check[k] = "SecurityChecks"
  OBVIOUS
<1>4. missing \in Seq(Step) /\ Len(missing) \in Nat
  <2>1. /\ <<"PointerAnalysis", "SecurityChecks", "MissingChecks", "processResults">> \in Seq(Step)
        /\ <<>> \in Seq(Step)
    BY DEF Step, Pass
  <2>2. missing \in Seq(Step)
    BY <2>1, Zenon
  <2> QED
    BY <2>2, LenProperties
<1>5. \A k \in 1 .. Len(missing) :
        /\ missing[k] = "processResults" => k = Len(missing)
        /\ missing[k] = "MissingChecks" => k + 1 = Len(missing)
  <2>1. CASE b
    <3>1. missing = <<"PointerAnalysis", "SecurityChecks", "MissingChecks", "processResults">>
      BY <2>1
    <3> QED
      BY <3>1
  <2>2. CASE ~b
    BY <2>2
  <2> QED
    BY <2>1, <2>2
<1>6. Len(missing) # 0 => Len(missing) = 4 /\ missing[3] = "MissingChecks"
  <2>1. b => missing = <<"PointerAnalysis", "SecurityChecks", "MissingChecks", "processResults">>
    OBVIOUS
  <2>2. ~b => missing = <<>>
    OBVIOUS
  <2> HIDE DEF missing
  <2> QED
    BY <2>1, <2>2
<1>7. Plan(a, b) = start \o missing
  BY DEF Plan
<1> HIDE DEF common, check, missing
<1>8. /\ start \in Seq(Step) /\ Len(start) \in Nat
      /\ \A k \in 1 .. Len(start) : start[k] \notin {"processResults", "MissingChecks"}
  <2>1. /\ start \in Seq(Step) /\ Len(start) = Len(common) + Len(check)
        /\ \A k \in 1 .. Len(common) + Len(check) :
             start[k] = IF k <= Len(common) THEN common[k] ELSE check[k - Len(common)]
    BY <1>1, ConcatProperties
  <2> HIDE DEF start
  <2>2. Len(start) \in Nat
    BY <2>1, <1>2, <1>3
  <2>3. ASSUME NEW k \in 1 .. Len(start)
        PROVE  start[k] \notin {"processResults", "MissingChecks"}
    <3>1. CASE k <= Len(common)
      <4>1. start[k] = common[k] /\ k \in 1 .. 3
        BY <2>1, <2>2, <3>1, <1>2, <1>3
      <4> QED
        BY <4>1, <1>2
    <3>2. CASE ~(k <= Len(common))
      <4>1. start[k] = check[k - Len(common)] /\ k - Len(common) \in 1 .. Len(check)
        BY <2>1, <2>2, <3>2, <1>2, <1>3
      <4> QED
        BY <4>1, <1>3
    <3> QED
      BY <3>1, <3>2
  <2> QED
    BY <2>1, <2>2, <2>3
<1> HIDE DEF start
<1>9. /\ start \o missing \in Seq(Step) /\ Len(start \o missing) = Len(start) + Len(missing)
      /\ \A k \in 1 .. Len(start) + Len(missing) :
           (start \o missing)[k] = IF k <= Len(start) THEN start[k] ELSE missing[k - Len(start)]
  BY <1>4, <1>8, ConcatProperties
<1>10. ASSUME Len(missing) # 0
       PROVE  \E j \in 1 .. Len(start \o missing) : (start \o missing)[j] = "MissingChecks"
  <2>1. Len(missing) = 4 /\ missing[3] = "MissingChecks"
    BY <1>10, <1>6
  <2>2. (start \o missing)[Len(start) + 3] = "MissingChecks"
    BY <2>1, <1>8, <1>9
  <2> QED
    BY <2>1, <2>2, <1>8, <1>9
<1>11. ASSUME NEW k \in 1 .. Len(start \o missing)
      PROVE  /\ (start \o missing)[k] = "processResults" =>
                  k = Len(start \o missing) /\ Len(missing) # 0
             /\ (start \o missing)[k] = "MissingChecks" => k + 1 = Len(start \o missing)
  <2>1. CASE k <= Len(start)
    BY <2>1, <1>4, <1>8, <1>9
  <2>2. CASE k > Len(start)
    <3>1. k - Len(start) \in 1 .. Len(missing)
      BY <2>2, <1>4, <1>8, <1>9
    <3>2. (start \o missing)[k] = missing[k - Len(start)]
      BY <2>2, <1>4, <1>8, <1>9
    <3> DEFINE j == k - Len(start)
    <3>3. /\ missing[j] = "processResults" => j = Len(missing)
          /\ missing[j] = "MissingChecks" => j + 1 = Len(missing)
      BY <3>1, <1>5
    <3>4. /\ j = Len(missing) => k = Len(start \o missing)
          /\ j + 1 = Len(missing) => k + 1 = Len(start \o missing)
      BY <1>4, <1>8, <1>9
    <3> QED
      BY <3>1, <3>2, <3>3, <3>4, <1>4
  <2> QED
    BY <2>1, <2>2, <1>4, <1>8, <1>9
<1> QED
  BY <1>7, <1>9, <1>11, <1>10

(* What one visit adds to the counts.                                        *)
LEMMA DidCounts ==
  ASSUME times \in [Work -> [1 .. Files -> Nat]], i \in 1 .. Files,
         NEW works
  PROVE  /\ Did(works) \in [Work -> [1 .. Files -> Nat]]
         /\ \A w \in Work : w \notin works => Did(works)[w] = times[w]
         /\ \A w \in Work : w \in works /\ Upto(w, i - 1) =>
              \A m \in 1 .. Files : Did(works)[w][m] = IF m <= i THEN 1 ELSE 0
<1> DEFINE plus(w) == [times[w] EXCEPT ![i] = @ + 1]
<1>1. ASSUME NEW w \in Work
      PROVE  /\ times[w] \in [1 .. Files -> Nat]
             /\ plus(w) \in [1 .. Files -> Nat]
             /\ \A m \in 1 .. Files : plus(w)[m] = IF m = i THEN times[w][m] + 1 ELSE times[w][m]
  <2>1. times[w] \in [1 .. Files -> Nat] /\ times[w][i] \in Nat
    OBVIOUS
  <2>2. times[w][i] + 1 \in Nat
    BY <2>1
  <2> QED
    BY <2>1, <2>2
<1> HIDE DEF plus
<1>2. \A w \in Work : Did(works)[w] = IF w \in works THEN plus(w) ELSE times[w]
  BY DEF Did, plus
<1>3. Did(works) = [w \in Work |-> IF w \in works THEN plus(w) ELSE times[w]]
  BY DEF Did, plus
<1>4. Did(works) \in [Work -> [1 .. Files -> Nat]]
  BY <1>1, <1>3
<1>5. ASSUME NEW w \in Work, w \in works, Upto(w, i - 1), NEW m \in 1 .. Files
      PROVE  Did(works)[w][m] = IF m <= i THEN 1 ELSE 0
  <2>1. times[w][m] = IF m <= i - 1 THEN 1 ELSE 0
    BY <1>5 DEF Upto
  <2>2. Did(works)[w][m] = IF m = i THEN times[w][m] + 1 ELSE times[w][m]
    BY <1>1, <1>2, <1>5
  <2> QED
    BY <2>1, <2>2
<1> QED
  BY <1>2, <1>4, <1>5

LEMMA InitIInv == Init => IInv
<1> SUFFICES ASSUME Init PROVE IInv
  OBVIOUS
<1>1. TypeOK
  <2>1. plan \in Seq(Step)
    BY PlanFacts DEF Init
  <2>2. times \in [Work -> [1 .. Files -> Nat]]
    BY DEF Init
  <2>3. Files \in Nat /\ Files > 0
    BY FilesAssumption
  <2>4. /\ sc \in BOOLEAN /\ mc \in BOOLEAN /\ again \in BOOLEAN
        /\ structs \in BOOLEAN /\ reported \in BOOLEAN
    BY Zenon DEF Init
  <2>5. /\ file \in 1 .. Files + 1 /\ modules \in 0 .. file - 1
        /\ i \in 1 .. modules + 1 /\ changed \in Nat
        /\ AnalysisStage \in 1 .. MAX_STAGE + 1 /\ MIdx \in 0 .. Files
        /\ phase \in {"load", "main", "init", "iterate", "final", "done"}
    BY <2>3, SMT DEF Init, MAX_STAGE
  <2> QED
    BY <2>1, <2>2, <2>4, <2>5, Zenon DEF TypeOK
<1>2. PlanOK
  BY PlanFacts DEF Init, PlanOK
<1>3. Fresh /\ phase = "load" /\ ~reported /\ i = 1
  BY FilesAssumption DEF Init, Fresh, Upto, Work, collect, count
<1>4. Complete
  BY <1>3, FilesAssumption DEF Init, Fresh, Complete, Upto
<1>5. Planned("processResults") => Planned("MissingChecks")
  BY PlanFacts, SMTT(30) DEF Init, Planned
<1>6. HeadOK
  BY <1>3 DEF HeadOK
<1>7. StageInv
  BY <1>3, <1>4, <1>5 DEF StageInv, AtMissingChecks
<1> QED
  BY <1>1, <1>2, <1>6, <1>7 DEF IInv
-----------------------------------------------------------------------------
LEMMA Shift ==
  \A k, n, m \in Int : m = n - 1 => /\ k + 1 = n => k = m
                                    /\ (k + 1) + 1 = n => k + 1 = m
OBVIOUS

(* What the end of a step of the plan does to what is left of it.            *)
LEMMA TailOfPlan ==
  ASSUME plan \in Seq(Step), plan # <<>>, PlanOK, plan' = Tail(plan)
  PROVE  /\ plan' \in Seq(Step) /\ PlanOK'
         /\ \A step : Planned(step)' => Planned(step)
         /\ \A step : Planned(step) /\ step # Head(plan) => Planned(step)'
         /\ Head(plan) = "processResults" => plan' = <<>> /\ ~Planned("MissingChecks")
         /\ Head(plan) = "MissingChecks" => ~Planned("MissingChecks")'
<1>1. /\ plan' \in Seq(Step) /\ Len(plan) \in Nat /\ Len(plan) > 0
      /\ Len(plan') = Len(plan) - 1
      /\ \A k \in 1 .. Len(plan) - 1 : plan'[k] = plan[k + 1]
      /\ Head(plan) = plan[1]
  BY HeadTailProperties, LenProperties, EmptySeq
<1>2. /\ Head(plan) = "processResults" => Len(plan) = 1
      /\ Head(plan) = "MissingChecks" => Len(plan) = 2
  <2>1. 1 \in 1 .. Len(plan)
    BY <1>1
  <2>2. /\ plan[1] = "processResults" => 1 = Len(plan)
        /\ plan[1] = "MissingChecks" => 1 + 1 = Len(plan)
    BY <2>1 DEF PlanOK
  <2> QED
    BY <2>2, <1>1
<1>3. PlanOK'
  <2>1. ASSUME NEW k \in 1 .. Len(plan')
        PROVE  /\ plan'[k] = "processResults" => k = Len(plan')
               /\ plan'[k] = "MissingChecks" => k + 1 = Len(plan')
    <3>1. k + 1 \in 1 .. Len(plan) /\ plan'[k] = plan[k + 1]
      BY <1>1
    <3>2. /\ plan[k + 1] = "processResults" => k + 1 = Len(plan)
          /\ plan[k + 1] = "MissingChecks" => (k + 1) + 1 = Len(plan)
      BY <3>1 DEF PlanOK
    <3>3. /\ k + 1 = Len(plan) => k = Len(plan')
          /\ (k + 1) + 1 = Len(plan) => k + 1 = Len(plan')
      <4>1. Len(plan) \in Int /\ Len(plan') \in Int /\ Len(plan') = Len(plan) - 1 /\ k \in Int
        BY <1>1
      <4> QED
        BY <4>1, Shift, Zenon
    <3> QED
      BY <3>1, <3>2, <3>3, Zenon
  <2> QED
    BY <2>1 DEF PlanOK
<1>4. ASSUME NEW step, NEW k \in 1 .. Len(plan'), plan'[k] = step
      PROVE  Planned(step)
  <2>1. k + 1 \in 1 .. Len(plan) /\ plan[k + 1] = step
    BY <1>1, <1>4
  <2> QED
    BY <2>1 DEF Planned
<1>5. ASSUME NEW step, NEW k \in 1 .. Len(plan), plan[k] = step, step # Head(plan)
      PROVE  Planned(step)'
  <2>1. k # 1
    BY <1>1, <1>5
  <2>2. k - 1 \in 1 .. Len(plan') /\ plan'[k - 1] = step
    BY <2>1, <1>1, <1>5
  <2> QED
    BY <2>2 DEF Planned
<1>6. Head(plan) = "processResults" => plan' = <<>> /\ ~Planned("MissingChecks")
  <2> SUFFICES ASSUME Head(plan) = "processResults"
               PROVE  plan' = <<>> /\ ~Planned("MissingChecks")
    OBVIOUS
  <2>1. Len(plan) = 1
    BY <1>2
  <2>2. plan' = <<>>
    BY <2>1, <1>1, EmptySeq
  <2>3. ~Planned("MissingChecks")
    BY <2>1, <1>1 DEF Planned
  <2> QED
    BY <2>2, <2>3
<1>7. Head(plan) = "MissingChecks" => ~Planned("MissingChecks")'
  <2> SUFFICES ASSUME Head(plan) = "MissingChecks", Planned("MissingChecks")'
               PROVE  FALSE
    OBVIOUS
  <2>1. Len(plan) = 2
    BY <1>2
  <2>2. PICK k \in 1 .. Len(plan') : plan'[k] = "MissingChecks"
    BY DEF Planned
  <2>3. k = 1 /\ plan[2] = "MissingChecks"
    BY <2>1, <2>2, <1>1
  <2> QED
    BY <2>1, <2>3 DEF PlanOK
<1>8. \A step : Planned(step)' => Planned(step)
  BY <1>4 DEF Planned
<1>9. \A step : Planned(step) /\ step # Head(plan) => Planned(step)'
  BY <1>5 DEF Planned
<1> QED
  BY <1>1, <1>3, <1>6, <1>7, <1>8, <1>9

(* A step that visits no module for the cross-check leaves its counts alone.   *)
LEMMA SameCounts ==
  ASSUME modules' = modules, times'[collect] = times[collect], times'[count] = times[count]
  PROVE  /\ Complete' <=> Complete
         /\ Upto(collect, 0)' <=> Upto(collect, 0)
         /\ Upto(count, 0)' <=> Upto(count, 0)
         /\ Upto(collect, modules)' <=> Upto(collect, modules)
         /\ AnalysisStage' = AnalysisStage /\ MIdx' = MIdx => (Fresh' <=> Fresh)
  BY DEF Complete, Upto, Fresh

-----------------------------------------------------------------------------
(* The invariant is inductive: one lemma per group of actions.               *)

LEMMA LoadBounds ==
  \A files, f, m, k \in Int :
    1 <= f /\ f <= files /\ 0 <= m /\ m <= f - 1 /\ 1 <= k /\ k <= m + 1
    => \A n \in {m, m + 1} : f + 1 \in 1 .. files + 1 /\ n \in 0 .. (f + 1) - 1 /\ k \in 1 .. n + 1
OBVIOUS

LEMMA MainIInv == IInv /\ Main => IInv'
<1> SUFFICES ASSUME IInv, Main PROVE IInv'
  OBVIOUS
<1> USE DEF IInv
<1>1. Files \in Nat /\ Files > 0
  BY FilesAssumption
<1>2. /\ file \in Int /\ 1 <= file /\ file <= Files + 1
      /\ modules \in Int /\ 0 <= modules /\ modules <= file - 1
      /\ i \in Int /\ 1 <= i /\ i <= modules + 1
  BY <1>1 DEF TypeOK
<1>3. CASE LoadFile
  <2> USE <1>3 DEF LoadFile, runVars, stageVars
  <2>1. TypeOK'
    <3>1. file' \in 1 .. Files + 1 /\ modules' \in 0 .. file' - 1 /\ i' \in 1 .. modules' + 1
      <4>1. file' = file + 1 /\ file <= Files /\ i' = i /\ modules' \in {modules, modules + 1}
        OBVIOUS
      <4>2. Files \in Int
        BY <1>1
      <4> HIDE <1>3 DEF LoadFile, IInv, runVars, stageVars
      <4>3. file + 1 \in 1 .. Files + 1 /\ modules' \in 0 .. (file + 1) - 1 /\ i \in 1 .. modules' + 1
        BY <4>1, <4>2, <1>2, LoadBounds, Zenon
      <4> QED
        BY <4>1, <4>3, Zenon
    <3> QED
      BY <3>1 DEF TypeOK
  <2>2. PlanOK' /\ HeadOK'
    BY DEF PlanOK, HeadOK
  <2>3. Fresh' /\ (Planned("processResults") => Planned("MissingChecks"))
    BY DEF StageInv, Fresh, Upto
  <2>4. StageInv'
    BY <2>3 DEF StageInv, HeadOK, AtMissingChecks, Fresh, Planned
  <2> QED
    BY <2>1, <2>2, <2>4
<1>4. CASE EndLoad
  <2> USE <1>4 DEF EndLoad, stageVars
  <2>1. TypeOK'
    BY DEF TypeOK
  <2>2. PlanOK' /\ HeadOK'
    BY DEF PlanOK, HeadOK
  <2>3. StageInv'
    BY SameCounts DEF StageInv, HeadOK, AtMissingChecks, Fresh, Planned
  <2> QED
    BY <2>1, <2>2, <2>3
<1>5. CASE BuildTypeStructMap
  <2> USE <1>5 DEF BuildTypeStructMap, runVars, stageVars
  <2>1. plan' \in Seq(Step) /\ PlanOK'
    BY TailOfPlan DEF TypeOK
  <2>2. TypeOK' /\ HeadOK'
    BY <2>1 DEF TypeOK, HeadOK
  <2>3. \A step \in {"MissingChecks", "processResults"} : Planned(step)' <=> Planned(step)
    BY TailOfPlan DEF TypeOK
  <2>4. StageInv'
    BY <2>3, SameCounts DEF StageInv, AtMissingChecks
  <2> QED
    BY <2>1, <2>2, <2>4
<1>6. CASE ProcessResults
  <2> USE <1>6 DEF ProcessResults, runVars, stageVars
  <2>1. plan' = <<>> /\ plan' \in Seq(Step) /\ PlanOK' /\ ~Planned("MissingChecks")
    BY TailOfPlan DEF TypeOK
  <2>2. TypeOK' /\ HeadOK'
    BY <2>1 DEF TypeOK, HeadOK
  <2>3. Planned("processResults")
    BY LenProperties, EmptySeq DEF Planned, TypeOK
  <2>4. Complete'
    BY <2>1, <2>3, SameCounts DEF StageInv
  <2>5. ~Planned("MissingChecks")' /\ ~Planned("processResults")'
    <3>1. 1 .. Len(plan') = {}
      BY <2>1
    <3> QED
      BY <3>1 DEF Planned
  <2>6. StageInv'
    BY <2>1, <2>4, <2>5 DEF StageInv, AtMissingChecks
  <2> QED
    BY <2>1, <2>2, <2>6
<1>7. CASE StartPass
  <2> USE <1>7 DEF StartPass
  <2>1. TypeOK'
    <3>1. i' \in 1 .. modules' + 1 /\ MIdx' \in 0 .. Files
      BY <1>1 DEF TypeOK
    <3>2. phase' \in {"load", "main", "init", "iterate", "final", "done"} /\ again' \in BOOLEAN
      OBVIOUS
    <3> QED
      BY <3>1, <3>2 DEF TypeOK
  <2>2. PlanOK' /\ HeadOK'
    BY DEF PlanOK, HeadOK
  <2>3. Head(plan) = "MissingChecks" => Planned("MissingChecks")
    BY LenProperties, EmptySeq DEF Planned, TypeOK
  <2>4. ~AtMissingChecks
    BY DEF AtMissingChecks
  <2>5. StageInv'
    BY <2>3, <2>4, SameCounts DEF StageInv, AtMissingChecks, Fresh, Planned
  <2> QED
    BY <2>1, <2>2, <2>5
<1>8. CASE EndMain
  <2> USE <1>8 DEF EndMain, stageVars
  <2>1. TypeOK'
    BY DEF TypeOK
  <2>2. PlanOK' /\ HeadOK'
    BY DEF PlanOK, HeadOK
  <2>3. StageInv'
    BY SameCounts DEF StageInv, AtMissingChecks, Planned
  <2> QED
    BY <2>1, <2>2, <2>3
<1> QED
  BY <1>3, <1>4, <1>5, <1>6, <1>7, <1>8 DEF Main

(* What holds in the loops of run, of whichever pass.                        *)
LEMMA RunFacts ==
  ASSUME IInv, Run
  PROVE  /\ phase \in {"init", "iterate", "final"} /\ plan # <<>> /\ Head(plan) \in Pass
         /\ ~reported
         /\ Head(plan) = "MissingChecks" => Planned("MissingChecks")
         /\ Files \in Nat /\ modules \in Nat /\ modules <= Files
         /\ i \in Nat /\ 1 <= i /\ i <= modules + 1
         /\ MIdx \in Nat
<1>1. phase \in {"init", "iterate", "final"}
  BY DEF Run, DoInitialization, EndInitialization, DoModulePass, DoMissingChecks, EndSweep,
         DoFinalization, EndFinalization
<1>2. plan # <<>> /\ Head(plan) \in Pass /\ ~reported
  BY <1>1 DEF IInv, HeadOK, StageInv
<1>3. Head(plan) = "MissingChecks" => Planned("MissingChecks")
  BY <1>2, LenProperties, EmptySeq DEF Planned, IInv, TypeOK
<1>4. Files \in Nat /\ file \in 1 .. Files + 1 /\ modules \in 0 .. file - 1 /\ i \in 1 .. modules + 1
      /\ MIdx \in 0 .. Files
  BY FilesAssumption DEF IInv, TypeOK
<1> HIDE DEF IInv
<1>5. modules \in Nat /\ modules <= Files /\ i \in Nat /\ 1 <= i /\ i <= modules + 1 /\ MIdx \in Nat
  BY <1>4
<1> QED
  BY <1>1, <1>2, <1>3, <1>4, <1>5, Zenon

(* A visit that is no visit of MissingChecks, or the end of a loop: the stage,   *)
(* the counts and the plan stay.                                             *)
LEMMA QuietStep ==
  ASSUME IInv, Run,
         UNCHANGED <<sc, mc, file, modules, plan, stageVars, structs, reported>>,
         times' \in [Work -> [1 .. Files -> Nat]],
         times'[collect] = times[collect], times'[count] = times[count],
         i' \in 1 .. modules' + 1, again' \in BOOLEAN, changed' \in Nat,
         phase' \in {"init", "iterate", "final"},
         AtMissingChecks' => \/ phase' = "init" /\ phase = "init"
                             \/ phase' = "iterate" /\ (Collecting \/ Collected \/ Counting \/ Counted)'
                             \/ phase' = "final" /\ Complete
  PROVE  IInv'
<1>1. TypeOK'
  BY Zenon DEF IInv, TypeOK, stageVars
<1>2. PlanOK' /\ HeadOK'
  BY RunFacts DEF IInv, PlanOK, HeadOK
<1>3. /\ Planned("MissingChecks")' <=> Planned("MissingChecks")
      /\ Planned("processResults")' <=> Planned("processResults")
      /\ AtMissingChecks' <=> AtMissingChecks
  BY RunFacts DEF Planned, AtMissingChecks
<1>4. /\ Complete' <=> Complete
      /\ Upto(collect, 0)' <=> Upto(collect, 0)
      /\ Upto(count, 0)' <=> Upto(count, 0)
      /\ Fresh' <=> Fresh
  BY SameCounts DEF stageVars
<1>5. phase # "load" /\ ~reported' /\ phase' # "load"
  BY RunFacts
<1>6. StageInv
  BY DEF IInv
<1>7. AtMissingChecks' /\ phase' = "init" => Fresh'
  BY <1>3, <1>4, <1>6 DEF StageInv
<1>8. AtMissingChecks' /\ phase' = "final" => Complete'
  BY <1>4
<1> HIDE DEF IInv
<1>9. StageInv'
  BY <1>3, <1>4, <1>5, <1>6, <1>7, <1>8, Zenon DEF StageInv
<1> QED
  BY <1>1, <1>2, <1>9 DEF IInv

LEMMA InitializationIInv == IInv /\ (DoInitialization \/ EndInitialization) => IInv'
<1> SUFFICES ASSUME IInv, DoInitialization \/ EndInitialization PROVE IInv'
  OBVIOUS
<1>1. Run
  BY DEF Run
<1>2. times \in [Work -> [1 .. Files -> Nat]] /\ again \in BOOLEAN /\ changed \in Nat
  BY DEF IInv, TypeOK
<1>3. CASE DoInitialization
  <2>1. i \in 1 .. Files /\ i' \in 1 .. modules' + 1
    BY <1>1, <1>3, RunFacts DEF DoInitialization
  <2>2. collect \notin InitWork(Head(plan)) /\ count \notin InitWork(Head(plan))
    BY DEF InitWork, collect, count
  <2>3. /\ times' \in [Work -> [1 .. Files -> Nat]]
        /\ times'[collect] = times[collect] /\ times'[count] = times[count]
    BY <1>2, <1>3, <2>1, <2>2, DidCounts DEF DoInitialization, Work, collect, count
  <2>4. again' \in BOOLEAN
    BY <1>2, <1>3, Zenon DEF DoInitialization, InitReturns
  <2> QED
    BY <1>1, <1>2, <1>3, <2>1, <2>3, <2>4, QuietStep DEF DoInitialization
<1>4. CASE EndInitialization
  <2>1. /\ i' = 1 /\ changed' = 0 /\ again' = FALSE /\ phase' \in {"init", "iterate"}
        /\ phase = "init" /\ times' = times
        /\ UNCHANGED <<sc, mc, file, modules, plan, stageVars, structs, reported>>
    BY <1>4, Zenon DEF EndInitialization
  <2>2. i' \in 1 .. modules' + 1 /\ changed' \in Nat
    BY <1>1, <2>1, RunFacts
  <2>3. AtMissingChecks' => Fresh'
    BY <2>1, SameCounts DEF AtMissingChecks, IInv, StageInv, stageVars
  <2>4. AtMissingChecks' => Collecting'
    BY <1>1, <2>1, <2>3, RunFacts DEF Collecting, Fresh, Upto
  <2> QED
    BY <1>1, <1>2, <2>1, <2>2, <2>4, QuietStep
<1> QED
  BY <1>3, <1>4

LEMMA ModulePassIInv == IInv /\ DoModulePass => IInv'
<1> SUFFICES ASSUME IInv, DoModulePass PROVE IInv'
  OBVIOUS
<1>1. Run
  BY DEF Run
<1>2. times \in [Work -> [1 .. Files -> Nat]] /\ again \in BOOLEAN /\ changed \in Nat
  BY DEF IInv, TypeOK
<1>3. i \in 1 .. Files /\ i' \in 1 .. modules' + 1
  BY <1>1, RunFacts DEF DoModulePass
<1>4. collect \notin ModuleWork(Head(plan)) /\ count \notin ModuleWork(Head(plan))
  BY DEF ModuleWork, collect, count, DoModulePass
<1>5. /\ times' \in [Work -> [1 .. Files -> Nat]]
      /\ times'[collect] = times[collect] /\ times'[count] = times[count]
  BY <1>2, <1>3, <1>4, DidCounts DEF DoModulePass, Work, collect, count
<1>6. ~AtMissingChecks'
  BY DEF DoModulePass, AtMissingChecks
<1> QED
  BY <1>1, <1>2, <1>3, <1>5, <1>6, QuietStep DEF DoModulePass

(* A sweep of MissingChecks visits one more module for the work of its stage,  *)
(* and the last visit moves the stage on.                                    *)
LEMMA MissingChecksIInv == IInv /\ DoMissingChecks => IInv'
<1> SUFFICES ASSUME IInv, DoMissingChecks PROVE IInv'
  OBVIOUS
<1>1. Run
  BY DEF Run
<1>2. /\ times \in [Work -> [1 .. Files -> Nat]] /\ AnalysisStage \in 1 .. MAX_STAGE + 1
      /\ TypeOK /\ PlanOK /\ HeadOK /\ StageInv
  BY DEF IInv, TypeOK
<1>3. /\ phase = "iterate" /\ phase' = "iterate" /\ Head(plan) = "MissingChecks"
      /\ i <= modules /\ i' = i + 1
      /\ times' = Did(ModuleWork("MissingChecks"))
      /\ MIdx' = IF LastOfSweep THEN 0 ELSE MIdx + 1
      /\ AnalysisStage' = IF LastOfSweep THEN AnalysisStage + 1 ELSE AnalysisStage
      /\ changed' = IF LastOfSweep /\ AnalysisStage' <= MAX_STAGE THEN changed + 1 ELSE changed
      /\ UNCHANGED <<sc, mc, file, modules, plan, again, structs, reported>>
  BY DEF DoMissingChecks
<1>4. AtMissingChecks /\ AtMissingChecks'
  BY <1>3 DEF AtMissingChecks
<1>5. /\ Files \in Nat /\ modules \in Nat /\ modules <= Files
      /\ i \in Nat /\ 1 <= i /\ MIdx \in Nat
      /\ plan # <<>> /\ Head(plan) \in Pass /\ ~reported /\ Planned("MissingChecks")
  BY <1>1, <1>3, RunFacts
<1> HIDE DEF IInv
<1>6. i \in 1 .. Files /\ i' \in 1 .. modules' + 1
  BY <1>3, <1>5
<1>7. /\ Did(ModuleWork("MissingChecks")) \in [Work -> [1 .. Files -> Nat]]
      /\ \A w \in Work : w \notin ModuleWork("MissingChecks") => times'[w] = times[w]
      /\ \A w \in Work : w \in ModuleWork("MissingChecks") /\ Upto(w, i - 1) =>
           \A m \in 1 .. Files : times'[w][m] = IF m <= i THEN 1 ELSE 0
  BY <1>2, <1>3, <1>6, DidCounts
<1>8. collect \in Work /\ count \in Work /\ collect # count
  BY DEF Work, collect, count
<1>9. Collecting \/ Counting
  <2>1. Collecting \/ Collected \/ Counting \/ Counted
    BY <1>2, <1>3, <1>4 DEF StageInv
  <2> QED
    BY <2>1, <1>3, <1>5 DEF Collected, Counted
<1>10. MIdx = i - 1 /\ (LastOfSweep <=> i = modules) /\ changed = 0
  <2>1. MIdx = i - 1 /\ changed = 0
    BY <1>9 DEF Collecting, Counting
  <2> QED
    BY <2>1, <1>5 DEF LastOfSweep
<1>11. /\ MIdx' = IF i = modules THEN 0 ELSE i
       /\ AnalysisStage' = IF i = modules THEN AnalysisStage + 1 ELSE AnalysisStage
       /\ changed' = IF i = modules /\ AnalysisStage' <= 2 THEN 1 ELSE 0
  BY <1>3, <1>5, <1>10 DEF MAX_STAGE
<1>12. ASSUME Collecting PROVE (Collecting \/ Collected)'
  <2>1. ModuleWork("MissingChecks") = {collect} /\ AnalysisStage = 1
    BY <1>12 DEF Collecting, ModuleWork, collect
  <2>2. times'[count] = times[count] /\ Upto(collect, i - 1) /\ Upto(count, 0)
    BY <1>7, <1>8, <1>12, <2>1 DEF Collecting
  <2>3. \A m \in 1 .. Files : times'[collect][m] = IF m <= i THEN 1 ELSE 0
    BY <1>7, <1>8, <2>1, <2>2
  <2>4. Upto(count, 0)'
    BY <2>2 DEF Upto
  <2>5. CASE i = modules
    <3>1. AnalysisStage' = 2 /\ changed' = 1 /\ MIdx' = 0 /\ i' = modules' + 1 /\ modules' > 0
      BY <1>3, <1>5, <1>11, <2>1, <2>5
    <3>2. Upto(collect, modules)'
      BY <1>3, <2>3, <2>5 DEF Upto
    <3> QED
      BY <2>4, <3>1, <3>2 DEF Collected
  <2>6. CASE i # modules
    <3>1. AnalysisStage' = 1 /\ changed' = 0 /\ MIdx' = i' - 1 /\ i' <= modules' /\ i' - 1 = i
      BY <1>3, <1>5, <1>11, <2>1, <2>6
    <3>2. Upto(collect, i - 1)'
      BY <2>3, <3>1 DEF Upto
    <3> QED
      BY <2>4, <3>1, <3>2 DEF Collecting
  <2> QED
    BY <2>5, <2>6
<1>13. ASSUME Counting PROVE (Counting \/ Counted)'
  <2>1. ModuleWork("MissingChecks") = {count} /\ AnalysisStage = 2
    BY <1>13 DEF Counting, ModuleWork, count
  <2>2. times'[collect] = times[collect] /\ Upto(count, i - 1) /\ Upto(collect, modules)
    BY <1>7, <1>8, <1>13, <2>1 DEF Counting
  <2>3. \A m \in 1 .. Files : times'[count][m] = IF m <= i THEN 1 ELSE 0
    BY <1>7, <1>8, <2>1, <2>2
  <2>4. Upto(collect, modules)'
    BY <1>3, <2>2 DEF Upto
  <2>5. CASE i = modules
    <3>1. AnalysisStage' = 3 /\ changed' = 0 /\ MIdx' = 0 /\ i' = modules' + 1
      BY <1>3, <1>5, <1>11, <2>1, <2>5
    <3>2. Upto(count, modules)'
      BY <1>3, <2>3, <2>5 DEF Upto
    <3> QED
      BY <2>4, <3>1, <3>2 DEF Counted, Complete
  <2>6. CASE i # modules
    <3>1. AnalysisStage' = 2 /\ changed' = 0 /\ MIdx' = i' - 1 /\ i' <= modules' /\ i' - 1 = i
      BY <1>3, <1>5, <1>11, <2>1, <2>6
    <3>2. Upto(count, i - 1)'
      BY <2>3, <3>1 DEF Upto
    <3> QED
      BY <2>4, <3>1, <3>2 DEF Counting
  <2> QED
    BY <2>5, <2>6
<1>14. (Collecting \/ Collected \/ Counting \/ Counted)'
  BY <1>9, <1>12, <1>13
<1>15. TypeOK'
  <2>1. AnalysisStage' \in 1 .. MAX_STAGE + 1 /\ changed' \in Nat /\ MIdx' \in 0 .. Files
    <3>1. AnalysisStage' \in 1 .. 3 /\ changed' \in Nat
      BY <1>5, <1>14 DEF Collecting, Collected, Counting, Counted
    <3>2. MIdx' \in 0 .. Files
      BY <1>5, <1>3, <1>11
    <3> QED
      BY <3>1, <3>2 DEF MAX_STAGE
  <2> QED
    BY <1>2, <1>3, <1>6, <1>7, <2>1, Zenon DEF TypeOK
<1>16. PlanOK' /\ HeadOK'
  BY <1>2, <1>3, <1>5 DEF PlanOK, HeadOK
<1>17. Planned("MissingChecks")' /\ ~reported'
  BY <1>3, <1>5 DEF Planned
<1>18. StageInv'
  BY <1>3, <1>4, <1>14, <1>17, Zenon DEF StageInv
<1> QED
  BY <1>15, <1>16, <1>18 DEF IInv

LEMMA SweepIInv == IInv /\ EndSweep => IInv'
<1> SUFFICES ASSUME IInv, EndSweep PROVE IInv'
  OBVIOUS
<1>1. Run
  BY DEF Run
<1>2. /\ times \in [Work -> [1 .. Files -> Nat]] /\ StageInv
  BY DEF IInv, TypeOK
<1>3. /\ phase = "iterate" /\ i > modules /\ i' = 1 /\ changed' = 0 /\ again' = FALSE
      /\ phase' \in {"iterate", "final"}
      /\ changed # 0 <=> phase' = "iterate"
      /\ UNCHANGED <<sc, mc, file, modules, plan, stageVars, times, structs, reported>>
  BY DEF EndSweep
<1>4. /\ modules \in Nat /\ i \in Nat /\ i <= modules + 1
  BY <1>1, RunFacts
<1>5. ASSUME AtMissingChecks
      PROVE  IF phase' = "iterate" THEN Counting' ELSE Complete
  <2>1. Collecting \/ Collected \/ Counting \/ Counted
    BY <1>2, <1>3, <1>5 DEF StageInv
  <2>2. CASE Collecting
    <3>1. modules = 0 /\ i = 1 /\ phase' = "final" /\ Upto(collect, i - 1) /\ Upto(count, 0)
      BY <1>3, <1>4, <2>2 DEF Collecting
    <3>2. Complete
      BY <3>1 DEF Complete
    <3> QED
      BY <3>1, <3>2
  <2>3. CASE Collected
    <3>1. phase' = "iterate" /\ AnalysisStage' = 2 /\ MIdx' = i' - 1 /\ i' <= modules' /\ i' - 1 = 0
      BY <1>3, <1>4, <2>3 DEF Collected, stageVars
    <3>2. Upto(collect, modules)' /\ Upto(count, 0)'
      BY <1>3, <2>3 DEF Collected, Upto
    <3>3. Upto(count, i - 1)'
      BY <3>1, <3>2 DEF Upto
    <3> QED
      BY <1>3, <3>1, <3>2, <3>3 DEF Counting
  <2>4. CASE Counting
    BY <1>3, <1>4, <2>4 DEF Counting
  <2>5. CASE Counted
    BY <1>3, <2>5 DEF Counted
  <2> QED
    BY <2>1, <2>2, <2>3, <2>4, <2>5
<1>6. AtMissingChecks' => AtMissingChecks
  BY <1>3 DEF AtMissingChecks
<1>7. i' \in 1 .. modules' + 1 /\ changed' \in Nat
  BY <1>3, <1>4
<1> QED
  BY <1>1, <1>2, <1>3, <1>5, <1>6, <1>7, QuietStep

LEMMA FinalizationIInv == IInv /\ (DoFinalization \/ EndFinalization) => IInv'
<1> SUFFICES ASSUME IInv, DoFinalization \/ EndFinalization PROVE IInv'
  OBVIOUS
<1>1. Run
  BY DEF Run
<1>2. /\ times \in [Work -> [1 .. Files -> Nat]] /\ again \in BOOLEAN /\ changed \in Nat
      /\ plan \in Seq(Step) /\ PlanOK /\ HeadOK /\ TypeOK /\ StageInv
  BY DEF IInv, TypeOK
<1>3. phase = "final" /\ (AtMissingChecks => Complete)
  BY <1>2 DEF DoFinalization, EndFinalization, StageInv
<1>4. CASE DoFinalization
  <2>1. i' \in 1 .. modules' + 1
    BY <1>1, <1>4, RunFacts DEF DoFinalization
  <2>2. again' \in BOOLEAN
    BY <1>2, <1>4, Zenon DEF DoFinalization, FinalReturns
  <2>3. AtMissingChecks' => AtMissingChecks
    BY <1>4 DEF DoFinalization, AtMissingChecks
  <2> QED
    BY <1>1, <1>2, <1>3, <1>4, <2>1, <2>2, <2>3, QuietStep DEF DoFinalization
<1>5. CASE EndFinalization /\ again
  <2>1. i' \in 1 .. modules' + 1
    BY <1>1, <1>5, RunFacts DEF EndFinalization
  <2>2. AtMissingChecks' => AtMissingChecks
    BY <1>5 DEF EndFinalization, AtMissingChecks
  <2> QED
    BY <1>1, <1>2, <1>3, <1>5, <2>1, <2>2, QuietStep DEF EndFinalization
<1>6. CASE EndFinalization /\ ~again
  <2>1. /\ phase' = "main" /\ plan' = Tail(plan) /\ i' = 1 /\ again' = FALSE /\ times' = times
        /\ UNCHANGED <<sc, mc, file, modules, changed, stageVars, structs, reported>>
    BY <1>6 DEF EndFinalization
  <2>2. plan # <<>> /\ Head(plan) \in Pass /\ ~reported /\ modules \in Nat
    BY <1>1, RunFacts
  <2>3. /\ plan' \in Seq(Step) /\ PlanOK'
        /\ \A step : Planned(step)' => Planned(step)
        /\ \A step : Planned(step) /\ step # Head(plan) => Planned(step)'
        /\ Head(plan) = "MissingChecks" => ~Planned("MissingChecks")'
    BY <1>2, <2>1, <2>2, TailOfPlan
  <2>4. TypeOK'
    <3>1. i' \in 1 .. modules' + 1
      BY <2>1, <2>2
    <3> QED
      BY <1>2, <2>1, <2>3, <3>1, Zenon DEF TypeOK, stageVars
  <2>5. HeadOK' /\ ~AtMissingChecks' /\ ~reported' /\ phase' # "load"
    BY <2>1, <2>2 DEF HeadOK, AtMissingChecks
  <2>6. /\ Complete' <=> Complete
        /\ Upto(collect, 0)' <=> Upto(collect, 0)
        /\ Upto(count, 0)' <=> Upto(count, 0)
        /\ Fresh' <=> Fresh
    BY <2>1, SameCounts DEF stageVars
  <2>7. /\ Planned("MissingChecks")' => Fresh
        /\ Planned("processResults")' /\ ~Planned("MissingChecks")' => Complete
        /\ Complete \/ (Upto(collect, 0) /\ Upto(count, 0))
    <3>1. AtMissingChecks <=> Head(plan) = "MissingChecks"
      BY <1>3 DEF AtMissingChecks
    <3> QED
      BY <1>2, <1>3, <2>3, <3>1, Zenon DEF StageInv
  <2>8. StageInv'
    BY <2>5, <2>6, <2>7, Zenon DEF StageInv
  <2> QED
    BY <2>3, <2>4, <2>5, <2>8 DEF IInv
<1> QED
  BY <1>4, <1>5, <1>6

LEMMA NextIInv == IInv /\ [Next]_vars => IInv'
<1> SUFFICES ASSUME IInv, [Next]_vars PROVE IInv'
  OBVIOUS
<1>1. CASE UNCHANGED vars
  <2> USE <1>1 DEF vars, runVars, stageVars
  <2>1. TypeOK' /\ PlanOK' /\ HeadOK'
    BY DEF IInv, TypeOK, PlanOK, HeadOK
  <2>2. StageInv'
    BY DEF IInv, StageInv, AtMissingChecks, Planned, Fresh, Complete, Upto, Collecting, Collected,
           Counting, Counted
  <2> QED
    BY <2>1, <2>2 DEF IInv
<1>2. CASE Main
  BY <1>2, MainIInv
<1>3. CASE Run
  BY <1>3, InitializationIInv, ModulePassIInv, MissingChecksIInv, SweepIInv, FinalizationIInv DEF Run
<1> QED
  BY <1>1, <1>2, <1>3 DEF Next, Done

LEMMA Inductive == Spec => []IInv
  BY InitIInv, NextIInv, PTL DEF Spec

-----------------------------------------------------------------------------
(* Type correctness, for every number of files.                              *)
THEOREM TypeCorrect == Spec => []TypeOK
  BY Inductive, PTL DEF IInv

LEMMA StageBarrierInv == IInv => StageBarrier
<1> SUFFICES ASSUME IInv, NEW m \in Module, NEW n \in Module, times[count][m] > 0
             PROVE  times[collect][n] = 1
  BY DEF StageBarrier, collect, count
<1>1. /\ Files \in Nat /\ modules \in Nat /\ modules <= Files /\ m \in 1 .. Files /\ n \in 1 .. Files
      /\ n <= modules
  BY FilesAssumption DEF IInv, TypeOK, Module
<1>2. ~Upto(count, 0)
  BY <1>1 DEF Upto
<1>3. Complete \/ Counting \/ Counted
  <2>1. ~Fresh /\ ~Collecting /\ ~Collected
    BY <1>2 DEF Fresh, Collecting, Collected
  <2>2. CASE AtMissingChecks
    <3>1. phase \in {"init", "iterate", "final"}
      BY <2>2 DEF AtMissingChecks
    <3> QED
      BY <2>1, <2>2, <3>1 DEF IInv, StageInv
  <2>3. CASE ~AtMissingChecks
    BY <1>2, <2>3 DEF IInv, StageInv
  <2> QED
    BY <2>2, <2>3
<1>4. Upto(collect, modules)
  BY <1>3 DEF Complete, Counting, Counted
<1> QED
  BY <1>1, <1>4 DEF Upto

(* The stage barrier, for every number of files and whichever of them load: no   *)
(* absence of a check is counted before the checks of every module are.          *)
THEOREM StageBarrierHolds == Spec => []StageBarrier
  BY Inductive, StageBarrierInv, PTL

(* The report is about the whole program: every module was through both stages    *)
(* of MissingChecks, each once, however run's loops swept over them.             *)
THEOREM ReportCompleteHolds == Spec => []ReportComplete
<1>1. IInv => ReportComplete
  <2> SUFFICES ASSUME IInv, reported, NEW m \in Module
               PROVE  times[collect][m] = 1 /\ times[count][m] = 1
    BY DEF ReportComplete, collect, count
  <2>1. m \in 1 .. Files /\ m <= modules
    BY FilesAssumption DEF IInv, TypeOK, Module
  <2>2. Complete
    BY DEF IInv, StageInv
  <2> QED
    BY <2>1, <2>2 DEF Complete, Upto
<1> QED
  BY <1>1, Inductive, PTL

-----------------------------------------------------------------------------
(* The refinement of CrossCheck.  DoneFor(w) is the abstract set of the       *)
(* modules that work w has been done for.                                    *)
DoneFor(w) == {m \in Module : times[w][m] > 0}

LEMMA DoneUpto ==
  ASSUME Files \in Nat, modules \in Nat, modules <= Files,
         NEW w, NEW d \in Nat, d <= modules, Upto(w, d)
  PROVE  DoneFor(w) = 1 .. d
<1>1. ASSUME NEW m \in Module PROVE times[w][m] > 0 <=> m <= d
  <2>1. m \in 1 .. Files
    BY DEF Module
  <2> QED
    BY <2>1 DEF Upto, Module
<1> QED
  BY <1>1 DEF DoneFor, Module

LEMMA SameDone ==
  ASSUME modules' = modules, times'[collect] = times[collect], times'[count] = times[count]
  PROVE  DoneFor(collect)' = DoneFor(collect) /\ DoneFor(count)' = DoneFor(count)
  BY DEF DoneFor, Module

(* The initial states are initial states of CrossCheck.                      *)
LEMMA InitRefines == Init => Abstract!Init
  BY DEF Init, Abstract!Init, Module

(* A step of the program is a step of CrossCheck or leaves its state alone.    *)
LEMMA NextRefines == IInv /\ [Next]_vars => [Abstract!Next]_(Abstract!vars)
<1> SUFFICES ASSUME IInv, [Next]_vars PROVE [Abstract!Next]_(Abstract!vars)
  OBVIOUS
<1>1. /\ Files \in Nat /\ modules \in Nat /\ modules <= Files /\ file \in Nat /\ modules < file
      /\ file <= Files + 1 /\ i \in Nat
      /\ times \in [Work -> [1 .. Files -> Nat]]
  BY FilesAssumption DEF IInv, TypeOK
<1>2. ASSUME modules' = modules, reported' = reported,
             times'[collect] = times[collect], times'[count] = times[count]
      PROVE  UNCHANGED Abstract!vars
  BY <1>2, SameDone DEF Abstract!vars, DoneFor, collect, count
<1>3. CASE LoadFile
  <2>1. Fresh /\ ~reported
    BY <1>3 DEF LoadFile, IInv, StageInv, HeadOK
  <2>2. DoneFor(collect) = 1 .. 0 /\ DoneFor(count) = 1 .. 0
    BY <1>1, <2>1, DoneUpto DEF Fresh
  <2>3. /\ file <= Files /\ modules' \in {modules, modules + 1}
        /\ times' = times /\ reported' = reported
    BY <1>3 DEF LoadFile
  <2>4. CASE modules' = modules
    BY <1>2, <2>3, <2>4
  <2>5. CASE modules' = modules + 1
    <3>1. Upto(collect, 0)' /\ Upto(count, 0)'
      BY <2>1, <2>3 DEF Fresh, Upto
    <3>2. modules' \in Nat /\ modules' <= Files /\ modules < Files
      BY <1>1, <2>3, <2>5
    <3>3. \A m \in 1 .. modules' : m \in 1 .. Files
      BY <1>1, <3>2
    <3>4. DoneFor(collect)' = {} /\ DoneFor(count)' = {}
      BY <3>1, <3>3 DEF DoneFor, Upto, Module
    <3>5. DoneFor(collect) = {} /\ DoneFor(count) = {}
      BY <2>2
    <3> QED
      BY <2>1, <2>3, <2>5, <3>2, <3>4, <3>5
      DEF Abstract!Next, Abstract!Load, DoneFor, collect, count
  <2> QED
    BY <2>3, <2>4, <2>5
<1>4. CASE ProcessResults
  <2>1. /\ plan # <<>> /\ Head(plan) = "processResults" /\ phase = "main"
        /\ reported' = TRUE /\ modules' = modules /\ times' = times
    BY <1>4 DEF ProcessResults
  <2>2. ~reported /\ Planned("processResults") /\ ~Planned("MissingChecks")
    <3>1. plan' = Tail(plan) /\ plan \in Seq(Step) /\ PlanOK
      BY <1>4 DEF ProcessResults, IInv, TypeOK
    <3>2. ~Planned("MissingChecks")
      BY <2>1, <3>1, TailOfPlan
    <3>3. Planned("processResults")
      BY <2>1, <3>1, LenProperties, EmptySeq DEF Planned
    <3> QED
      BY <2>1, <3>2, <3>3 DEF IInv, StageInv
  <2>3. Complete
    BY <2>2 DEF IInv, StageInv
  <2>4. DoneFor(collect) = 1 .. modules /\ DoneFor(count) = 1 .. modules
    BY <1>1, <2>3, DoneUpto DEF Complete
  <2>5. DoneFor(collect)' = DoneFor(collect) /\ DoneFor(count)' = DoneFor(count)
    BY <2>1, SameDone
  <2> QED
    BY <2>1, <2>2, <2>4, <2>5 DEF Abstract!Next, Abstract!Report, DoneFor, collect, count
<1>5. CASE DoMissingChecks
  <2>1. /\ AtMissingChecks /\ phase = "iterate" /\ i <= modules /\ modules' = modules
        /\ times' = Did(ModuleWork("MissingChecks")) /\ reported' = reported /\ i' = i + 1
    BY <1>5 DEF DoMissingChecks, AtMissingChecks
  <2>2. ~reported /\ i >= 1
    BY <1>5, RunFacts DEF Run
  <2>3. i \in 1 .. Files /\ i - 1 \in Nat
    BY <1>1, <2>1, <2>2
  <2>4. /\ \A w \in Work : w \notin ModuleWork("MissingChecks") => times'[w] = times[w]
        /\ \A w \in Work : w \in ModuleWork("MissingChecks") /\ Upto(w, i - 1) =>
             \A m \in 1 .. Files : times'[w][m] = IF m <= i THEN 1 ELSE 0
    BY <1>1, <2>1, <2>3, DidCounts
  <2>5. collect \in Work /\ count \in Work /\ collect # count
    BY DEF Work, collect, count
  <2>6. Collecting \/ Collected \/ Counting \/ Counted
    BY <2>1 DEF IInv, StageInv
  <2>7. ASSUME NEW w \in Work, w \in ModuleWork("MissingChecks"), Upto(w, i - 1)
        PROVE  DoneFor(w) = 1 .. i - 1 /\ DoneFor(w)' = 1 .. i
    <3>1. DoneFor(w) = 1 .. i - 1
      BY <1>1, <2>1, <2>3, <2>7, DoneUpto
    <3>2. \A m \in 1 .. Files : times'[w][m] = IF m <= i THEN 1 ELSE 0
      BY <2>4, <2>7
    <3>3. DoneFor(w)' = 1 .. i
      BY <1>1, <2>1, <2>3, <3>2, SMTT(30) DEF DoneFor, Module
    <3> QED
      BY <3>1, <3>3
  <2>8. 1 .. i = (1 .. i - 1) \cup {i} /\ i \notin 1 .. i - 1 /\ i \in 1 .. modules
    BY <1>1, <2>1, <2>2
  <2>9. CASE Collecting
    <3>1. ModuleWork("MissingChecks") = {collect}
      BY <2>9 DEF Collecting, ModuleWork, collect
    <3>2. DoneFor(collect)' = DoneFor(collect) \cup {i} /\ i \in (1 .. modules) \ DoneFor(collect)
      BY <2>5, <2>7, <2>8, <2>9, <3>1 DEF Collecting
    <3>3. DoneFor(count) = 1 .. 0
      BY <1>1, <2>9, DoneUpto DEF Collecting
    <3>4. DoneFor(count)' = DoneFor(count) /\ DoneFor(count) = {}
      BY <2>1, <2>4, <2>5, <3>1, <3>3 DEF DoneFor, Module
    <3> QED
      BY <2>1, <2>2, <3>2, <3>4 DEF Abstract!Next, Abstract!Collect, DoneFor, collect, count
  <2>10. CASE Counting
    <3>1. ModuleWork("MissingChecks") = {count}
      BY <2>10 DEF Counting, ModuleWork, count
    <3>2. DoneFor(count)' = DoneFor(count) \cup {i} /\ i \in (1 .. modules) \ DoneFor(count)
      BY <2>5, <2>7, <2>8, <2>10, <3>1 DEF Counting
    <3>3. DoneFor(collect) = 1 .. modules
      BY <1>1, <2>10, DoneUpto DEF Counting
    <3>4. DoneFor(collect)' = DoneFor(collect)
      BY <2>1, <2>4, <2>5, <3>1 DEF DoneFor, Module
    <3> QED
      BY <2>1, <2>2, <3>2, <3>3, <3>4 DEF Abstract!Next, Abstract!Count, DoneFor, collect, count
  <2>11. ~Collected /\ ~Counted
    BY <1>1, <2>1 DEF Collected, Counted
  <2> QED
    BY <2>6, <2>9, <2>10, <2>11
<1>6. CASE DoInitialization
  <2>1. i \in 1 .. Files
    BY <1>1, <1>6, RunFacts DEF Run, DoInitialization
  <2>2. times'[collect] = times[collect] /\ times'[count] = times[count]
    BY <1>1, <1>6, <2>1, DidCounts DEF DoInitialization, InitWork, Work, collect, count
  <2> QED
    BY <1>2, <1>6, <2>2 DEF DoInitialization
<1>7. CASE DoModulePass
  <2>1. i \in 1 .. Files
    BY <1>1, <1>7, RunFacts DEF Run, DoModulePass
  <2>2. times'[collect] = times[collect] /\ times'[count] = times[count]
    BY <1>1, <1>7, <2>1, DidCounts DEF DoModulePass, ModuleWork, Work, collect, count
  <2> QED
    BY <1>2, <1>7, <2>2 DEF DoModulePass
<1>8. CASE \/ EndLoad \/ BuildTypeStructMap \/ StartPass \/ EndMain \/ EndInitialization
           \/ EndSweep \/ DoFinalization \/ EndFinalization \/ UNCHANGED vars
  <2>1. modules' = modules /\ reported' = reported /\ times' = times
    BY <1>8 DEF EndLoad, BuildTypeStructMap, StartPass, EndMain, EndInitialization,
                EndSweep, DoFinalization, EndFinalization, vars
  <2> QED
    BY <1>2, <2>1
<1> QED
  BY <1>3, <1>4, <1>5, <1>6, <1>7, <1>8 DEF Next, Main, Run, Done

(* The passes and their sweeps implement collect, then count, then report, for    *)
(* every number of files.                                                    *)
THEOREM Refinement == Spec => ImplementsCrossCheck
  BY Inductive, InitRefines, NextRefines, PTL DEF Spec, ImplementsCrossCheck, Abstract!Spec

-----------------------------------------------------------------------------
(* The whole-program tables.  <<step, table, provider>>: step reads the table,   *)
(* which provider fills.                                                      *)
Needs ==
  {<<"CallGraph", "types", "TypeInitializer">>, <<"CallGraph", "structs", "BuildTypeStructMap">>,
   <<"SecurityChecks", "calls", "CallGraph">>, <<"MissingChecks", "calls", "CallGraph">>,
   <<"MissingChecks", "aliases", "PointerAnalysis">>,
   <<"MissingChecks", "checks", "SecurityChecks">>}

Everywhere(w) == \A m \in Module : times[w][m] > 0
Has(table) == IF table = "structs" THEN structs ELSE Everywhere(table)

Before(step, k) == \E j \in 1 .. k - 1 : plan[j] = step

(* What a step reads is there, or its provider comes first.                     *)
OrderOK ==
  \A need \in Needs : \A k \in 1 .. Len(plan) :
    plan[k] = need[1] => Before(need[3], k) \/ (phase # "load" /\ Has(need[2]))

(* What doModulePass of a pass other than MissingChecks does.                   *)
PassWork(pass) ==
  CASE pass = "CallGraph"       -> {"calls"}
    [] pass = "PointerAnalysis" -> {"aliases"}
    [] pass = "SecurityChecks"  -> {"checks"}
    [] OTHER                    -> {}

Past(w) == \A m \in 1 .. i - 1 : times[w][m] > 0

LoopInv ==
  /\ phase = "init" => \A w \in InitWork(Head(plan)) : Past(w)
  /\ phase \in {"iterate", "final"} => \A w \in InitWork(Head(plan)) : Everywhere(w)
  /\ phase = "iterate" => \A w \in PassWork(Head(plan)) : Past(w)
  /\ phase = "final" => \A w \in PassWork(Head(plan)) : Everywhere(w)

NoneLoaded == phase = "load" => \A w \in Work : \A m \in 1 .. Files : times[w][m] = 0

TablesInv == OrderOK /\ LoopInv /\ NoneLoaded /\ TablesComplete

(* Every plan has its providers before those who read.                         *)
LEMMA PlanOrder ==
  ASSUME NEW a \in BOOLEAN, NEW b \in BOOLEAN, NEW need \in Needs,
         NEW k \in 1 .. Len(Plan(a, b)), Plan(a, b)[k] = need[1]
  PROVE  \E j \in 1 .. k - 1 : Plan(a, b)[j] = need[3]
<1> DEFINE common == <<"TypeInitializer", "BuildTypeStructMap", "CallGraph">>
           check == IF a THEN <<"SecurityChecks">> ELSE <<>>
           missing == IF b THEN <<"PointerAnalysis", "SecurityChecks", "MissingChecks", "processResults">>
                           ELSE <<>>
           start == common \o check
           p == Plan(a, b)
<1>1. common \in Seq(Step) /\ check \in Seq(Step) /\ missing \in Seq(Step)
  <2>1. /\ common \in Seq(Step) /\ <<"SecurityChecks">> \in Seq(Step) /\ <<>> \in Seq(Step)
        /\ <<"PointerAnalysis", "SecurityChecks", "MissingChecks", "processResults">> \in Seq(Step)
    BY DEF Step, Pass
  <2> QED
    BY <2>1, Zenon
<1>2. /\ Len(common) = 3 /\ common[1] = "TypeInitializer" /\ common[2] = "BuildTypeStructMap"
      /\ common[3] = "CallGraph"
  OBVIOUS
<1>3. Len(check) \in Nat /\ \A l \in 1 .. Len(check) : check[l] = "SecurityChecks"
  OBVIOUS
<1>4. Len(missing) \in Nat
  BY <1>1, LenProperties
<1>5. \/ Len(missing) = 0
      \/ /\ Len(missing) = 4
         /\ missing[1] = "PointerAnalysis" /\ missing[2] = "SecurityChecks"
         /\ missing[3] = "MissingChecks" /\ missing[4] = "processResults"
  <2>1. b => missing = <<"PointerAnalysis", "SecurityChecks", "MissingChecks", "processResults">>
    OBVIOUS
  <2>2. ~b => missing = <<>>
    OBVIOUS
  <2> HIDE DEF missing
  <2> QED
    BY <2>1, <2>2
<1>6. p = start \o missing
  BY DEF Plan
<1> HIDE DEF common, check, missing
<1>7. /\ start \in Seq(Step) /\ Len(start) = 3 + Len(check)
      /\ \A l \in 1 .. 3 + Len(check) : start[l] = IF l <= 3 THEN common[l] ELSE check[l - 3]
  <2>1. /\ start \in Seq(Step) /\ Len(start) = Len(common) + Len(check)
        /\ \A l \in 1 .. Len(common) + Len(check) :
             start[l] = IF l <= Len(common) THEN common[l] ELSE check[l - Len(common)]
    BY <1>1, ConcatProperties
  <2> HIDE DEF start
  <2> QED
    BY <1>2, <2>1
<1> HIDE DEF start
<1> DEFINE s == 3 + Len(check)
<1>8. /\ Len(p) = s + Len(missing)
      /\ \A l \in 1 .. s + Len(missing) : p[l] = IF l <= s THEN start[l] ELSE missing[l - s]
  <2>1. /\ Len(start \o missing) = Len(start) + Len(missing)
        /\ \A l \in 1 .. Len(start) + Len(missing) :
             (start \o missing)[l] = IF l <= Len(start) THEN start[l] ELSE missing[l - Len(start)]
    BY <1>1, <1>7, ConcatProperties
  <2>2. Len(start) = s
    BY <1>7
  <2> HIDE DEF p, s
  <2> QED
    BY <1>6, <2>1, <2>2
<1> HIDE DEF p
<1>9. /\ p[1] = "TypeInitializer" /\ p[2] = "BuildTypeStructMap" /\ p[3] = "CallGraph"
      /\ \A l \in 4 .. s : p[l] = "SecurityChecks"
  <2>1. p[1] = common[1] /\ p[2] = common[2] /\ p[3] = common[3]
    BY <1>3, <1>4, <1>7, <1>8
  <2>2. ASSUME NEW l \in 4 .. s
        PROVE  p[l] = check[l - 3] /\ l - 3 \in 1 .. Len(check)
    BY <1>3, <1>4, <1>7, <1>8
  <2> QED
    BY <1>2, <1>3, <2>1, <2>2
<1>10. Len(missing) = 4 =>
         /\ p[s + 1] = "PointerAnalysis" /\ p[s + 2] = "SecurityChecks"
         /\ p[s + 3] = "MissingChecks" /\ p[s + 4] = "processResults"
  <2> SUFFICES ASSUME Len(missing) = 4
               PROVE  /\ p[s + 1] = "PointerAnalysis" /\ p[s + 2] = "SecurityChecks"
                      /\ p[s + 3] = "MissingChecks" /\ p[s + 4] = "processResults"
    OBVIOUS
  <2>1. ASSUME NEW l \in 1 .. 4
        PROVE  p[s + l] = missing[l]
    <3>1. s \in Nat
      BY <1>3
    <3> HIDE DEF s
    <3>2. s + l \in 1 .. s + Len(missing) /\ ~(s + l <= s) /\ (s + l) - s = l
      BY <3>1
    <3>3. p[s + l] = missing[(s + l) - s]
      BY <1>8, <3>2
    <3> QED
      BY <3>2, <3>3
  <2> QED
    BY <1>5, <2>1
<1>11. k \in 1 .. s + Len(missing) /\ p[k] = need[1] /\ s \in Nat /\ s >= 3
  BY <1>3, <1>8 DEF p
<1> SUFFICES \E j \in 1 .. k - 1 : p[j] = need[3]
  BY DEF p
<1> HIDE DEF s
<1>12. CASE need[1] = "CallGraph"
  <2>1. need[3] \in {"TypeInitializer", "BuildTypeStructMap"}
    BY <1>12 DEF Needs
  <2>2. k # 1 /\ k # 2
    BY <1>9, <1>11, <1>12
  <2> QED
    BY <1>9, <1>11, <2>1, <2>2
<1>13. CASE need[1] = "SecurityChecks"
  <2>1. need[3] = "CallGraph"
    BY <1>13 DEF Needs
  <2>2. k # 1 /\ k # 2 /\ k # 3
    BY <1>9, <1>11, <1>13
  <2> QED
    BY <1>9, <1>11, <2>1, <2>2
<1>14. CASE need[1] = "MissingChecks"
  <2>1. need[3] \in {"CallGraph", "PointerAnalysis", "SecurityChecks"}
    BY <1>14 DEF Needs
  <2>2. k # 1 /\ k # 2 /\ k # 3 /\ k \notin 4 .. s
    BY <1>9, <1>11, <1>14
  <2>3. Len(missing) = 4
    BY <1>5, <1>11, <2>2
  <2>4. k # s + 1 /\ k # s + 2
    BY <1>10, <1>11, <1>14, <2>3
  <2>5. k > s + 2
    BY <1>11, <2>2, <2>4
  <2> QED
    BY <1>9, <1>10, <1>11, <2>1, <2>3, <2>5
<1> QED
  BY <1>12, <1>13, <1>14 DEF Needs

(* A visit adds to the counts of its work and to no others.                    *)
LEMMA DidGrows ==
  ASSUME times \in [Work -> [1 .. Files -> Nat]], i \in 1 .. Files, NEW works, times' = Did(works)
  PROVE  /\ \A w \in Work : \A m \in 1 .. Files : times[w][m] > 0 => times'[w][m] > 0
         /\ \A w \in Work : w \in works => times'[w][i] > 0
         /\ \A w \in Work : w \notin works => times'[w] = times[w]
<1>1. \A w \in Work : times'[w] = IF w \in works THEN [times[w] EXCEPT ![i] = @ + 1] ELSE times[w]
  BY DEF Did
<1>2. ASSUME NEW w \in Work, w \in works, NEW m \in 1 .. Files
      PROVE  /\ times[w][m] \in Nat
             /\ times'[w][m] = IF m = i THEN times[w][m] + 1 ELSE times[w][m]
  BY <1>1, <1>2
<1>3. ASSUME NEW w \in Work, NEW m \in 1 .. Files, times[w][m] > 0
      PROVE  times'[w][m] > 0
  <2>1. CASE w \in works
    BY <1>2, <1>3, <2>1
  <2>2. CASE w \notin works
    BY <1>1, <1>3, <2>2
  <2> QED
    BY <2>1, <2>2
<1>4. ASSUME NEW w \in Work, w \in works
      PROVE  times'[w][i] > 0
  <2>1. times[w][i] \in Nat /\ times'[w][i] = times[w][i] + 1
    BY <1>2, <1>4
  <2> QED
    BY <2>1
<1>5. \A w \in Work : w \notin works => times'[w] = times[w]
  BY <1>1
<1> QED
  BY <1>3, <1>4, <1>5

(* Tables only grow, and the modules are all loaded.                           *)
Grows ==
  /\ phase # "load" /\ phase' # "load" /\ modules' = modules
  /\ structs => structs'
  /\ \A w \in Work : \A m \in 1 .. Files : times[w][m] > 0 => times'[w][m] > 0

LEMMA WorkNames ==
  /\ \A need \in Needs : need[2] # "structs" => need[2] \in Work
  /\ \A r \in Reads : r[1] \in Work /\ r[2] \in Work
  /\ \A pass : InitWork(pass) \subseteq Work /\ PassWork(pass) \subseteq Work
<1>1. \A need \in Needs : need[2] # "structs" => need[2] \in Work
  BY DEF Needs, Work
<1>2. \A r \in Reads : r[1] \in Work /\ r[2] \in Work
  BY DEF Reads, Work
<1>3. \A pass : InitWork(pass) \subseteq Work /\ PassWork(pass) \subseteq Work
  BY DEF InitWork, PassWork, Work
<1> QED
  BY <1>1, <1>2, <1>3

LEMMA HasKept ==
  ASSUME IInv, Grows
  PROVE  /\ \A w \in Work : Everywhere(w) => Everywhere(w)'
         /\ \A need \in Needs : Has(need[2]) => Has(need[2])'
<1>1. \A m \in Module : m \in 1 .. Files
  BY FilesAssumption DEF IInv, TypeOK, Module
<1>2. \A w \in Work : Everywhere(w) => Everywhere(w)'
  BY <1>1 DEF Grows, Everywhere, Module
<1> QED
  BY <1>2, WorkNames DEF Grows, Has

LEMMA SamePlanOrder ==
  ASSUME IInv, Grows, OrderOK, plan' = plan
  PROVE  OrderOK'
<1>1. \A need \in Needs : Has(need[2]) => Has(need[2])'
  BY HasKept
<1> QED
  BY <1>1 DEF OrderOK, Before, Grows

(* The head of the plan is done, and what it provides is there.                *)
LEMMA TailOrder ==
  ASSUME IInv, Grows, OrderOK, plan # <<>>, plan' = Tail(plan),
         \A need \in Needs : need[3] = Head(plan) => Has(need[2])'
  PROVE  OrderOK'
<1>1. \A need \in Needs : Has(need[2]) => Has(need[2])'
  BY HasKept
<1>2. /\ Len(plan) \in Nat /\ Len(plan) > 0 /\ Len(plan') = Len(plan) - 1
      /\ \A k \in 1 .. Len(plan) - 1 : plan'[k] = plan[k + 1]
      /\ Head(plan) = plan[1]
  BY HeadTailProperties, LenProperties, EmptySeq DEF IInv, TypeOK
<1>3. ASSUME NEW need \in Needs, NEW k \in 1 .. Len(plan'), plan'[k] = need[1]
      PROVE  Before(need[3], k)' \/ Has(need[2])'
  <2>1. k + 1 \in 1 .. Len(plan) /\ plan[k + 1] = need[1]
    BY <1>2, <1>3
  <2>2. Before(need[3], k + 1) \/ Has(need[2])
    BY <2>1 DEF OrderOK
  <2>3. CASE Before(need[3], k + 1)
    <3>1. PICK j \in 1 .. k : plan[j] = need[3]
      BY <1>2, <2>3 DEF Before
    <3>2. CASE j = 1
      BY <1>2, <3>1, <3>2
    <3>3. CASE j # 1
      <4>1. j - 1 \in 1 .. k - 1 /\ plan'[j - 1] = need[3]
        BY <1>2, <3>1, <3>3
      <4> QED
        BY <4>1 DEF Before
    <3> QED
      BY <3>2, <3>3
  <2>4. CASE Has(need[2])
    BY <1>1, <2>4
  <2> QED
    BY <2>2, <2>3, <2>4
<1> QED
  BY <1>3 DEF OrderOK, Grows

(* What the step at the head of the plan reads is there.                       *)
LEMMA HeadHas ==
  ASSUME IInv, OrderOK, plan # <<>>, phase # "load"
  PROVE  \A need \in Needs : need[1] = Head(plan) => Has(need[2])
<1>1. Len(plan) \in Nat /\ Len(plan) > 0 /\ Head(plan) = plan[1]
  BY HeadTailProperties, LenProperties, EmptySeq DEF IInv, TypeOK
<1>2. 1 \in 1 .. Len(plan) /\ \A step : ~Before(step, 1)
  BY <1>1 DEF Before
<1> QED
  BY <1>1, <1>2 DEF OrderOK

(* Steps that count nothing leave the tables as they are.                       *)
LEMMA TablesKept ==
  ASSUME TablesComplete, UNCHANGED <<modules, times>>, structs => structs'
  PROVE  TablesComplete'
  BY DEF TablesComplete, Module

LEMMA InitTables == Init => TablesInv
<1> SUFFICES ASSUME Init
             PROVE  TablesInv
  OBVIOUS
<1>1. OrderOK
  BY PlanOrder DEF Init, OrderOK, Before
<1>2. NoneLoaded /\ LoopInv /\ Module = {}
  BY DEF Init, NoneLoaded, LoopInv, Module
<1>3. TablesComplete
  BY <1>2 DEF TablesComplete
<1> QED
  BY <1>1, <1>2, <1>3 DEF TablesInv

LEMMA MainTables ==
  ASSUME IInv, TablesInv, Main
  PROVE  TablesInv'
<1>1. OrderOK /\ LoopInv /\ NoneLoaded /\ TablesComplete
  BY DEF TablesInv
<1>2. CASE LoadFile
  <2>1. /\ phase = "load" /\ phase' = "load" /\ UNCHANGED <<plan, times, structs>>
        /\ modules' \in {modules, modules + 1} /\ file <= Files
    BY <1>2 DEF LoadFile, runVars
  <2>2. \A w \in Work : \A m \in 1 .. Files : times'[w][m] = 0
    BY <1>1, <2>1 DEF NoneLoaded
  <2>3. \A m \in Module' : m \in 1 .. Files
    BY <2>1, FilesAssumption DEF IInv, TypeOK, Module
  <2>4. "functions" \in Work
    BY DEF Work
  <2>5. TablesComplete'
    <3>1. \A w \in Work : \A m \in Module' : ~(times'[w][m] > 0)
      BY <2>2, <2>3
    <3> QED
      BY <2>4, <3>1, WorkNames DEF TablesComplete, Reads
  <2>6. OrderOK'
    BY <1>1, <2>1 DEF OrderOK, Before
  <2> QED
    BY <2>1, <2>2, <2>5, <2>6 DEF TablesInv, NoneLoaded, LoopInv
<1>3. CASE EndLoad
  <2>1. phase = "load" /\ phase' = "main" /\ UNCHANGED <<modules, plan, times, structs>>
    BY <1>3 DEF EndLoad
  <2>2. OrderOK'
    BY <1>1, <2>1 DEF OrderOK, Before
  <2> QED
    BY <1>1, <2>1, <2>2, TablesKept DEF TablesInv, NoneLoaded, LoopInv
<1>4. CASE BuildTypeStructMap
  <2>1. /\ phase = "main" /\ phase' = "main" /\ Head(plan) = "BuildTypeStructMap" /\ plan # <<>>
        /\ plan' = Tail(plan) /\ structs' = TRUE /\ UNCHANGED <<modules, times>>
    BY <1>4 DEF BuildTypeStructMap, runVars
  <2>2. Grows
    BY <2>1 DEF Grows
  <2>3. \A need \in Needs : need[3] = Head(plan) => Has(need[2])'
    BY <2>1 DEF Needs, Has
  <2>4. OrderOK'
    BY <1>1, <2>1, <2>2, <2>3, TailOrder
  <2> QED
    BY <1>1, <2>1, <2>4, TablesKept DEF TablesInv, NoneLoaded, LoopInv
<1>5. CASE ProcessResults
  <2>1. /\ phase = "main" /\ phase' = "main" /\ Head(plan) = "processResults" /\ plan # <<>>
        /\ plan' = Tail(plan) /\ UNCHANGED <<modules, times, structs>>
    BY <1>5 DEF ProcessResults, runVars
  <2>2. Grows
    BY <2>1 DEF Grows
  <2>3. \A need \in Needs : need[3] # Head(plan)
    BY <2>1 DEF Needs
  <2>4. OrderOK'
    BY <1>1, <2>1, <2>2, <2>3, TailOrder
  <2> QED
    BY <1>1, <2>1, <2>4, TablesKept DEF TablesInv, NoneLoaded, LoopInv
<1>6. CASE StartPass \/ EndMain
  <2>1. /\ phase = "main" /\ UNCHANGED <<modules, plan, times, structs>>
        /\ (phase' = "init" /\ i' = 1) \/ phase' = "done"
    BY <1>6 DEF StartPass, EndMain
  <2>2. Grows
    BY <2>1 DEF Grows
  <2>3. OrderOK'
    BY <1>1, <2>1, <2>2, SamePlanOrder
  <2>4. LoopInv'
    <3>1. i' = 1 => \A w : Past(w)'
      BY DEF Past
    <3> QED
      BY <2>1, <3>1 DEF LoopInv
  <2> QED
    BY <1>1, <2>1, <2>3, <2>4, TablesKept DEF TablesInv, NoneLoaded
<1> QED
  BY <1>2, <1>3, <1>4, <1>5, <1>6 DEF Main

(* A visit of a module, for work that reads tables that are there.              *)
LEMMA VisitTables ==
  ASSUME IInv, TablesInv, Run, NEW works, times' = Did(works), i <= modules,
         UNCHANGED <<modules, structs>>,
         \A r \in Reads : r[1] \in works => Everywhere(r[2]),
         "functions" \in works => structs
  PROVE  /\ TablesComplete'
         /\ phase' # "load" => Grows
         /\ \A w \in Work : Past(w) /\ w \in works /\ i' = i + 1 => Past(w)'
<1>1. /\ phase # "load" /\ Files \in Nat /\ modules \in Nat /\ modules <= Files
      /\ i \in Nat /\ 1 <= i /\ i \in 1 .. Files
      /\ times \in [Work -> [1 .. Files -> Nat]]
  BY RunFacts DEF IInv, TypeOK
<1>2. /\ \A w \in Work : \A m \in 1 .. Files : times[w][m] > 0 => times'[w][m] > 0
      /\ \A w \in Work : w \in works => times'[w][i] > 0
      /\ \A w \in Work : w \notin works => times'[w] = times[w]
  BY <1>1, DidGrows
<1>3. \A m \in Module : m \in 1 .. Files
  BY <1>1 DEF Module
<1>4. ASSUME NEW r \in Reads, NEW m \in Module, NEW n \in Module, times'[r[1]][m] > 0
      PROVE  times'[r[2]][n] > 0
  <2>1. r[1] \in Work /\ r[2] \in Work
    BY WorkNames
  <2>2. times[r[2]][n] > 0
    <3>1. CASE r[1] \in works
      BY <3>1 DEF Everywhere
    <3>2. CASE r[1] \notin works
      BY <1>2, <1>4, <2>1, <3>2 DEF TablesInv, TablesComplete
    <3> QED
      BY <3>1, <3>2
  <2> QED
    BY <1>2, <1>3, <2>1, <2>2
<1>5. ASSUME NEW m \in Module, times'["functions"][m] > 0
      PROVE  structs
  <2>1. "functions" \in Work
    BY DEF Work
  <2> QED
    BY <1>2, <1>5, <2>1 DEF TablesInv, TablesComplete
<1>6. TablesComplete'
  BY <1>4, <1>5 DEF TablesComplete, Module
<1>7. ASSUME NEW w \in Work, Past(w), w \in works, i' = i + 1
      PROVE  Past(w)'
  <2>1. ASSUME NEW m \in 1 .. i' - 1
        PROVE  m \in 1 .. Files /\ (m = i \/ m \in 1 .. i - 1)
    BY <1>1, <1>7
  <2> QED
    BY <1>2, <1>7, <2>1 DEF Past
<1> QED
  BY <1>1, <1>2, <1>6, <1>7 DEF Grows

LEMMA PastAll ==
  ASSUME IInv, NEW w, Past(w), i > modules
  PROVE  Everywhere(w)
<1>1. \A m \in Module : m \in 1 .. i - 1
  BY FilesAssumption DEF IInv, TypeOK, Module
<1> QED
  BY <1>1 DEF Past, Everywhere

LEMMA RunTables ==
  ASSUME IInv, TablesInv, Run
  PROVE  TablesInv'
<1> DEFINE h == Head(plan)
<1>1. /\ OrderOK /\ LoopInv /\ TablesComplete /\ phase # "load" /\ plan # <<>> /\ h \in Pass
      /\ \A need \in Needs : need[1] = h => Has(need[2])
  BY RunFacts, HeadHas DEF TablesInv
<1>2. InitWork(h) \subseteq Work /\ PassWork(h) \subseteq Work
  BY WorkNames
<1>3. CASE DoInitialization
  <2>1. /\ phase = "init" /\ phase' = "init" /\ i <= modules /\ i' = i + 1
        /\ times' = Did(InitWork(h)) /\ UNCHANGED <<modules, plan, structs>>
    BY <1>3 DEF DoInitialization
  <2>2. \A r \in Reads : r[1] \notin InitWork(h)
    BY DEF Reads, InitWork
  <2>3. "functions" \in InitWork(h) => structs
    <3>1. "functions" \in InitWork(h) => h = "CallGraph"
      BY DEF InitWork
    <3>2. <<"CallGraph", "structs", "BuildTypeStructMap">> \in Needs
      BY DEF Needs
    <3>3. h = "CallGraph" => Has("structs")
      BY <1>1, <3>2
    <3> QED
      BY <3>1, <3>3 DEF Has
  <2>4. TablesComplete' /\ Grows /\ \A w \in InitWork(h) : Past(w)'
    BY <1>1, <1>2, <2>1, <2>2, <2>3, VisitTables DEF LoopInv
  <2>5. OrderOK'
    BY <1>1, <2>1, <2>4, SamePlanOrder
  <2> QED
    BY <2>1, <2>4, <2>5 DEF TablesInv, LoopInv, NoneLoaded
<1>4. CASE DoModulePass
  <2>1. /\ phase = "iterate" /\ phase' = "iterate" /\ i <= modules /\ i' = i + 1
        /\ h # "MissingChecks" /\ times' = Did(ModuleWork(h)) /\ UNCHANGED <<modules, plan, structs>>
    BY <1>4 DEF DoModulePass
  <2>2. ModuleWork(h) = PassWork(h)
    BY <2>1 DEF ModuleWork, PassWork
  <2>3. ASSUME NEW r \in Reads, r[1] \in PassWork(h)
        PROVE  Everywhere(r[2])
    <3>1. \/ h = "CallGraph" /\ r \in {<<"calls", "functions">>, <<"calls", "types">>}
          \/ h = "SecurityChecks" /\ r = <<"checks", "calls">>
      BY <2>3 DEF Reads, PassWork
    <3>2. h = "CallGraph" => Everywhere("functions")
      BY <1>1, <2>1 DEF LoopInv, InitWork
    <3>3. h = "CallGraph" => Has("types")
      <4>1. <<"CallGraph", "types", "TypeInitializer">> \in Needs
        BY DEF Needs
      <4> QED
        BY <1>1, <4>1
    <3>4. h = "SecurityChecks" => Has("calls")
      <4>1. <<"SecurityChecks", "calls", "CallGraph">> \in Needs
        BY DEF Needs
      <4> QED
        BY <1>1, <4>1
    <3> QED
      BY <3>1, <3>2, <3>3, <3>4 DEF Has
  <2>4. "functions" \notin PassWork(h)
    BY DEF PassWork
  <2>5. TablesComplete' /\ Grows /\ \A w \in PassWork(h) : Past(w)'
    BY <1>1, <1>2, <2>1, <2>2, <2>3, <2>4, VisitTables DEF LoopInv
  <2>6. \A w \in InitWork(h) : Everywhere(w)'
    BY <1>1, <1>2, <2>1, <2>5, HasKept DEF LoopInv
  <2>7. OrderOK'
    BY <1>1, <2>1, <2>5, SamePlanOrder
  <2> QED
    BY <2>1, <2>5, <2>6, <2>7 DEF TablesInv, LoopInv, NoneLoaded
<1>5. CASE DoMissingChecks
  <2> DEFINE works == ModuleWork("MissingChecks")
  <2>1. /\ phase = "iterate" /\ phase' = "iterate" /\ i <= modules
        /\ h = "MissingChecks" /\ times' = Did(works) /\ UNCHANGED <<modules, plan, structs>>
    BY <1>5 DEF DoMissingChecks
  <2>2. Has("calls") /\ Has("aliases") /\ Has("checks")
    <3>1. /\ <<"MissingChecks", "calls", "CallGraph">> \in Needs
          /\ <<"MissingChecks", "aliases", "PointerAnalysis">> \in Needs
          /\ <<"MissingChecks", "checks", "SecurityChecks">> \in Needs
      BY DEF Needs
    <3> QED
      BY <1>1, <2>1, <3>1
  <2>3. works \subseteq {"srcUseChecks", "srcUseUnchecks"}
    BY DEF ModuleWork
  <2>4. ASSUME NEW r \in Reads, r[1] \in works
        PROVE  Everywhere(r[2])
    <3>1. r[2] \in {"calls", "aliases", "checks"}
      BY <2>3, <2>4 DEF Reads
    <3> QED
      BY <2>2, <3>1 DEF Has
  <2>5. "functions" \notin works
    BY <2>3
  <2> HIDE DEF works
  <2>6. TablesComplete' /\ Grows
    BY <1>1, <2>1, <2>4, <2>5, VisitTables
  <2>7. OrderOK'
    BY <1>1, <2>1, <2>6, SamePlanOrder
  <2>8. InitWork(h) = {} /\ PassWork(h) = {}
    BY <2>1 DEF InitWork, PassWork
  <2> QED
    BY <2>1, <2>6, <2>7, <2>8 DEF TablesInv, LoopInv, NoneLoaded
<1>6. CASE EndInitialization \/ EndSweep \/ DoFinalization \/ (EndFinalization /\ phase' = "final")
  <2>1. /\ UNCHANGED <<modules, plan, times, structs>>
        /\ \/ /\ phase = "init" /\ phase' = "init" /\ i' = 1
           \/ /\ phase = "init" /\ phase' = "iterate" /\ i' = 1 /\ i > modules
           \/ /\ phase = "iterate" /\ phase' = "iterate" /\ i' = 1
           \/ /\ phase = "iterate" /\ phase' = "final" /\ i > modules
           \/ /\ phase = "final" /\ phase' = "final"
    BY <1>6 DEF EndInitialization, EndSweep, DoFinalization, EndFinalization
  <2>2. Grows
    BY <1>1, <2>1 DEF Grows
  <2>3. OrderOK'
    BY <1>1, <2>1, <2>2, SamePlanOrder
  <2>4. \A w : Everywhere(w)' <=> Everywhere(w)
    BY <2>1 DEF Everywhere, Module
  <2>5. i' = 1 => \A w : Past(w)'
    BY DEF Past
  <2>6. i > modules => \A w : Past(w) => Everywhere(w)
    BY PastAll
  <2>7. LoopInv'
    BY <1>1, <2>1, <2>4, <2>5, <2>6 DEF LoopInv
  <2> QED
    BY <1>1, <2>1, <2>3, <2>7, TablesKept DEF TablesInv, NoneLoaded
<1>7. CASE EndFinalization /\ phase' # "final"
  <2>1. /\ phase = "final" /\ phase' = "main" /\ plan' = Tail(plan)
        /\ UNCHANGED <<modules, times, structs>>
    BY <1>7 DEF EndFinalization
  <2>2. Grows
    BY <2>1 DEF Grows
  <2>3. ASSUME NEW need \in Needs, need[3] = h
        PROVE  Has(need[2])'
    <3>1. need[2] \in InitWork(h) \cup PassWork(h) /\ need[2] # "structs"
      BY <1>1, <2>3 DEF Needs, Pass, InitWork, PassWork
    <3>2. Everywhere(need[2])
      BY <1>1, <2>1, <3>1 DEF LoopInv
    <3> QED
      BY <2>2, <3>1, <3>2, HasKept DEF Has
  <2>4. OrderOK'
    BY <1>1, <2>1, <2>2, <2>3, TailOrder
  <2> QED
    BY <1>1, <2>1, <2>4, TablesKept DEF TablesInv, LoopInv, NoneLoaded
<1> QED
  BY <1>3, <1>4, <1>5, <1>6, <1>7 DEF Run

(* Passes run in an order in which every whole-program table is filled, for all     *)
(* modules that loaded, before the first of them is analysed with it.              *)
THEOREM TablesCompleteHolds == Spec => []TablesComplete
<1>1. IInv /\ TablesInv /\ [Next]_vars => TablesInv'
  <2> SUFFICES ASSUME IInv, TablesInv, [Next]_vars
               PROVE  TablesInv'
    OBVIOUS
  <2>1. CASE UNCHANGED vars
    BY <2>1 DEF vars, runVars, TablesInv, OrderOK, LoopInv, NoneLoaded, TablesComplete, Before, Has,
                Everywhere, Past, Module
  <2> QED
    BY <2>1, MainTables, RunTables DEF Next, Done
<1>2. TablesInv => TablesComplete
  BY DEF TablesInv
<1> QED
  BY <1>1, <1>2, InitTables, Inductive, PTL DEF Spec
=============================================================================
