--------------------- MODULE SelfImprovementCycleProofs ---------------------
(***************************************************************************)
(* Theorems about SelfImprovementCycle for any number of workers,          *)
(* clusters, attempts and crashes.                                         *)
(***************************************************************************)
EXTENDS SelfImprovementCycle, FiniteSetTheorems, TLAPS

\* What the executors' locals satisfy whatever the leases do: an executor is in
\* an attempt that has been claimed, at a cluster that exists.
LocalsOK ==
    \A w \in Workers :
        /\ pc[w] \in Executing => attempt[w] \in 1 .. attempts
        /\ pc[w] \in Executing \ {"cluster"} => cursor[w] \in 1 .. clusters
        /\ pc[w] = "cluster" => cursor[w] \in 1 .. clusters + 1
        /\ pc[w] \notin Executing => cursor[w] = 1 /\ results[w] = {}

TypeInv == TypeOK /\ LocalsOK

\* The validation run of an executor past OpenCluster is a validation run.
LEMMA MyRunType ==
    ASSUME TypeInv, NEW w \in Workers, pc[w] \in Executing,
           cursor[w] \in 1 .. clusters
    PROVE  MyRun(w) \in ValidationRuns
  BY CycleConstantsOK DEF TypeInv, TypeOK, LocalsOK, MyRun, ValidationRuns

\* Nothing is queued, claimed or judged at first.
LEMMA InitTypeInv == Init => TypeInv
  BY CycleConstantsOK DEF Init, TypeInv, TypeOK, LocalsOK, Phases, Gates, Executing

\* A step of the lifecycle of one run keeps the phases well typed.
LEMMA PhaseType ==
    ASSUME TypeOK, NEW r \in ValidationRuns,
           \/ Validation!Create(r) \/ Validation!Start(r) \/ Validation!Complete(r)
           \/ Validation!Fail(r) \/ Validation!Cancel(r)
    PROVE  phase' \in [ValidationRuns -> Phases]
  BY DEF TypeOK, Phases, Validation!Create, Validation!Start, Validation!Complete,
         Validation!Fail, Validation!Cancel

\* The locals of an executor that leaves, and those of the others.
LEMMA LeaveType ==
    ASSUME TypeInv, NEW w \in Workers, NEW p \in {"idle", "down"}, Leave(w, p),
           UNCHANGED <<attempts, clusters>>
    PROVE  /\ pc' \in [Workers -> {"idle", "down"} \cup Executing]
           /\ attempt' \in [Workers -> 0 .. MaxAttempts]
           /\ cursor' \in [Workers -> 1 .. MaxClusters + 1]
           /\ results' \in [Workers -> SUBSET Entries]
           /\ LocalsOK'
<1>1. 0 \in 0 .. MaxAttempts /\ 1 \in 1 .. MaxClusters + 1
  BY CycleConstantsOK
<1>. QED
  BY <1>1 DEF Leave, TypeInv, TypeOK, LocalsOK, Executing

\* What Judge writes is well typed.
LEMMA JudgementType ==
    ASSUME TypeInv, NEW w \in Workers, MyRun(w) \in ValidationRuns,
           NEW d \in Gates, NEW ok \in BOOLEAN, Judgement(w, d, ok)
    PROVE  /\ gate' \in [ValidationRuns -> Gates]
           /\ promoted' \subseteq ValidationRuns
           /\ results' \in [Workers -> SUBSET Entries]
<1>1. [run |-> MyRun(w), seen |-> phase[MyRun(w)], gate |-> d, approved |-> ok] \in Entries
  BY DEF Entries, TypeInv, TypeOK
<1>2. gate' \in [ValidationRuns -> Gates] /\ promoted' \subseteq ValidationRuns
  BY DEF Judgement, TypeInv, TypeOK
<1>3. results' \in [Workers -> SUBSET Entries]
  BY <1>1 DEF Judgement, TypeInv, TypeOK
<1>. QED
  BY <1>2, <1>3

\* The type invariant is inductive: one step per action.
LEMMA NextTypeInv == TypeInv /\ [Next]_vars => TypeInv'
<1> SUFFICES ASSUME TypeInv, [Next]_vars PROVE TypeInv'
  OBVIOUS
<1> USE CycleConstantsOK
<1>1. CASE QueueCycle
  BY <1>1 DEF QueueCycle, runs, releases, locals, TypeInv, TypeOK, LocalsOK
<1>2. CASE LeaseExpires
  BY <1>2 DEF LeaseExpires, runs, releases, locals, TypeInv, TypeOK, LocalsOK
<1>3. ASSUME NEW w \in Workers, ClaimCycle(w) PROVE TypeInv'
  <2>1. attempts \in Nat /\ attempts' = attempts + 1 /\ attempts' \in 1 .. MaxAttempts
    BY <1>3 DEF ClaimCycle, Claimable, TypeInv, TypeOK
  <2>2. TypeOK'
    BY <1>3, <2>1 DEF ClaimCycle, runs, releases, TypeInv, TypeOK, Executing
  <2>3. LocalsOK'
    BY <1>3, <2>1 DEF ClaimCycle, TypeInv, TypeOK, LocalsOK, Executing
  <2>. QED
    BY <2>2, <2>3 DEF TypeInv
<1>4. ASSUME NEW w \in Workers, OpenCluster(w) PROVE TypeInv'
  <2>1. cursor[w] \in 1 .. clusters /\ pc[w] \in Executing
    BY <1>4 DEF OpenCluster, TypeInv, TypeOK, Executing
  <2>2. phase' \in [ValidationRuns -> Phases]
    BY <1>4, <2>1, MyRunType, PhaseType DEF OpenCluster, TypeInv
  <2>3. lease' \in {"none", "live", "expired"}
    BY <1>4 DEF OpenCluster, ExtendedLease, TypeInv, TypeOK
  <2>. QED
    BY <1>4, <2>1, <2>2, <2>3
       DEF OpenCluster, releases, TypeInv, TypeOK, LocalsOK, Executing
<1>5. ASSUME NEW w \in Workers, StartValidation(w) PROVE TypeInv'
  <2>1. cursor[w] \in 1 .. clusters /\ pc[w] \in Executing
    BY <1>5 DEF StartValidation, TypeInv, LocalsOK, Executing
  <2>2. phase' \in [ValidationRuns -> Phases]
    BY <1>5, <2>1, MyRunType, PhaseType DEF StartValidation, TypeInv, TypeOK
  <2>3. lease' \in {"none", "live", "expired"}
    BY <1>5 DEF StartValidation, ExtendedLease, TypeInv, TypeOK
  <2>4. \E p \in {"validating", "judging"} : pc' = [pc EXCEPT ![w] = p]
    BY <1>5 DEF StartValidation
  <2>. QED
    BY <1>5, <2>1, <2>2, <2>3, <2>4
       DEF StartValidation, releases, TypeInv, TypeOK, LocalsOK, Executing
<1>6. ASSUME NEW w \in Workers, FinishValidation(w) PROVE TypeInv'
  <2>1. cursor[w] \in 1 .. clusters /\ pc[w] \in Executing
    BY <1>6 DEF FinishValidation, TypeInv, LocalsOK, Executing
  <2>2. phase' \in [ValidationRuns -> Phases]
    BY <1>6, <2>1, MyRunType, PhaseType DEF FinishValidation, TypeInv
  <2>3. \E p \in {"judging", "raising"} : pc' = [pc EXCEPT ![w] = p]
    BY <1>6 DEF FinishValidation
  <2>. QED
    BY <1>6, <2>1, <2>2, <2>3
       DEF FinishValidation, cycle, releases, TypeInv, TypeOK, LocalsOK, Executing
<1>7. ASSUME NEW w \in Workers, Judge(w) PROVE TypeInv'
  <2>1. cursor[w] \in 1 .. clusters /\ pc[w] \in Executing
    BY <1>7 DEF Judge, TypeInv, LocalsOK, Executing
  <2>2. PICK d \in Gates, ok \in BOOLEAN : Judgement(w, d, ok)
    BY <1>7 DEF Judge
  <2>3. /\ gate' \in [ValidationRuns -> Gates]
        /\ promoted' \subseteq ValidationRuns
        /\ results' \in [Workers -> SUBSET Entries]
        /\ \A v \in Workers \ {w} : results'[v] = results[v]
    BY <2>1, <2>2, MyRunType, JudgementType DEF Judgement, TypeInv, TypeOK
  <2>4. lease' \in {"none", "live", "expired"}
    BY <1>7 DEF Judge, ExtendedLease, TypeInv, TypeOK
  <2>5. cursor[w] + 1 \in 1 .. MaxClusters + 1
    BY <2>1 DEF TypeInv, TypeOK
  <2>6. TypeOK'
    BY <1>7, <2>3, <2>4, <2>5 DEF Judge, runs, TypeInv, TypeOK, Executing
  <2>7. LocalsOK'
    BY <1>7, <2>1, <2>3 DEF Judge, TypeInv, TypeOK, LocalsOK, Executing
  <2>. QED
    BY <2>6, <2>7 DEF TypeInv
<1>8. ASSUME NEW w \in Workers, CompleteCycle(w) PROVE TypeInv'
  <2>1. EndRow("completed") /\ Leave(w, "idle") /\ UNCHANGED <<runs, releases, crashes>>
    BY <1>8 DEF CompleteCycle
  <2>2. result' \in Results
    BY <1>8 DEF CompleteCycle, Decision, Results, TypeInv, TypeOK
  <2>. QED
    BY <2>1, <2>2, LeaveType DEF EndRow, runs, releases, TypeInv, TypeOK, Ended
<1>9. ASSUME NEW w \in Workers, FailCycle(w) PROVE TypeInv'
  <2>1. /\ EndRow("failed") /\ Leave(w, "down")
        /\ UNCHANGED <<result, runs, releases, crashes>>
    BY <1>9 DEF FailCycle
  <2>. QED
    BY <2>1, LeaveType DEF EndRow, runs, releases, TypeInv, TypeOK, Ended
<1>15. ASSUME NEW w \in Workers, FailJudging(w) PROVE TypeInv'
  <2>1. /\ EndRow("failed") /\ Leave(w, "down")
        /\ UNCHANGED <<result, runs, promoted, crashes>>
    BY <1>15 DEF FailJudging
  <2>2. gate' \in [ValidationRuns -> Gates]
    BY <1>15 DEF FailJudging, TypeInv, TypeOK
  <2>. QED
    BY <2>1, <2>2, LeaveType DEF EndRow, runs, TypeInv, TypeOK, Ended
<1>10. ASSUME NEW w \in Workers, Crash(w) PROVE TypeInv'
  BY <1>10, LeaveType DEF Crash, cycle, runs, releases, TypeInv, TypeOK
<1>11. ASSUME NEW w \in Workers, Restart(w) PROVE TypeInv'
  BY <1>11, LeaveType DEF Restart, cycle, runs, releases, TypeInv, TypeOK
<1>12. ASSUME NEW r \in ValidationRuns, CancelRun(r) PROVE TypeInv'
  BY <1>12 DEF CancelRun, Validation!AskCancel, cycle, releases, locals,
               TypeInv, TypeOK, LocalsOK
<1>13. ASSUME NEW r \in ValidationRuns, ExecuteElsewhere(r) PROVE TypeInv'
  BY <1>13, PhaseType DEF ExecuteElsewhere, cycle, releases, locals,
                          TypeInv, TypeOK, LocalsOK
<1>14. CASE UNCHANGED vars
  BY <1>14 DEF vars, cycle, runs, releases, locals, TypeInv, TypeOK, LocalsOK
<1>. QED
  BY <1>1, <1>2, <1>3, <1>4, <1>5, <1>6, <1>7, <1>8, <1>9, <1>10, <1>11, <1>12,
     <1>13, <1>14, <1>15 DEF Next, ExecutorStep

\* Types are kept, whether or not leases are timely: the columns of
\* self_improvement_cycles, runs, gate_decisions and promotions, and the locals
\* of _execute_cycle_record.
THEOREM CycleTypeCorrect == Spec => []TypeOK
<1>1. TypeInv => TypeOK
  BY DEF TypeInv
<1>. QED
  BY InitTypeInv, NextTypeInv, <1>1, PTL DEF Spec

-----------------------------------------------------------------------------
(* Promotions: nothing here needs the leases to be timely.                 *)

\* Two executors at work are in different attempts: a claim counts attempts up,
\* so even a lease taken over from a live executor gives it runs of its own.
AttemptsDiffer ==
    \A v, w \in Workers :
        pc[v] \in Executing /\ pc[w] \in Executing /\ v # w => attempt[v] # attempt[w]

\* A run is judged when its executor has been there, and once: later clusters
\* of an attempt, and attempts to come, have no gate decision yet.
JudgedInOrder ==
    /\ \A w \in Workers : pc[w] \in Executing =>
          \A k \in 1 .. MaxClusters : k >= cursor[w] => gate[<<attempt[w], k>>] = "none"
    /\ \A r \in ValidationRuns : r[1] > attempts => gate[r] = "none"

\* PromotionJustified alone is not inductive: that no later judgement replaces
\* the approving decision needs the order in which runs are judged.
PInv == TypeInv /\ AttemptsDiffer /\ JudgedInOrder /\ PromotionJustified

\* A run that has completed stays completed, whoever takes the step.
LEMMA CompletedStays ==
    ASSUME TypeOK, NEW q \in ValidationRuns, NEW r \in ValidationRuns,
           phase[r] = "completed",
           \/ Validation!Create(q) \/ Validation!Start(q) \/ Validation!Complete(q)
           \/ Validation!Fail(q) \/ Validation!Cancel(q)
    PROVE  phase'[r] = "completed"
  BY DEF TypeOK, Validation!Create, Validation!Start, Validation!Complete,
         Validation!Fail, Validation!Cancel

\* A step that keeps completed runs, the decisions and the promotions, and at
\* which executors only advance or leave.
LEMMA PFrame ==
    ASSUME PInv, UNCHANGED <<gate, promoted, attempts>>,
           \A r \in ValidationRuns : phase[r] = "completed" => phase'[r] = "completed",
           \A w \in Workers : pc'[w] \in Executing =>
               pc[w] \in Executing /\ attempt'[w] = attempt[w] /\ cursor'[w] = cursor[w]
    PROVE  (AttemptsDiffer /\ JudgedInOrder /\ PromotionJustified)'
<1>1. AttemptsDiffer'
  BY DEF PInv, AttemptsDiffer
<1>2. JudgedInOrder'
  BY DEF PInv, JudgedInOrder
<1>3. PromotionJustified'
  BY DEF PInv, PromotionJustified, TypeInv, TypeOK
<1>. QED
  BY <1>1, <1>2, <1>3

\* One step per action.
LEMMA NextPInv == PInv /\ [Next]_vars => PInv'
<1> SUFFICES ASSUME PInv, [Next]_vars PROVE PInv'
  OBVIOUS
<1> USE CycleConstantsOK
<1> DEFINE Goal == (AttemptsDiffer /\ JudgedInOrder /\ PromotionJustified)'
<1>0. TypeInv /\ TypeOK /\ LocalsOK
  BY DEF PInv, TypeInv
<1>1. ASSUME QueueCycle \/ LeaseExpires PROVE Goal
  BY <1>1, PFrame DEF QueueCycle, LeaseExpires, runs, releases, locals
<1>2. ASSUME NEW w \in Workers, ClaimCycle(w) PROVE Goal
  <2>1. /\ attempts \in Nat /\ attempts' = attempts + 1 /\ attempts' \in 1 .. MaxAttempts
        /\ attempt'[w] = attempts + 1 /\ pc[w] \notin Executing
        /\ \A v \in Workers \ {w} : pc'[v] = pc[v] /\ attempt'[v] = attempt[v]
        /\ UNCHANGED <<gate, promoted, phase, cursor>>
    BY <1>0, <1>2 DEF ClaimCycle, Claimable, TypeOK, runs, releases, Executing
  <2>2. \A v \in Workers \ {w} : pc[v] \in Executing => attempt[v] \in 1 .. attempts
    BY <1>0 DEF LocalsOK
  <2>3. AttemptsDiffer'
    BY <2>1, <2>2 DEF PInv, AttemptsDiffer
  <2>4. ASSUME NEW k \in 1 .. MaxClusters PROVE gate[<<attempts + 1, k>>] = "none"
    <3>1. <<attempts + 1, k>> \in ValidationRuns
      BY <2>1 DEF ValidationRuns
    <3>. QED
      BY <2>1, <3>1 DEF PInv, JudgedInOrder
  <2>5. ASSUME NEW r \in ValidationRuns, r[1] > attempts + 1 PROVE gate[r] = "none"
    <3>1. r[1] \in Nat
      BY DEF ValidationRuns
    <3>. QED
      BY <2>1, <2>5, <3>1 DEF PInv, JudgedInOrder
  <2>6. JudgedInOrder'
    BY <2>1, <2>4, <2>5 DEF PInv, JudgedInOrder
  <2>7. PromotionJustified'
    BY <2>1 DEF PInv, PromotionJustified
  <2>. QED
    BY <2>3, <2>6, <2>7
<1>3. ASSUME NEW w \in Workers, OpenCluster(w) PROVE Goal
  <2>1. MyRun(w) \in ValidationRuns
    BY <1>0, <1>3, MyRunType DEF OpenCluster, TypeOK, Executing
  <2>. QED
    BY <1>0, <1>3, <2>1, CompletedStays, PFrame DEF OpenCluster, releases, TypeOK, Executing
<1>4. ASSUME NEW w \in Workers, StartValidation(w) PROVE Goal
  <2>1. MyRun(w) \in ValidationRuns
    BY <1>0, <1>4, MyRunType DEF StartValidation, LocalsOK, Executing
  <2>2. \A r \in ValidationRuns : phase[r] = "completed" => phase'[r] = "completed"
    BY <1>0, <1>4, <2>1, CompletedStays DEF StartValidation
  <2>. QED
    BY <1>0, <1>4, <2>2, PFrame DEF StartValidation, releases, TypeOK, Executing
<1>5. ASSUME NEW w \in Workers, FinishValidation(w) PROVE Goal
  <2>1. MyRun(w) \in ValidationRuns
    BY <1>0, <1>5, MyRunType DEF FinishValidation, LocalsOK, Executing
  <2>2. \A r \in ValidationRuns : phase[r] = "completed" => phase'[r] = "completed"
    BY <1>0, <1>5, <2>1, CompletedStays DEF FinishValidation
  <2>. QED
    BY <1>0, <1>5, <2>2, PFrame DEF FinishValidation, cycle, releases, TypeOK, Executing
<1>6. ASSUME NEW w \in Workers, Judge(w) PROVE Goal
  <2> DEFINE r == MyRun(w)
  <2>1. /\ pc[w] \in Executing /\ cursor[w] \in 1 .. clusters
        /\ attempt[w] \in 1 .. attempts /\ r \in ValidationRuns
    BY <1>0, <1>6, MyRunType DEF Judge, LocalsOK, Executing
  <2>2. PICK d \in Gates, ok \in BOOLEAN : Judgement(w, d, ok)
    BY <1>6 DEF Judge
  <2>3. /\ gate' = [gate EXCEPT ![r] = d]
        /\ promoted' = IF ok /\ PromoteOnApproval THEN promoted \cup {r} ELSE promoted
        /\ ok => d = "approved" /\ phase[r] = "completed"
    BY <2>2 DEF Judgement
  <2>4. /\ UNCHANGED <<phase, attempt, attempts>>
        /\ cursor' = [cursor EXCEPT ![w] = @ + 1]
        /\ pc' = [pc EXCEPT ![w] = "cluster"]
    BY <1>6 DEF Judge, runs
  <2>5. AttemptsDiffer'
    BY <1>0, <2>1, <2>4 DEF PInv, AttemptsDiffer, TypeOK
  <2>6. gate[r] = "none"
    <3>1. clusters \in 0 .. MaxClusters
      BY <1>0 DEF TypeOK
    <3>2. cursor[w] \in 1 .. MaxClusters /\ cursor[w] >= cursor[w]
      BY <2>1, <3>1
    <3>. QED
      BY <2>1, <3>2 DEF PInv, JudgedInOrder, MyRun
  <2>7. PromotionJustified'
    BY <1>0, <2>1, <2>3, <2>4, <2>6 DEF PInv, PromotionJustified, TypeOK
  <2>8. ASSUME NEW v \in Workers, pc'[v] \in Executing, NEW k \in 1 .. MaxClusters,
               k >= cursor'[v]
        PROVE  gate'[<<attempt'[v], k>>] = "none"
    <3>1. pc[v] \in Executing /\ attempt[v] \in 1 .. attempts
      BY <1>0, <2>1, <2>4, <2>8 DEF TypeOK, LocalsOK
    <3>2. <<attempt[v], k>> \in ValidationRuns
      BY <1>0, <3>1 DEF ValidationRuns, TypeOK
    <3>3. k >= cursor[v]
      BY <1>0, <2>1, <2>4, <2>8 DEF TypeOK
    <3>4. <<attempt[v], k>> # r
      <4>1. CASE v = w
        <5>1. k >= cursor[w] + 1 /\ cursor[w] \in Nat
          BY <1>0, <2>1, <2>4, <2>8, <4>1 DEF TypeOK
        <5>2. k # cursor[w]
          BY <5>1
        <5>. QED
          BY <5>2 DEF MyRun
      <4>2. CASE v # w
        <5>1. attempt[v] # attempt[w]
          BY <2>1, <3>1, <4>2 DEF PInv, AttemptsDiffer
        <5>. QED
          BY <5>1 DEF MyRun
      <4>. QED
        BY <4>1, <4>2
    <3>5. gate[<<attempt[v], k>>] = "none"
      BY <3>1, <3>3 DEF PInv, JudgedInOrder
    <3>. QED
      BY <1>0, <2>3, <2>4, <3>2, <3>4, <3>5 DEF TypeOK
  <2>9. ASSUME NEW q \in ValidationRuns, q[1] > attempts PROVE gate'[q] = "none"
    <3>1. q # r
      BY <1>0, <2>1, <2>9 DEF MyRun, TypeOK
    <3>. QED
      BY <1>0, <2>3, <2>9, <3>1 DEF PInv, JudgedInOrder, TypeOK
  <2>10. JudgedInOrder'
    BY <2>4, <2>8, <2>9 DEF JudgedInOrder
  <2>. QED
    BY <2>5, <2>7, <2>10
<1>7. ASSUME NEW w \in Workers, NEW p \in {"idle", "down"}, Leave(w, p),
             UNCHANGED <<runs, releases, attempts>>
      PROVE  Goal
  BY <1>0, <1>7, PFrame DEF Leave, runs, releases, TypeOK, Executing
<1>8. ASSUME NEW w \in Workers, CompleteCycle(w) \/ FailCycle(w) PROVE Goal
  BY <1>7, <1>8 DEF CompleteCycle, FailCycle, EndRow
<1>9. ASSUME NEW w \in Workers, Crash(w) \/ Restart(w) PROVE Goal
  BY <1>7, <1>9 DEF Crash, Restart, cycle
<1>10. ASSUME NEW r \in ValidationRuns, CancelRun(r) PROVE Goal
  BY <1>10, PFrame DEF CancelRun, cycle, releases, locals
<1>11. ASSUME NEW r \in ValidationRuns, ExecuteElsewhere(r) PROVE Goal
  BY <1>0, <1>11, CompletedStays, PFrame DEF ExecuteElsewhere, cycle, releases, locals
<1>12. ASSUME UNCHANGED vars PROVE Goal
  BY <1>12, PFrame DEF vars, cycle, runs, releases, locals
<1>14. ASSUME NEW w \in Workers, FailJudging(w) PROVE Goal
  <2> DEFINE r == MyRun(w)
  <2>1. /\ pc[w] \in Executing /\ cursor[w] \in 1 .. clusters
        /\ attempt[w] \in 1 .. attempts /\ r \in ValidationRuns
    BY <1>0, <1>14, MyRunType DEF FailJudging, LocalsOK, Executing
  <2>2. /\ \A q \in ValidationRuns \ {r} : gate'[q] = gate[q]
        /\ UNCHANGED <<phase, promoted, attempts>>
    BY <1>0, <1>14 DEF FailJudging, EndRow, runs, TypeOK
  <2>3. pc'[w] \notin Executing
    BY <1>0, <1>14 DEF FailJudging, Leave, TypeOK, Executing
  <2>4. \A v \in Workers \ {w} :
            pc'[v] = pc[v] /\ attempt'[v] = attempt[v] /\ cursor'[v] = cursor[v]
    BY <1>0, <1>14 DEF FailJudging, Leave, TypeOK
  <2>5. AttemptsDiffer'
    BY <2>3, <2>4 DEF PInv, AttemptsDiffer
  <2>6. gate[r] = "none"
    <3>1. clusters \in 0 .. MaxClusters
      BY <1>0 DEF TypeOK
    <3>2. cursor[w] \in 1 .. MaxClusters /\ cursor[w] >= cursor[w]
      BY <2>1, <3>1
    <3>. QED
      BY <2>1, <3>2 DEF PInv, JudgedInOrder, MyRun
  <2>7. PromotionJustified'
    BY <1>0, <2>2, <2>6 DEF PInv, PromotionJustified, TypeOK
  <2>8. ASSUME NEW v \in Workers, pc'[v] \in Executing, NEW k \in 1 .. MaxClusters,
               k >= cursor'[v]
        PROVE  gate'[<<attempt'[v], k>>] = "none"
    <3>1. v # w /\ pc[v] \in Executing
      BY <2>3, <2>4, <2>8
    <3>2. <<attempt[v], k>> \in ValidationRuns
      BY <1>0, <3>1 DEF ValidationRuns, TypeOK, LocalsOK
    <3>3. <<attempt[v], k>> # r
      <4>1. attempt[v] # attempt[w]
        BY <2>1, <3>1 DEF PInv, AttemptsDiffer
      <4>. QED
        BY <4>1 DEF MyRun
    <3>4. gate[<<attempt[v], k>>] = "none"
      BY <2>4, <2>8, <3>1 DEF PInv, JudgedInOrder
    <3>. QED
      BY <2>2, <2>4, <3>1, <3>2, <3>3, <3>4
  <2>9. ASSUME NEW q \in ValidationRuns, q[1] > attempts PROVE gate'[q] = "none"
    <3>1. q # r
      BY <1>0, <2>1, <2>9 DEF MyRun, TypeOK
    <3>. QED
      BY <2>2, <2>9, <3>1 DEF PInv, JudgedInOrder
  <2>10. JudgedInOrder'
    BY <2>2, <2>8, <2>9 DEF JudgedInOrder
  <2>. QED
    BY <2>5, <2>7, <2>10
<1>13. Goal
  BY <1>1, <1>2, <1>3, <1>4, <1>5, <1>6, <1>8, <1>9, <1>10, <1>11, <1>12, <1>14
     DEF Next, ExecutorStep
<1>. QED
  BY <1>13, NextTypeInv DEF PInv

\* At first nobody is at work and nothing is judged.
LEMMA InitPInv == Init => PInv
<1>1. Init => AttemptsDiffer /\ PromotionJustified
  BY DEF Init, AttemptsDiffer, PromotionJustified, Executing
<1>2. Init => JudgedInOrder
  BY DEF Init, JudgedInOrder, Executing
<1>. QED
  BY <1>1, <1>2, InitTypeInv DEF PInv

\* Whatever the leases, crashes and other executors do, a promotion that a cycle
\* records rests on a completed validation run and its approving gate decision
\* (_maybe_promote, and the guard of the gate on validation_run.status).
THEOREM PromotionsAreJustified == Spec => []PromotionJustified
<1>1. PInv => PromotionJustified
  BY DEF PInv
<1>. QED
  BY <1>1, InitPInv, NextPInv, PTL DEF Spec

-----------------------------------------------------------------------------
(* The result of the cycle: still nothing about timely leases.             *)

\* Accounts, of given rows: the form in which two states are compared.
AccountsOf(S, a, n, ph, gt, pr) ==
    /\ {e.run : e \in S} = {a} \X (1 .. n)
    /\ \A e, f \in S : e.run = f.run => e = f
    /\ \A e \in S :
          /\ e.seen \in Validation!Ended => ph[e.run] = e.seen
          /\ e.gate = gt[e.run]
          /\ PromoteOnApproval => (e.approved <=> e.run \in pr)

\* What an executor has gathered accounts for the clusters behind its cursor.
LocalAccounts ==
    \A w \in Workers : pc[w] \in Executing =>
        AccountsOf(results[w], attempt[w], cursor[w] - 1, phase, gate, promoted)

\* The attempt that a completed cycle's result accounts for is over: an executor
\* still at work, which only a lease that ran out can leave behind, is in
\* another one and judges other runs.
ResultAccountsOver ==
    (status = "completed" /\ clusters > 0) =>
        /\ \E a \in 1 .. attempts :
              /\ AccountsOf(result.candidates, a, clusters, phase, gate, promoted)
              /\ \A w \in Workers : pc[w] \in Executing => attempt[w] # a
        /\ result \in Results
        /\ result.decision = "approved" <=> \E e \in result.candidates : e.approved

\* ResultAccounts alone is not inductive: the result is copied from a local
\* variable of the executor, and the rows it speaks of must not move after that.
AInv == PInv /\ LocalAccounts /\ ResultAccountsOver

\* An account stays true while the rows of its attempt stay.
LEMMA AccountsFrame ==
    ASSUME NEW S \in SUBSET Entries, NEW a, NEW n,
           AccountsOf(S, a, n, phase, gate, promoted),
           \A r \in ValidationRuns :
               phase[r] \in Validation!Ended => phase'[r] = phase[r],
           \A e \in S : gate'[e.run] = gate[e.run],
           \A e \in S : e.run \in promoted' <=> e.run \in promoted
    PROVE  AccountsOf(S, a, n, phase', gate', promoted')
<1>1. \A e \in S : e.run \in ValidationRuns
  BY DEF Entries
<1>. QED
  BY <1>1 DEF AccountsOf

\* A run that has ended stays as it is, whoever takes the step.
LEMMA EndedStays ==
    ASSUME TypeOK, NEW q \in ValidationRuns, NEW r \in ValidationRuns,
           phase[r] \in Validation!Ended,
           \/ Validation!Create(q) \/ Validation!Start(q) \/ Validation!Complete(q)
           \/ Validation!Fail(q) \/ Validation!Cancel(q)
    PROVE  phase'[r] = phase[r]
  BY DEF TypeOK, Validation!Create, Validation!Start, Validation!Complete,
         Validation!Fail, Validation!Cancel, Validation!Ended

\* A step that keeps ended runs, the decisions, the promotions and the cycle's
\* result, and at which executors move on without judging, or leave.
LEMMA AFrame ==
    ASSUME AInv, UNCHANGED <<gate, promoted, attempts, result, clusters>>,
           status' = "completed" => status = "completed",
           \A r \in ValidationRuns :
               phase[r] \in Validation!Ended => phase'[r] = phase[r],
           \A w \in Workers : pc'[w] \in Executing =>
               /\ pc[w] \in Executing /\ attempt'[w] = attempt[w]
               /\ cursor'[w] = cursor[w] /\ results'[w] = results[w]
    PROVE  (LocalAccounts /\ ResultAccountsOver)'
<1>1. ASSUME NEW S \in SUBSET Entries, NEW a, NEW n,
             AccountsOf(S, a, n, phase, gate, promoted)
      PROVE  AccountsOf(S, a, n, phase', gate', promoted')
  BY <1>1, AccountsFrame
<1>2. TypeOK
  BY DEF AInv, PInv, TypeInv
<1>3. LocalAccounts'
  <2> SUFFICES ASSUME NEW w \in Workers, pc'[w] \in Executing
               PROVE  AccountsOf(results'[w], attempt'[w], cursor'[w] - 1,
                                 phase', gate', promoted')
    BY DEF LocalAccounts
  <2>1. /\ pc[w] \in Executing /\ attempt'[w] = attempt[w]
        /\ cursor'[w] = cursor[w] /\ results'[w] = results[w]
    OBVIOUS
  <2>2. /\ AccountsOf(results[w], attempt[w], cursor[w] - 1, phase, gate, promoted)
        /\ results[w] \in SUBSET Entries
    BY <1>2, <2>1 DEF AInv, LocalAccounts, TypeOK
  <2>. QED
    BY <1>1, <2>1, <2>2
<1>4. ResultAccountsOver'
  <2> SUFFICES ASSUME status' = "completed" /\ clusters' > 0
               PROVE  /\ \E a \in 1 .. attempts' :
                            /\ AccountsOf(result'.candidates, a, clusters', phase', gate', promoted')
                            /\ \A w \in Workers : pc'[w] \in Executing => attempt'[w] # a
                      /\ result' \in Results
                      /\ result'.decision = "approved" <=>
                            \E e \in result'.candidates : e.approved
    BY DEF ResultAccountsOver
  <2>1. ResultAccountsOver /\ status = "completed" /\ clusters > 0
    BY DEF AInv
  <2>2. PICK a \in 1 .. attempts :
             /\ AccountsOf(result.candidates, a, clusters, phase, gate, promoted)
             /\ \A w \in Workers : pc[w] \in Executing => attempt[w] # a
    BY <2>1 DEF ResultAccountsOver
  <2>3. result.candidates \in SUBSET Entries
    BY <2>1 DEF ResultAccountsOver, Results
  <2>4. AccountsOf(result'.candidates, a, clusters', phase', gate', promoted')
    BY <1>1, <2>2, <2>3
  <2>. QED
    BY <2>1, <2>2, <2>4 DEF ResultAccountsOver
<1>. QED
  BY <1>3, <1>4

\* A judgement adds its own run to the account of its executor and touches no
\* other account.
LEMMA JudgeAccounts ==
    ASSUME AInv, NEW w \in Workers, Judge(w)
    PROVE  (LocalAccounts /\ ResultAccountsOver)'
<1> DEFINE r == MyRun(w)
<1>0. TypeInv /\ TypeOK /\ LocalsOK /\ PInv
  BY DEF AInv, PInv, TypeInv
<1>1. /\ pc[w] \in Executing /\ cursor[w] \in 1 .. clusters
      /\ attempt[w] \in 1 .. attempts /\ r \in ValidationRuns
  BY <1>0, MyRunType DEF Judge, LocalsOK, Executing
<1>2. PICK d \in Gates, ok \in BOOLEAN : Judgement(w, d, ok)
  BY DEF Judge
<1> DEFINE e0 == [run |-> r, seen |-> phase[r], gate |-> d, approved |-> ok]
<1>3. /\ gate' = [gate EXCEPT ![r] = d]
      /\ promoted' = IF ok /\ PromoteOnApproval THEN promoted \cup {r} ELSE promoted
      /\ results' = [results EXCEPT ![w] = @ \cup {e0}]
  BY <1>2 DEF Judgement
<1>4. /\ UNCHANGED <<phase, attempt, attempts, status, result, clusters>>
      /\ cursor' = [cursor EXCEPT ![w] = @ + 1]
      /\ pc' = [pc EXCEPT ![w] = "cluster"]
  BY DEF Judge, runs
<1>5. gate[r] = "none" /\ r \notin promoted
  <2>1. clusters \in 0 .. MaxClusters /\ MaxClusters \in Nat
    BY <1>0, CycleConstantsOK DEF TypeOK
  <2>2. cursor[w] \in 1 .. MaxClusters /\ cursor[w] >= cursor[w]
    BY <1>1, <2>1
  <2>3. gate[r] = "none"
    BY <1>0, <1>1, <2>2 DEF PInv, JudgedInOrder, MyRun
  <2>. QED
    BY <1>0, <2>3 DEF PInv, PromotionJustified
<1>6. ASSUME NEW S \in SUBSET Entries, NEW a, NEW n,
             AccountsOf(S, a, n, phase, gate, promoted), \A e \in S : e.run # r
      PROVE  AccountsOf(S, a, n, phase', gate', promoted')
  <2>1. \A e \in S : gate'[e.run] = gate[e.run] /\ (e.run \in promoted' <=> e.run \in promoted)
    <3>1. \A e \in S : e.run \in ValidationRuns
      BY DEF Entries
    <3>. QED
      BY <1>0, <1>3, <1>6, <3>1 DEF TypeOK
  <2>. QED
    BY <1>4, <1>6, <2>1, AccountsFrame
<1>7. LocalAccounts'
  <2> SUFFICES ASSUME NEW v \in Workers, pc'[v] \in Executing
               PROVE  AccountsOf(results'[v], attempt'[v], cursor'[v] - 1,
                                 phase', gate', promoted')
    BY DEF LocalAccounts
  <2>1. pc[v] \in Executing
    BY <1>0, <1>1, <1>4 DEF TypeOK
  <2>2. /\ AccountsOf(results[v], attempt[v], cursor[v] - 1, phase, gate, promoted)
        /\ results[v] \in SUBSET Entries /\ cursor[v] \in Nat
    BY <1>0, <2>1 DEF AInv, LocalAccounts, TypeOK
  <2>3. \A e \in results[v] : e.run \in {attempt[v]} \X (1 .. cursor[v] - 1)
    BY <2>2 DEF AccountsOf
  <2>4. \A e \in results[v] : e.run # r
    <3>1. CASE v = w
      BY <2>2, <2>3, <3>1 DEF MyRun
    <3>2. CASE v # w
      <4>1. attempt[v] # attempt[w]
        BY <1>0, <1>1, <2>1, <3>2 DEF PInv, AttemptsDiffer
      <4>. QED
        BY <2>3, <4>1 DEF MyRun
    <3>. QED
      BY <3>1, <3>2
  <2>5. AccountsOf(results[v], attempt[v], cursor[v] - 1, phase', gate', promoted')
    BY <1>6, <2>2, <2>4
  <2>6. CASE v # w
    BY <1>0, <1>3, <1>4, <2>5, <2>6 DEF TypeOK
  <2>7. CASE v = w
    <3>1. results'[w] = results[w] \cup {e0} /\ cursor'[w] - 1 = cursor[w]
      BY <1>0, <1>3, <1>4, <2>2, <2>7 DEF TypeOK
    <3>2. /\ d = gate'[r] /\ e0.seen = phase'[r]
          /\ PromoteOnApproval => (ok <=> r \in promoted')
      BY <1>0, <1>1, <1>3, <1>4, <1>5 DEF TypeOK
    <3>3. {e.run : e \in results'[w]} = {attempt[w]} \X (1 .. cursor[w])
      <4>1. {e.run : e \in results[w]} = {attempt[w]} \X (1 .. cursor[w] - 1)
        BY <2>2, <2>7 DEF AccountsOf
      <4>2. {e.run : e \in results'[w]} = {e.run : e \in results[w]} \cup {r}
        <5>1. e0.run = r
          OBVIOUS
        <5> HIDE DEF e0, r
        <5>. QED
          BY <3>1, <5>1
      <4>3. 1 .. cursor[w] = (1 .. cursor[w] - 1) \cup {cursor[w]}
        BY <1>1, <2>2, <2>7
      <4>. QED
        BY <4>1, <4>2, <4>3 DEF MyRun
    <3>4. \A e, f \in results'[w] : e.run = f.run => e = f
      BY <2>4, <2>5, <2>7, <3>1 DEF AccountsOf
    <3>5. \A e \in results'[w] :
             /\ e.seen \in Validation!Ended => phase'[e.run] = e.seen
             /\ e.gate = gate'[e.run]
             /\ PromoteOnApproval => (e.approved <=> e.run \in promoted')
      BY <2>5, <2>7, <3>1, <3>2 DEF AccountsOf
    <3>. QED
      BY <1>4, <2>7, <3>1, <3>3, <3>4, <3>5 DEF AccountsOf
  <2>. QED
    BY <2>6, <2>7
<1>8. ResultAccountsOver'
  <2> SUFFICES ASSUME status' = "completed" /\ clusters' > 0
               PROVE  /\ \E a \in 1 .. attempts' :
                            /\ AccountsOf(result'.candidates, a, clusters', phase', gate', promoted')
                            /\ \A v \in Workers : pc'[v] \in Executing => attempt'[v] # a
                      /\ result' \in Results
                      /\ result'.decision = "approved" <=>
                            \E e \in result'.candidates : e.approved
    BY DEF ResultAccountsOver
  <2>1. ResultAccountsOver /\ status = "completed" /\ clusters > 0
    BY <1>4 DEF AInv
  <2>2. PICK a \in 1 .. attempts :
             /\ AccountsOf(result.candidates, a, clusters, phase, gate, promoted)
             /\ \A v \in Workers : pc[v] \in Executing => attempt[v] # a
    BY <2>1 DEF ResultAccountsOver
  <2>3. result.candidates \in SUBSET Entries
    BY <2>1 DEF ResultAccountsOver, Results
  <2>4. \A e \in result.candidates : e.run \in {a} \X (1 .. clusters)
    BY <2>2 DEF AccountsOf
  <2>5. \A e \in result.candidates : e.run # r
    BY <1>1, <2>2, <2>4 DEF MyRun
  <2>6. AccountsOf(result.candidates, a, clusters, phase', gate', promoted')
    BY <1>6, <2>2, <2>3, <2>5
  <2>7. \A v \in Workers : pc'[v] \in Executing => attempt'[v] # a
    BY <1>0, <1>1, <1>4, <2>2 DEF TypeOK
  <2>. QED
    BY <1>4, <2>1, <2>2, <2>6, <2>7 DEF ResultAccountsOver
<1>. QED
  BY <1>7, <1>8

\* A decision that is written when the cycle fails is of a run that no account
\* mentions.
LEMMA FailJudgingAccounts ==
    ASSUME AInv, NEW w \in Workers, FailJudging(w)
    PROVE  (LocalAccounts /\ ResultAccountsOver)'
<1> DEFINE r == MyRun(w)
<1>0. TypeInv /\ TypeOK /\ LocalsOK /\ PInv
  BY DEF AInv, PInv, TypeInv
<1>1. /\ pc[w] \in Executing /\ attempt[w] \in 1 .. attempts
  BY <1>0 DEF FailJudging, LocalsOK, Executing
<1>2. /\ \A q \in ValidationRuns \ {r} : gate'[q] = gate[q]
      /\ UNCHANGED <<phase, promoted>> /\ status' # "completed"
  BY <1>0 DEF FailJudging, EndRow, runs, TypeOK
<1>3. ASSUME NEW v \in Workers, pc'[v] \in Executing
      PROVE  /\ v # w /\ pc[v] \in Executing /\ attempt'[v] = attempt[v]
             /\ cursor'[v] = cursor[v] /\ results'[v] = results[v]
  BY <1>0, <1>3 DEF FailJudging, Leave, TypeOK, Executing
<1>4. LocalAccounts'
  <2> SUFFICES ASSUME NEW v \in Workers, pc'[v] \in Executing
               PROVE  AccountsOf(results'[v], attempt'[v], cursor'[v] - 1,
                                 phase', gate', promoted')
    BY DEF LocalAccounts
  <2>1. /\ v # w /\ pc[v] \in Executing /\ attempt'[v] = attempt[v]
        /\ cursor'[v] = cursor[v] /\ results'[v] = results[v]
    BY <1>3
  <2>2. /\ AccountsOf(results[v], attempt[v], cursor[v] - 1, phase, gate, promoted)
        /\ results[v] \in SUBSET Entries
    BY <1>0, <2>1 DEF AInv, LocalAccounts, TypeOK
  <2>3. attempt[v] # attempt[w]
    BY <1>0, <1>1, <2>1 DEF PInv, AttemptsDiffer
  <2>4. \A e \in results[v] : e.run # r /\ e.run \in ValidationRuns
    BY <2>2, <2>3 DEF AccountsOf, MyRun, Entries
  <2>5. AccountsOf(results[v], attempt[v], cursor[v] - 1, phase', gate', promoted')
    BY <1>2, <2>2, <2>4, AccountsFrame
  <2>. QED
    BY <2>1, <2>5
<1>. QED
  BY <1>2, <1>4 DEF ResultAccountsOver

\* One step per action.
LEMMA NextAInv == AInv /\ [Next]_vars => AInv'
<1> SUFFICES ASSUME AInv, [Next]_vars PROVE AInv'
  OBVIOUS
<1> USE CycleConstantsOK
<1> DEFINE Goal == (LocalAccounts /\ ResultAccountsOver)'
<1>0. TypeInv /\ TypeOK /\ LocalsOK /\ PInv
  BY DEF AInv, PInv, TypeInv
<1>1. ASSUME QueueCycle \/ LeaseExpires PROVE Goal
  BY <1>1, AFrame DEF QueueCycle, LeaseExpires, runs, releases, locals
<1>2. ASSUME NEW w \in Workers, ClaimCycle(w) PROVE Goal
  <2>1. /\ attempts \in Nat /\ attempts' = attempts + 1
        /\ attempt'[w] = attempts + 1 /\ pc[w] \notin Executing
        /\ \A v \in Workers \ {w} : pc'[v] = pc[v] /\ attempt'[v] = attempt[v]
        /\ UNCHANGED <<gate, promoted, phase, cursor, results>> /\ status' = "running"
    BY <1>0, <1>2 DEF ClaimCycle, Claimable, TypeOK, runs, releases, Executing
  <2>2. AccountsOf(results'[w], attempt'[w], cursor'[w] - 1, phase', gate', promoted')
    BY <1>0, <2>1 DEF LocalsOK, AccountsOf
  <2>3. LocalAccounts'
    BY <2>1, <2>2 DEF AInv, LocalAccounts
  <2>. QED
    BY <2>1, <2>3 DEF ResultAccountsOver
<1>3. ASSUME NEW w \in Workers, OpenCluster(w) PROVE Goal
  <2>1. MyRun(w) \in ValidationRuns
    BY <1>0, <1>3, MyRunType DEF OpenCluster, TypeOK, Executing
  <2>2. \A r \in ValidationRuns : phase[r] \in Validation!Ended => phase'[r] = phase[r]
    BY <1>0, <1>3, <2>1, EndedStays DEF OpenCluster
  <2>. QED
    BY <1>0, <1>3, <2>2, AFrame DEF OpenCluster, releases, TypeOK, Executing
<1>4. ASSUME NEW w \in Workers, StartValidation(w) PROVE Goal
  <2>1. MyRun(w) \in ValidationRuns
    BY <1>0, <1>4, MyRunType DEF StartValidation, LocalsOK, Executing
  <2>2. \A r \in ValidationRuns : phase[r] \in Validation!Ended => phase'[r] = phase[r]
    BY <1>0, <1>4, <2>1, EndedStays DEF StartValidation
  <2>. QED
    BY <1>0, <1>4, <2>2, AFrame DEF StartValidation, releases, TypeOK, Executing
<1>5. ASSUME NEW w \in Workers, FinishValidation(w) PROVE Goal
  <2>1. MyRun(w) \in ValidationRuns
    BY <1>0, <1>5, MyRunType DEF FinishValidation, LocalsOK, Executing
  <2>2. \A r \in ValidationRuns : phase[r] \in Validation!Ended => phase'[r] = phase[r]
    BY <1>0, <1>5, <2>1, EndedStays DEF FinishValidation
  <2>. QED
    BY <1>0, <1>5, <2>2, AFrame DEF FinishValidation, cycle, releases, TypeOK, Executing
<1>6. ASSUME NEW w \in Workers, Judge(w) PROVE Goal
  BY <1>6, JudgeAccounts
<1>7. ASSUME NEW w \in Workers, CompleteCycle(w) PROVE Goal
  <2>1. /\ pc[w] = "cluster" /\ cursor[w] > clusters
        /\ result' = [decision |-> Decision(w), candidates |-> results[w]]
        /\ UNCHANGED <<gate, promoted, phase, attempts, clusters>>
        /\ \A v \in Workers : pc'[v] \in Executing =>
              /\ v # w /\ pc[v] \in Executing
              /\ attempt'[v] = attempt[v] /\ cursor'[v] = cursor[v] /\ results'[v] = results[v]
    BY <1>0, <1>7 DEF CompleteCycle, EndRow, Leave, runs, releases, TypeOK, Executing
  <2>2. LocalAccounts'
    BY <2>1 DEF AInv, LocalAccounts
  <2>3. pc[w] \in Executing /\ attempt[w] \in 1 .. attempts
    BY <1>0, <2>1 DEF LocalsOK, Executing
  <2>4. \A v \in Workers : pc'[v] \in Executing => attempt'[v] # attempt[w]
    BY <1>0, <2>1, <2>3 DEF PInv, AttemptsDiffer
  <2>5. clusters > 0 => AccountsOf(results[w], attempt[w], clusters, phase, gate, promoted)
    <3>1. AccountsOf(results[w], attempt[w], cursor[w] - 1, phase, gate, promoted)
      BY <2>3 DEF AInv, LocalAccounts
    <3>2. cursor[w] - 1 = clusters
      BY <1>0, <2>1 DEF LocalsOK, TypeOK
    <3>. QED
      BY <3>1, <3>2
  <2>6. /\ result' \in Results /\ result'.candidates = results[w]
        /\ clusters > 0 => (result'.decision = "approved" <=> \E e \in results[w] : e.approved)
    BY <1>0, <2>1 DEF Decision, Results, TypeOK
  <2>7. ResultAccountsOver'
    BY <2>1, <2>3, <2>4, <2>5, <2>6 DEF ResultAccountsOver
  <2>. QED
    BY <2>2, <2>7
<1>8. ASSUME NEW w \in Workers, FailCycle(w) PROVE Goal
  BY <1>0, <1>8, AFrame DEF FailCycle, EndRow, Leave, runs, releases, TypeOK, Executing
<1>9. ASSUME NEW w \in Workers, Crash(w) \/ Restart(w) PROVE Goal
  BY <1>0, <1>9, AFrame DEF Crash, Restart, cycle, Leave, runs, releases, TypeOK, Executing
<1>10. ASSUME NEW r \in ValidationRuns, CancelRun(r) PROVE Goal
  BY <1>10, AFrame DEF CancelRun, cycle, releases, locals
<1>11. ASSUME NEW r \in ValidationRuns, ExecuteElsewhere(r) PROVE Goal
  <2>1. \A q \in ValidationRuns : phase[q] \in Validation!Ended => phase'[q] = phase[q]
    BY <1>0, <1>11, EndedStays DEF ExecuteElsewhere
  <2>. QED
    BY <1>11, <2>1, AFrame DEF ExecuteElsewhere, cycle, releases, locals
<1>12. ASSUME UNCHANGED vars PROVE Goal
  BY <1>12, AFrame DEF vars, cycle, runs, releases, locals
<1>14. ASSUME NEW w \in Workers, FailJudging(w) PROVE Goal
  BY <1>14, FailJudgingAccounts
<1>13. Goal
  BY <1>1, <1>2, <1>3, <1>4, <1>5, <1>6, <1>7, <1>8, <1>9, <1>10, <1>11, <1>12, <1>14
     DEF Next, ExecutorStep
<1>. QED
  BY <1>13, NextPInv DEF AInv

\* The result of a completed cycle accounts for one attempt, cluster by cluster,
\* and stays true of the database, whatever the leases, crashes and other
\* executors do (the results list of _execute_cycle_record and its last commit).
THEOREM ResultsAreAccounts == Spec => []ResultAccounts
<1>1. Init => LocalAccounts /\ ResultAccountsOver
  BY DEF Init, LocalAccounts, ResultAccountsOver, Executing
<1>2. AInv => ResultAccounts
  <2> SUFFICES ASSUME AInv, status = "completed", clusters > 0
               PROVE  /\ \E a \in 1 .. MaxAttempts : Accounts(result.candidates, a, clusters)
                      /\ result.decision = "approved" <=>
                            \E e \in result.candidates : e.approved
    BY DEF ResultAccounts
  <2>1. attempts \in 0 .. MaxAttempts /\ MaxAttempts \in Nat
    BY CycleConstantsOK DEF AInv, PInv, TypeInv, TypeOK
  <2>2. PICK a \in 1 .. attempts :
             AccountsOf(result.candidates, a, clusters, phase, gate, promoted)
    BY DEF AInv, ResultAccountsOver
  <2>3. a \in 1 .. MaxAttempts /\ Accounts(result.candidates, a, clusters)
    BY <2>1, <2>2 DEF Accounts, AccountsOf
  <2>. QED
    BY <2>3 DEF AInv, ResultAccountsOver
<1>3. Init => PInv
  BY InitPInv
<1>. QED
  BY <1>1, <1>2, <1>3, NextAInv, PTL DEF Spec, AInv

-----------------------------------------------------------------------------
(* Timely leases: one executor, and silence after the end.                 *)

\* An executor at work holds the cycle.  OneExecutor alone is not inductive:
\* that nobody else can claim the cycle needs its lease.
Held ==
    /\ \A w \in Workers : pc[w] \in Executing =>
          status = "running" /\ owner = w /\ lease = "live" /\ attempt[w] = attempts
    /\ status \in Ended => lease = "none"

\* A step that keeps the row, up to a renewed lease, and at which executors
\* move on or leave.
LEMMA HeldFrame ==
    ASSUME Held, UNCHANGED <<status, owner, attempts>>,
           lease' = lease \/ (lease' = ExtendedLease /\ status \notin Ended),
           \A w \in Workers : pc'[w] \in Executing =>
               pc[w] \in Executing /\ attempt'[w] = attempt[w]
    PROVE  Held'
  BY DEF Held, ExtendedLease

\* One step per action.
LEMMA NextHeld ==
    ASSUME TimelyLeases, TypeInv, Held, [Next]_vars
    PROVE  Held'
<1>0. TypeOK
  BY DEF TypeInv
<1>1. CASE QueueCycle
  BY <1>1 DEF QueueCycle, locals, Held, Ended
<1>2. CASE LeaseExpires
  BY <1>2 DEF LeaseExpires, locals, Held, Ended
<1>3. ASSUME NEW w \in Workers, ClaimCycle(w) PROVE Held'
  <2>1. \A v \in Workers : pc[v] \notin Executing
    BY <1>3 DEF ClaimCycle, Claimable, Held
  <2>. QED
    BY <1>0, <1>3, <2>1 DEF ClaimCycle, Held, TypeOK, Ended
<1>4. ASSUME NEW w \in Workers,
             OpenCluster(w) \/ StartValidation(w) \/ FinishValidation(w) \/ Judge(w)
      PROVE  Held'
  <2>1. pc[w] \in Executing /\ status = "running"
    BY <1>4 DEF OpenCluster, StartValidation, FinishValidation, Judge, Held, Executing
  <2>2. /\ UNCHANGED <<status, owner, attempts, attempt>>
        /\ lease' = lease \/ lease' = ExtendedLease
    BY <1>4, <2>1 DEF OpenCluster, StartValidation, FinishValidation, Judge, cycle
  <2>3. \A v \in Workers : pc'[v] \in Executing => pc[v] \in Executing
    BY <1>0, <1>4, <2>1
       DEF OpenCluster, StartValidation, FinishValidation, Judge, TypeOK, Executing
  <2>. QED
    BY <2>1, <2>2, <2>3, HeldFrame DEF Ended
<1>5. ASSUME NEW w \in Workers, CompleteCycle(w) \/ FailCycle(w) \/ FailJudging(w)
      PROVE Held'
  <2>1. pc[w] \in Executing
    BY <1>5 DEF CompleteCycle, FailCycle, FailJudging, Executing
  <2>2. \A v \in Workers : pc'[v] \notin Executing
    BY <1>0, <1>5, <2>1 DEF CompleteCycle, FailCycle, FailJudging, Leave, Held, TypeOK, Executing
  <2>. QED
    BY <1>5, <2>2 DEF CompleteCycle, FailCycle, FailJudging, EndRow, Held
<1>6. ASSUME NEW w \in Workers, Crash(w) \/ Restart(w) PROVE Held'
  BY <1>0, <1>6, HeldFrame DEF Crash, Restart, cycle, Leave, TypeOK, Executing
<1>7. ASSUME NEW r \in ValidationRuns, CancelRun(r) \/ ExecuteElsewhere(r) PROVE Held'
  BY <1>7, HeldFrame DEF CancelRun, ExecuteElsewhere, cycle, locals
<1>8. CASE UNCHANGED vars
  BY <1>8, HeldFrame DEF vars, cycle, locals
<1>. QED
  BY <1>1, <1>2, <1>3, <1>4, <1>5, <1>6, <1>7, <1>8 DEF Next, ExecutorStep

\* With leases that outlast a cluster's work, the cycle has one executor at a
\* time, the one its row names, in its latest attempt.
THEOREM CycleExecutorIsUnique ==
    ASSUME TimelyLeases
    PROVE  Spec => []OneExecutor
<1>1. Init => Held
  BY DEF Init, Held, Executing, Ended
<1>2. TypeInv /\ Held /\ [Next]_vars => Held'
  BY NextHeld
<1>3. Held => OneExecutor
  BY DEF Held, OneExecutor
<1>. QED
  BY InitTypeInv, NextTypeInv, <1>1, <1>2, <1>3, PTL DEF Spec

\* With timely leases nothing is opened, judged or promoted for a cycle that has
\* ended, and its row stays: the two terminal commits of _execute_cycle_record.
THEOREM EndedCyclesAreQuiet ==
    ASSUME TimelyLeases
    PROVE  Spec => EndedCycleIsQuiet
<1>1. Init => Held
  BY DEF Init, Held, Executing, Ended
<1>2. TypeInv /\ Held /\ [Next]_vars => Held'
  BY NextHeld
<1>3. TypeInv /\ Held /\ [Next]_vars =>
        [(status \in Ended) =>
           /\ UNCHANGED <<cycle, releases>>
           /\ \A r \in ValidationRuns : phase[r] = "absent" => phase'[r] = "absent"]_vars
  <2> SUFFICES ASSUME TypeInv, Held, [Next]_vars, status \in Ended
               PROVE  /\ UNCHANGED <<cycle, releases>>
                      /\ \A r \in ValidationRuns : phase[r] = "absent" => phase'[r] = "absent"
    OBVIOUS
  <2>1. /\ \A w \in Workers : pc[w] \notin Executing
        /\ lease = "none" /\ status \notin {"absent", "queued", "running"}
    BY DEF Held, Ended
  <2>2. ASSUME NEW w \in Workers, ExecutorStep(w) \/ Crash(w) PROVE Restart(w)
    BY <2>1, <2>2
       DEF ExecutorStep, Crash, ClaimCycle, Claimable, OpenCluster, StartValidation,
           FinishValidation, Judge, CompleteCycle, FailCycle, FailJudging, Executing
  <2>3. ASSUME NEW q \in ValidationRuns, ExecuteElsewhere(q), NEW r \in ValidationRuns,
               phase[r] = "absent"
        PROVE  phase'[r] = "absent"
    BY <2>3 DEF ExecuteElsewhere, Validation!Start, Validation!Complete,
                Validation!Fail, Validation!Cancel, TypeInv, TypeOK
  <2>. QED
    BY <2>1, <2>2, <2>3
       DEF Next, QueueCycle, LeaseExpires, Restart, CancelRun, ExecuteElsewhere,
           cycle, runs, releases, vars
<1>. QED
  BY InitTypeInv, NextTypeInv, <1>1, <1>2, <1>3, PTL DEF Spec, EndedCycleIsQuiet

-----------------------------------------------------------------------------
(* Attempts, whatever the leases do.                                       *)

Executors == {w \in Workers : pc[w] \in Executing}

\* NeverStranded alone is not inductive: that an attempt is left after a crash
\* needs every attempt of a cycle that has not ended to be accounted for by a
\* crash or by an executor.
Counted ==
    /\ status \notin Ended => attempts <= crashes + Cardinality(Executors)
    /\ status \in {"absent", "queued"} => attempts = 0
    /\ status = "running" => lease # "none"

\* The executors of the cycle are finitely many.
LEMMA ExecutorsFinite == IsFiniteSet(Executors) /\ Cardinality(Executors) \in Nat
<1>1. Executors \subseteq Workers
  BY DEF Executors
<1>. QED
  BY <1>1, CycleWorkersAreFinite, FS_Subset, FS_CardinalityType

\* A step that keeps the row, up to a renewed lease, and the executors.
LEMMA CountedFrame ==
    ASSUME Counted, UNCHANGED <<status, attempts, crashes>>,
           lease' = lease \/ lease' # "none",
           \A w \in Workers : pc'[w] \in Executing <=> pc[w] \in Executing
    PROVE  Counted'
<1>1. Executors' = Executors
  BY DEF Executors
<1>. QED
  BY <1>1 DEF Counted

\* Every attempt stays accounted for: one step per action.
LEMMA NextCounted == TypeInv /\ Counted /\ [Next]_vars => Counted'
<1> SUFFICES ASSUME TypeInv, Counted, [Next]_vars PROVE Counted'
  OBVIOUS
<1>0. /\ TypeOK /\ IsFiniteSet(Executors) /\ Cardinality(Executors) \in Nat
      /\ attempts \in Nat /\ crashes \in Nat
  BY CycleConstantsOK, ExecutorsFinite DEF TypeInv, TypeOK
<1>1. CASE QueueCycle
  <2>1. UNCHANGED <<attempts, crashes>> /\ status' = "queued" /\ status = "absent"
        /\ Executors' = Executors
    BY <1>1 DEF QueueCycle, locals, Executors
  <2>. QED
    BY <1>0, <2>1 DEF Counted
<1>2. CASE LeaseExpires
  BY <1>2, CountedFrame DEF LeaseExpires, locals
<1>3. ASSUME NEW w \in Workers, ClaimCycle(w) PROVE Counted'
  <2>1. Executors' = Executors \cup {w} /\ w \notin Executors
    BY <1>0, <1>3 DEF ClaimCycle, Executors, Executing, TypeOK
  <2>2. Cardinality(Executors') = Cardinality(Executors) + 1
    BY <1>0, <2>1, FS_AddElement
  <2>3. attempts <= crashes + Cardinality(Executors)
    BY <1>3 DEF ClaimCycle, Claimable, Counted, Ended
  <2>4. status' = "running" /\ lease' = "live" /\ attempts' = attempts + 1 /\ crashes' = crashes
    BY <1>3 DEF ClaimCycle
  <2>5. attempts' <= crashes' + Cardinality(Executors')
    BY <1>0, <2>2, <2>3, <2>4
  <2>. QED
    BY <2>4, <2>5 DEF Counted
<1>4. ASSUME NEW w \in Workers,
             OpenCluster(w) \/ StartValidation(w) \/ FinishValidation(w) \/ Judge(w)
      PROVE  Counted'
  <2>1. /\ UNCHANGED <<status, attempts, crashes>>
        /\ lease' = lease \/ lease' = ExtendedLease
        /\ pc[w] \in Executing
        /\ \E p \in Executing : pc' = [pc EXCEPT ![w] = p]
    BY <1>4 DEF OpenCluster, StartValidation, FinishValidation, Judge, cycle, Executing
  <2>2. lease' = lease \/ lease' # "none"
    BY <2>1 DEF ExtendedLease
  <2>3. \A v \in Workers : pc'[v] \in Executing <=> pc[v] \in Executing
    BY <1>0, <2>1 DEF TypeOK
  <2>. QED
    BY <2>1, <2>2, <2>3, CountedFrame
<1>5. ASSUME NEW w \in Workers, CompleteCycle(w) \/ FailCycle(w) \/ FailJudging(w)
      PROVE Counted'
  <2>1. status' \in Ended
    BY <1>5 DEF CompleteCycle, FailCycle, FailJudging, EndRow, Ended
  <2>. QED
    BY <2>1 DEF Counted, Ended
<1>6. ASSUME NEW w \in Workers, Crash(w) PROVE Counted'
  <2>1. UNCHANGED <<status, attempts, lease>> /\ crashes' = crashes + 1
        /\ Executors' = Executors \ {w} /\ w \in Executors
    BY <1>0, <1>6 DEF Crash, Leave, cycle, Executors, Executing, TypeOK
  <2>2. Cardinality(Executors') = Cardinality(Executors) - 1
    BY <1>0, <2>1, FS_RemoveElement
  <2>3. status \notin Ended => attempts' <= crashes' + Cardinality(Executors')
    BY <1>0, <2>1, <2>2 DEF Counted
  <2>. QED
    BY <2>1, <2>3 DEF Counted
<1>7. ASSUME NEW w \in Workers, Restart(w) PROVE Counted'
  <2>1. \A v \in Workers : pc'[v] \in Executing <=> pc[v] \in Executing
    BY <1>0, <1>7 DEF Restart, Leave, Executing, TypeOK
  <2>. QED
    BY <1>7, <2>1, CountedFrame DEF Restart, cycle
<1>8. ASSUME NEW r \in ValidationRuns, CancelRun(r) \/ ExecuteElsewhere(r) PROVE Counted'
  BY <1>8, CountedFrame DEF CancelRun, ExecuteElsewhere, cycle, locals
<1>9. CASE UNCHANGED vars
  BY <1>9, CountedFrame DEF vars, cycle, locals
<1>. QED
  BY <1>1, <1>2, <1>3, <1>4, <1>5, <1>6, <1>7, <1>8, <1>9 DEF Next, ExecutorStep

\* As long as there have been fewer crashes than attempts the cycle is not left
\* for nobody to end, even when a lease runs out under an executor still at
\* work (claim_cycle takes over stale leases; _execute_cycle_record records
\* every exception).
THEOREM CycleIsNeverStranded == Spec => []NeverStranded
<1>1. Init => Counted
  <2> SUFFICES ASSUME Init PROVE Counted
    OBVIOUS
  <2>1. Executors = {}
    BY DEF Init, Executors, Executing
  <2>2. Cardinality(Executors) = 0
    BY <2>1, FS_EmptySet
  <2>. QED
    BY <2>2 DEF Init, Counted
<1>2. TypeInv /\ Counted => NeverStranded
  <2> SUFFICES ASSUME TypeInv, Counted, crashes < MaxAttempts,
                      status \in {"queued", "running"},
                      \A w \in Workers : pc[w] \notin Executing
               PROVE  Claimable \/ (attempts < MaxAttempts /\ lease = "live")
    BY DEF NeverStranded
  <2>1. Executors = {}
    BY DEF Executors
  <2>2. Cardinality(Executors) = 0
    BY <2>1, FS_EmptySet
  <2>3. attempts <= crashes
    BY <2>2, CycleConstantsOK DEF Counted, Ended, TypeInv, TypeOK
  <2>4. attempts < MaxAttempts
    BY <2>3, CycleConstantsOK DEF TypeInv, TypeOK
  <2>. QED
    BY <2>4 DEF Counted, Claimable, TypeInv, TypeOK
<1>. QED
  BY InitTypeInv, NextTypeInv, NextCounted, <1>1, <1>2, PTL DEF Spec

-----------------------------------------------------------------------------
(* What the cycle does to its validation runs.                             *)

\* Whatever a step does, to one validation run it is a step of RunLifecycle, or
\* it leaves the runs alone.
LEMMA ValidationStep ==
    ASSUME TypeInv, [Next]_vars
    PROVE  [Validation!Next]_(Validation!vars)
<1> DEFINE Step == [Validation!Next]_(Validation!vars)
<1>1. ASSUME UNCHANGED runs PROVE Step
  BY <1>1 DEF runs, Validation!vars
<1>2. ASSUME NEW r \in ValidationRuns,
             \/ Validation!Create(r) \/ Validation!Start(r) \/ Validation!Complete(r)
             \/ Validation!Fail(r) \/ Validation!Cancel(r) \/ Validation!AskCancel(r)
      PROVE  Step
  BY <1>2 DEF Validation!Next
<1>3. ASSUME NEW w \in Workers, OpenCluster(w) PROVE Step
  <2>1. MyRun(w) \in ValidationRuns
    BY <1>3, MyRunType DEF OpenCluster, TypeInv, TypeOK, LocalsOK, Executing
  <2>. QED
    BY <1>2, <1>3, <2>1 DEF OpenCluster
<1>4. ASSUME NEW w \in Workers, StartValidation(w) PROVE Step
  <2>1. MyRun(w) \in ValidationRuns
    BY <1>4, MyRunType DEF StartValidation, TypeInv, LocalsOK, Executing
  <2>. QED
    BY <1>1, <1>2, <1>4, <2>1 DEF StartValidation, runs
<1>5. ASSUME NEW w \in Workers, FinishValidation(w) PROVE Step
  <2>1. MyRun(w) \in ValidationRuns
    BY <1>5, MyRunType DEF FinishValidation, TypeInv, LocalsOK, Executing
  <2>. QED
    BY <1>2, <1>5, <2>1 DEF FinishValidation
<1>6. ASSUME NEW r \in ValidationRuns, CancelRun(r) \/ ExecuteElsewhere(r) PROVE Step
  BY <1>2, <1>6 DEF CancelRun, ExecuteElsewhere
<1>. QED
  BY <1>1, <1>3, <1>4, <1>5, <1>6
     DEF Next, ExecutorStep, QueueCycle, LeaseExpires, ClaimCycle, Judge, CompleteCycle,
         FailCycle, FailJudging, Crash, Restart, vars

\* The cycle takes part in the lifecycle of its validation runs as any client
\* and any worker does: it never moves one in a way that RunLifecycle excludes,
\* even when leases run out and two executors are at work.
THEOREM ValidationRunsLive == Spec => Validation!Spec
<1>1. Init => Validation!Init
  BY DEF Init, Validation!Init
<1>2. TypeInv /\ [Next]_vars => [Validation!Next]_(Validation!vars)
  BY ValidationStep
<1>. QED
  BY InitTypeInv, NextTypeInv, <1>1, <1>2, PTL DEF Spec, Validation!Spec

=============================================================================
