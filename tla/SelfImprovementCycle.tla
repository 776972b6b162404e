------------------------ MODULE SelfImprovementCycle ------------------------
(***************************************************************************)
(* One self-improvement cycle (services/autonomous.py): claimed by a       *)
(* worker or executed inline by the API, it opens one candidate and one    *)
(* validation run per failure cluster of the baseline, executes the run,   *)
(* evaluates the gate, may record a promotion, and writes its result.      *)
(*                                                                         *)
(* The validation runs are ordinary rows of runs: any worker may claim     *)
(* one, any client may cancel it.  What happens to them is RunLifecycle,   *)
(* which RunExecution implements; their cases are abstracted away.  An     *)
(* action ends at each commit of _execute_cycle_record.                    *)
(***************************************************************************)
EXTENDS Naturals, FiniteSets

CONSTANTS Workers,            \* worker processes and API requests
          NoWorker,           \* the NULL of self_improvement_cycles.worker_id
          NoResult,           \* the empty self_improvement_cycles.result
          MaxClusters,        \* bound on the clusters taken up (max_candidates)
          MaxAttempts,        \* settings.worker_max_attempts
          MaxCrashes,         \* bound on the crashes of workers
          ExecuteValidation,  \* payload.execute_validation
          PromoteOnApproval,  \* payload.promote_on_approval
          TimelyLeases        \* no lease expires under a live executor

\* Each attempt opens its own run for each cluster.
ValidationRuns == (1 .. MaxAttempts) \X (1 .. MaxClusters)

Phases == {"absent", "queued", "running", "completed", "failed", "cancelled"}
Gates == {"none", "approved", "blocked"}

\* An element of cycle.result["candidates"].
Entries == [run : ValidationRuns, seen : Phases, gate : Gates, approved : BOOLEAN]
Results == [decision : {"no_failures", "approved", "blocked"}, candidates : SUBSET Entries]

ASSUME CycleConstantsOK ==
    /\ MaxClusters \in Nat /\ MaxAttempts \in Nat /\ MaxCrashes \in Nat
    /\ NoWorker \notin Workers /\ NoResult \notin Results
    /\ {ExecuteValidation, PromoteOnApproval, TimelyLeases} \subseteq BOOLEAN

ASSUME CycleWorkersAreFinite == IsFiniteSet(Workers)

VARIABLES status, owner, lease, attempts, result,  \* the row of the cycle
          clusters,                                \* failure clusters of the baseline
          phase, cancelAsked,                      \* the rows of the validation runs
          gate, promoted,                          \* gate_decisions, promotions
          pc, attempt, cursor, results,            \* each executor's point and locals
          crashes                                  \* crashes so far, for the bound

cycle == <<status, owner, lease, attempts, result, clusters>>
runs == <<phase, cancelAsked>>
releases == <<gate, promoted>>
locals == <<pc, attempt, cursor, results>>
vars == <<cycle, runs, releases, locals, crashes>>

Validation == INSTANCE RunLifecycle WITH
    Runs <- ValidationRuns, Cases <- {},
    verdict <- [r \in ValidationRuns |-> [c \in {} |-> "open"]]

Ended == {"completed", "failed"}
Executing == {"cluster", "created", "validating", "judging", "raising"}

TypeOK ==
    /\ status \in {"absent", "queued", "running"} \cup Ended
    /\ owner \in Workers \cup {NoWorker}
    /\ lease \in {"none", "live", "expired"}
    /\ attempts \in 0 .. MaxAttempts
    /\ result \in Results \cup {NoResult}
    /\ clusters \in 0 .. MaxClusters
    /\ phase \in [ValidationRuns -> Phases]
    /\ cancelAsked \in [ValidationRuns -> BOOLEAN]
    /\ gate \in [ValidationRuns -> Gates]
    /\ promoted \subseteq ValidationRuns
    /\ pc \in [Workers -> {"idle", "down"} \cup Executing]
    /\ attempt \in [Workers -> 0 .. MaxAttempts]
    /\ cursor \in [Workers -> 1 .. MaxClusters + 1]
    /\ results \in [Workers -> SUBSET Entries]
    /\ crashes \in 0 .. MaxCrashes

\* The baseline run has completed, so its clusters are settled.
Init ==
    /\ status = "absent" /\ owner = NoWorker /\ lease = "none"
    /\ attempts = 0 /\ result = NoResult
    /\ clusters \in 0 .. MaxClusters
    /\ phase = [r \in ValidationRuns |-> "absent"]
    /\ cancelAsked = [r \in ValidationRuns |-> FALSE]
    /\ gate = [r \in ValidationRuns |-> "none"]
    /\ promoted = {}
    /\ pc = [w \in Workers |-> "idle"]
    /\ attempt = [w \in Workers |-> 0]
    /\ cursor = [w \in Workers |-> 1]
    /\ results = [w \in Workers |-> {}]
    /\ crashes = 0

-----------------------------------------------------------------------------
(* Queue, claim, lease.                                                    *)

QueueCycle ==
    /\ status = "absent"
    /\ status' = "queued"
    /\ UNCHANGED <<owner, lease, attempts, result, clusters, runs, releases, locals, crashes>>

\* Wrong versions of Claimable: the lease ignored, a failed cycle tried again,
\* stale leases never taken over.
ClaimableAnyLease ==
    /\ attempts < MaxAttempts
    /\ status \in {"queued", "running"}

ClaimableFailed ==
    /\ attempts < MaxAttempts
    /\ status \in {"queued", "failed"} \/ (status = "running" /\ lease = "expired")

ClaimableQueuedOnly ==
    /\ attempts < MaxAttempts
    /\ status = "queued"

\* There is no cancellation of a cycle.
Claimable ==
    /\ attempts < MaxAttempts
    /\ \/ status = "queued"
       \/ status = "running" /\ lease = "expired"

ClaimCycle(w) ==
    /\ pc[w] = "idle"
    /\ Claimable
    /\ status' = "running"
    /\ owner' = w
    /\ lease' = "live"
    /\ attempts' = attempts + 1
    /\ pc' = [pc EXCEPT ![w] = "cluster"]
    /\ attempt' = [attempt EXCEPT ![w] = attempts + 1]
    /\ UNCHANGED <<result, clusters, runs, releases, cursor, results, crashes>>

ExtendedLease == IF owner = NoWorker THEN lease ELSE "live"

\* Time passes.
LeaseExpires ==
    /\ lease = "live"
    /\ TimelyLeases => \A w \in Workers : pc[w] \notin Executing
    /\ lease' = "expired"
    /\ UNCHANGED <<status, owner, attempts, result, clusters, runs, releases, locals, crashes>>

-----------------------------------------------------------------------------
(* _execute_cycle_record.                                                  *)

\* The validation run of the cluster an executor is at.
MyRun(w) == <<attempt[w], cursor[w]>>

Leave(w, p) ==
    /\ pc' = [pc EXCEPT ![w] = p]
    /\ attempt' = [attempt EXCEPT ![w] = 0]
    /\ cursor' = [cursor EXCEPT ![w] = 1]
    /\ results' = [results EXCEPT ![w] = {}]

\* Candidate, proposal, patch bundle and a queued run, in one commit.
OpenCluster(w) ==
    /\ pc[w] = "cluster"
    /\ cursor[w] <= clusters
    /\ lease' = ExtendedLease
    /\ Validation!Create(MyRun(w))
    /\ pc' = [pc EXCEPT ![w] = "created"]
    /\ UNCHANGED <<status, owner, attempts, result, clusters, cancelAsked, releases,
                   attempt, cursor, results, crashes>>

\* execute_run, called on a run that everybody else can see and claim: it
\* starts, or it returns at once with the run as it is.
StartValidation(w) ==
    /\ pc[w] = "created"
    /\ ExecuteValidation
    /\ lease' = ExtendedLease
    /\ \/ /\ Validation!Start(MyRun(w))
          /\ pc' = [pc EXCEPT ![w] = "validating"]
       \/ /\ phase[MyRun(w)] # "queued" \/ cancelAsked[MyRun(w)]
          /\ pc' = [pc EXCEPT ![w] = "judging"]
          /\ UNCHANGED phase
    /\ UNCHANGED <<status, owner, attempts, result, clusters, cancelAsked, releases,
                   attempt, cursor, results, crashes>>

\* execute_run comes back, or raises after it has committed the failure.
FinishValidation(w) ==
    /\ pc[w] = "validating"
    /\ \/ /\ Validation!Complete(MyRun(w)) \/ Validation!Cancel(MyRun(w))
          /\ pc' = [pc EXCEPT ![w] = "judging"]
       \/ /\ Validation!Fail(MyRun(w))
          /\ pc' = [pc EXCEPT ![w] = "raising"]
    /\ UNCHANGED <<cycle, cancelAsked, releases, attempt, cursor, results, crashes>>

\* A wrong version of Judgement: the comparison is evaluated whatever the
\* status of the validation run.
JudgementAnyStatus(w, d, ok) ==
    LET r == MyRun(w) IN
    /\ d # "none" /\ (ok => d = "approved")
    /\ gate' = [gate EXCEPT ![r] = d]
    /\ promoted' = IF ok /\ PromoteOnApproval THEN promoted \cup {r} ELSE promoted
    /\ results' = [results EXCEPT ![w] =
                     @ \cup {[run |-> r, seen |-> phase[r], gate |-> d, approved |-> ok]}]

\* What becomes of the cluster once its run has been read: an entry of the
\* result and, for a completed run, a gate decision d and a comparison that
\* approves only what the gate approves.
Judgement(w, d, ok) ==
    LET r == MyRun(w) IN
    /\ IF phase[r] = "completed"
       THEN d # "none" /\ (ok => d = "approved")
       ELSE d = "none" /\ ~ok
    /\ gate' = [gate EXCEPT ![r] = d]
    /\ promoted' = IF ok /\ PromoteOnApproval THEN promoted \cup {r} ELSE promoted
    /\ results' = [results EXCEPT ![w] =
                     @ \cup {[run |-> r, seen |-> phase[r], gate |-> d, approved |-> ok]}]

\* Without execute_validation the run is judged as it is found.
Judge(w) ==
    /\ pc[w] = IF ExecuteValidation THEN "judging" ELSE "created"
    /\ \E d \in Gates, ok \in BOOLEAN : Judgement(w, d, ok)
    /\ lease' = IF ExecuteValidation THEN ExtendedLease ELSE lease
    /\ cursor' = [cursor EXCEPT ![w] = @ + 1]
    /\ pc' = [pc EXCEPT ![w] = "cluster"]
    /\ UNCHANGED <<status, owner, attempts, result, clusters, runs, attempt, crashes>>

EndRow(s) ==
    /\ status' = s
    /\ owner' = NoWorker
    /\ lease' = "none"
    /\ UNCHANGED <<attempts, clusters>>

\* A wrong version of Decision: the gates' word, whatever the comparison says.
DecisionOfGates(w) ==
    IF clusters = 0 THEN "no_failures"
    ELSE IF \E e \in results[w] : e.gate = "approved" THEN "approved" ELSE "blocked"

Decision(w) ==
    IF clusters = 0 THEN "no_failures"
    ELSE IF \E e \in results[w] : e.approved THEN "approved" ELSE "blocked"

CompleteCycle(w) ==
    /\ pc[w] = "cluster"
    /\ cursor[w] > clusters
    /\ result' = [decision |-> Decision(w), candidates |-> results[w]]
    /\ EndRow("completed")
    /\ Leave(w, "idle")
    /\ UNCHANGED <<runs, releases, crashes>>

\* A wrong version of FailCycle: the exception leaves before the failure is
\* recorded.
FailCycleUnrecorded(w) ==
    /\ pc[w] \in Executing \ {"validating"}
    /\ Leave(w, "down")
    /\ UNCHANGED <<cycle, runs, releases, crashes>>

\* An exception anywhere, execute_run's included: earlier clusters keep their
\* runs, decisions and promotions, the result is not written, and the
\* exception goes on to end the worker process.
FailCycle(w) ==
    /\ pc[w] \in Executing \ {"validating"}
    /\ EndRow("failed")
    /\ Leave(w, "down")
    /\ UNCHANGED <<result, runs, releases, crashes>>

\* An exception once the gate has been evaluated: its decision has been flushed,
\* and the handler's commit writes it.
FailJudging(w) ==
    /\ pc[w] = IF ExecuteValidation THEN "judging" ELSE "created"
    /\ phase[MyRun(w)] = "completed"
    /\ \E d \in Gates \ {"none"} : gate' = [gate EXCEPT ![MyRun(w)] = d]
    /\ EndRow("failed")
    /\ Leave(w, "down")
    /\ UNCHANGED <<result, runs, promoted, crashes>>

-----------------------------------------------------------------------------
(* Processes, clients and the executors of other runs.                     *)

Crash(w) ==
    /\ pc[w] \in Executing
    /\ crashes < MaxCrashes
    /\ crashes' = crashes + 1
    /\ Leave(w, "down")
    /\ UNCHANGED <<cycle, runs, releases>>

Restart(w) ==
    /\ pc[w] = "down"
    /\ Leave(w, "idle")
    /\ UNCHANGED <<cycle, runs, releases, crashes>>

CancelRun(r) ==
    /\ Validation!AskCancel(r)
    /\ UNCHANGED <<cycle, phase, releases, locals, crashes>>

\* A worker that takes a validation run from the queue, or takes it over from
\* an executor that died.
ExecuteElsewhere(r) ==
    /\ \A w \in Workers : ~(pc[w] = "validating" /\ MyRun(w) = r)
    /\ \/ Validation!Start(r) \/ Validation!Complete(r)
       \/ Validation!Fail(r) \/ Validation!Cancel(r)
    /\ UNCHANGED <<cycle, cancelAsked, releases, locals, crashes>>

ExecutorStep(w) ==
    \/ ClaimCycle(w) \/ OpenCluster(w) \/ StartValidation(w) \/ FinishValidation(w)
    \/ Judge(w) \/ CompleteCycle(w) \/ FailCycle(w) \/ FailJudging(w) \/ Restart(w)

Next ==
    \/ QueueCycle
    \/ LeaseExpires
    \/ \E w \in Workers : ExecutorStep(w) \/ Crash(w)
    \/ \E r \in ValidationRuns : CancelRun(r) \/ ExecuteElsewhere(r)

Spec == Init /\ [][Next]_vars

\* Workers that are up poll and execute, workers that are down are started
\* again, time passes; execute_run returns (RunExecution, RunsEnd and
\* CancelEndsRunning).  Nothing is assumed of clients and of other executors.
Fairness == (\A w \in Workers : WF_vars(ExecutorStep(w))) /\ WF_vars(LeaseExpires)

FairSpec == Spec /\ Fairness

-----------------------------------------------------------------------------
(* Properties.                                                             *)

\* The cycle has one executor at a time, the one its row names, in its
\* latest attempt.
OneExecutor ==
    \A w \in Workers : pc[w] \in Executing =>
        /\ status = "running" /\ owner = w /\ attempt[w] = attempts
        /\ \A v \in Workers \ {w} : pc[v] \notin Executing

\* A promotion rests on a validation run that completed and on its approving
\* gate decision, even when the cycle crashed or failed afterwards and
\* whatever others did to the run in the meantime.
PromotionJustified ==
    \A r \in promoted :
        PromoteOnApproval /\ phase[r] = "completed" /\ gate[r] = "approved"

\* The entries S are the account of the first n clusters in attempt a: one for
\* each, still true of the runs that had ended, of the gate decisions and of
\* that attempt's promotions.
Accounts(S, a, n) ==
    /\ {e.run : e \in S} = {a} \X (1 .. n)
    /\ \A e, f \in S : e.run = f.run => e = f
    /\ \A e \in S :
          /\ e.seen \in Validation!Ended => phase[e.run] = e.seen
          /\ e.gate = gate[e.run]
          /\ PromoteOnApproval => (e.approved <=> e.run \in promoted)

\* The result of a completed cycle is the account of one of its attempts, even
\* when two executors were at work because a lease ran out under the first.
ResultAccounts ==
    (status = "completed" /\ clusters > 0) =>
        /\ \E a \in 1 .. MaxAttempts : Accounts(result.candidates, a, clusters)
        /\ result.decision = "approved" <=> \E e \in result.candidates : e.approved

\* The cycle is not left behind while there have been fewer crashes than
\* attempts: it is being executed, or it can be claimed, or it can as soon as
\* its lease runs out.  Every other way out of _execute_cycle_record ends it.
NeverStranded ==
    (crashes < MaxAttempts /\ status \in {"queued", "running"}) =>
        \/ \E w \in Workers : pc[w] \in Executing
        \/ Claimable
        \/ attempts < MaxAttempts /\ lease = "live"

\* Once the cycle has ended, nothing is opened, judged or promoted on its
\* behalf any more, and its row stays as it is.
EndedCycleIsQuiet ==
    [][(status \in Ended) =>
          /\ UNCHANGED <<cycle, releases>>
          /\ \A r \in ValidationRuns : phase[r] = "absent" => phase'[r] = "absent"]_vars

\* A queued cycle ends, whatever its leases do, as long as there are fewer
\* crashes than attempts.
CycleEnds == (status = "queued") ~> (status \in Ended)

=============================================================================
