---------------------------- MODULE GateEvidence ----------------------------
(***************************************************************************)
(* From the repeated replays of a run's cases to a release decision: what  *)
(* execute_run (services/runs.py) keeps of the repeats of a case, how it   *)
(* sums the cases up, and what evaluate_gate_policy (services/gates.py)    *)
(* makes of that.  A case may be replayed anew by a later attempt.  Claims *)
(* and leases are those of RunExecution; here a run has one executor.      *)
(***************************************************************************)
EXTENDS Naturals, Sequences, FiniteSets

CONSTANTS NumCases,      \* cases of the run
          Repeats,       \* run.repeats
          Outputs,       \* final outputs of a replay
          NoOutput,      \* the output of a replay that raised
          Labels,        \* labels of evaluator results
          ErrorLabels,   \* ["replay", "execution_error"]
          Outcomes,      \* how a repeat may turn out
          Latencies,     \* what trace.summary may say: functions on the cases
          NoLimit,       \* max_p95_latency_ms = None
          Policies,      \* gate policies, percentages as numbers 0 .. 100
          MaxCrashes     \* bound on the attempts of the run that die

Cases == 1 .. NumCases

\* One repeat: its output, and the labels of the evaluations that failed.  An
\* evaluation may fail without a label.
Replays ==
    {o \in [passed : BOOLEAN, output : Outputs, labels : SUBSET Labels] :
        o.passed => o.labels = {}}

Raised == [passed |-> FALSE, output |-> NoOutput, labels |-> ErrorLabels]

AllPolicies ==
    [minPass : 0 .. 100, maxFlaky : 0 .. 100, maxP95 : Nat \cup {NoLimit},
     blockOn : SUBSET (Labels \cup ErrorLabels)]

ASSUME EvidenceConstantsOK ==
    /\ NumCases \in Nat /\ Repeats \in Nat \ {0} /\ MaxCrashes \in Nat
    /\ NoOutput \notin Outputs /\ NoLimit \notin Nat
    /\ Outcomes \subseteq Replays \cup {Raised}
    /\ Latencies \subseteq [Cases -> Nat]
    /\ Policies \subseteq AllPolicies

VARIABLES status,     \* status of the run
          verdict,    \* run_cases.status
          evidence,   \* the failed labels in run_cases.eval_results
          aggregate,  \* run.aggregate
          decisions,  \* gate_decisions of the run
          manifest,   \* the decision on the manifest run.manifest_id names
          pc, cursor, tries, measured,  \* locals of execute_run
          latency,    \* trace -> summary["latency_ms"]
          replays,    \* history: the repeats behind each recorded verdict
          crashes     \* attempts that died so far

row == <<status, verdict, evidence, aggregate, decisions, manifest>>
locals == <<pc, cursor, tries, measured>>
vars == <<row, locals, latency, replays, crashes>>

Settled == {"passed", "failed", "flaky", "skipped"}
NoAggregate == [passed |-> 0, flaky |-> 0, total |-> 0, p95 |-> 0]
Aggregates == [passed : Nat, flaky : Nat, total : Nat, p95 : Nat]
Decisions == [policy : Policies, decision : {"approved", "blocked"}]

TypeOK ==
    /\ status \in {"running", "completed", "failed"}
    /\ verdict \in [Cases -> {"pending", "running", "passed", "failed", "flaky", "error"}]
    /\ evidence \in [Cases -> SUBSET (Labels \cup ErrorLabels)]
    /\ aggregate \in Aggregates
    /\ decisions \subseteq Decisions
    /\ manifest \in {"none", "needs_review", "approved", "blocked"}
    /\ pc \in {"next", "replay", "done"}
    /\ cursor \in 1 .. NumCases + 1
    /\ tries \in Seq(Outcomes) /\ Len(tries) <= Repeats
    /\ measured \subseteq Cases
    /\ latency \in [Cases -> Nat]
    /\ replays \in [Cases -> Seq(Outcomes)]
    /\ crashes \in 0 .. MaxCrashes

Init ==
    /\ status = "running"
    /\ verdict = [c \in Cases |-> "pending"]
    /\ evidence = [c \in Cases |-> {}]
    /\ aggregate = NoAggregate
    /\ decisions = {}
    /\ manifest = "none"
    /\ pc = "next" /\ cursor = 1 /\ tries = <<>> /\ measured = {}
    /\ latency \in Latencies
    /\ replays = [c \in Cases |-> <<>>]
    /\ crashes = 0

-----------------------------------------------------------------------------
(* The case loop.                                                          *)

Last(s) == s[Len(s)]
IsRaised(t) == t # <<>> /\ Last(t).output = NoOutput

BeginCase ==
    /\ pc = "next" /\ cursor <= NumCases
    /\ verdict[cursor] \notin Settled
    /\ verdict' = [verdict EXCEPT ![cursor] = "running"]
    /\ pc' = "replay"
    /\ tries' = <<>>
    /\ UNCHANGED <<status, evidence, aggregate, decisions, manifest, cursor,
                   measured, latency, replays, crashes>>

SkipSettled ==
    /\ pc = "next" /\ cursor <= NumCases
    /\ verdict[cursor] \in Settled
    /\ cursor' = cursor + 1
    /\ UNCHANGED <<row, pc, tries, measured, latency, replays, crashes>>

\* One repeat; a replay or an evaluation that raises is the last one.
Replay(o) ==
    /\ pc = "replay"
    /\ Len(tries) < Repeats /\ ~IsRaised(tries)
    /\ tries' = Append(tries, o)
    /\ UNCHANGED <<row, pc, cursor, measured, latency, replays, crashes>>

Passes(t) == {i \in DOMAIN t : t[i].passed}
Variants(t) == {t[i].output : i \in DOMAIN t} \ {NoOutput}

\* Wrong versions of IsFlaky: only the outcome counts, only the outputs count.
IsFlakyByOutcome(t) ==
    Repeats > 1 /\ Passes(t) # {} /\ Passes(t) # DOMAIN t

IsFlakyByOutput(t) ==
    Repeats > 1 /\ Cardinality(Variants(t)) > 1

IsFlaky(t) ==
    /\ Repeats > 1
    /\ \/ Passes(t) # {} /\ Passes(t) # DOMAIN t
       \/ Cardinality(Variants(t)) > 1

Verdict(t) ==
    IF IsRaised(t) THEN "error"
    ELSE IF IsFlaky(t) THEN "flaky"
    ELSE IF Passes(t) = DOMAIN t THEN "passed"
    ELSE "failed"

\* A wrong version of Evidence: the evaluations of the first repeat.
EvidenceOfFirst(t) == t[1].labels

Evidence(t) == Last(t).labels

RecordCase ==
    /\ pc = "replay"
    /\ Len(tries) = Repeats \/ IsRaised(tries)
    /\ verdict' = [verdict EXCEPT ![cursor] = Verdict(tries)]
    /\ evidence' = [evidence EXCEPT ![cursor] = Evidence(tries)]
    /\ replays' = [replays EXCEPT ![cursor] = tries]
    /\ measured' = measured \cup {cursor}
    /\ cursor' = cursor + 1
    /\ pc' = "next"
    /\ tries' = <<>>
    /\ UNCHANGED <<status, aggregate, decisions, manifest, latency, crashes>>

-----------------------------------------------------------------------------
(* Aggregate, end of the run, and the next attempt.                        *)

\* The element at position k of the sorted latencies of the cases in C.
Ordered(C, k) ==
    CHOOSE v \in {latency[c] : c \in C} :
        /\ Cardinality({c \in C : latency[c] < v}) < k
        /\ k <= Cardinality({c \in C : latency[c] <= v})

\* A wrong version of P95: one position too low.
P95TooLow(C) ==
    LET k == (95 * Cardinality(C)) \div 100 IN
    IF C = {} THEN 0 ELSE Ordered(C, IF k = 0 THEN 1 ELSE k)

\* The position is the ceiling of 0.95 * len.
P95(C) ==
    IF C = {} THEN 0 ELSE Ordered(C, (95 * Cardinality(C) + 99) \div 100)

AggregateNow ==
    [passed |-> Cardinality({c \in Cases : verdict[c] = "passed"}),
     flaky |-> Cardinality({c \in Cases : verdict[c] = "flaky"}),
     total |-> NumCases,
     p95 |-> P95(measured)]

CompleteRun ==
    /\ pc = "next" /\ cursor > NumCases
    /\ aggregate' = AggregateNow
    /\ status' = "completed"
    /\ manifest' = "needs_review"
    /\ pc' = "done"
    /\ UNCHANGED <<verdict, evidence, decisions, cursor, tries, measured,
                   latency, replays, crashes>>

\* A wrong version of FailRun: it sums up what there is by then.
FailAndSumUp ==
    /\ pc = "next"
    /\ status' = "failed" /\ aggregate' = AggregateNow
    /\ pc' = "done"
    /\ UNCHANGED <<verdict, evidence, decisions, manifest, cursor, tries, measured,
                   latency, replays, crashes>>

\* An exception outside a replay.  While the report or the manifest is made
\* the aggregate is there already and is committed with the failure.
FailRun ==
    /\ pc = "next"
    /\ status' = "failed"
    /\ \/ UNCHANGED <<aggregate, manifest>>
       \/ /\ cursor > NumCases
          /\ aggregate' = AggregateNow
          /\ manifest' \in {"none", "needs_review"}
    /\ pc' = "done"
    /\ UNCHANGED <<verdict, evidence, decisions, cursor, tries, measured,
                   latency, replays, crashes>>

\* The executor dies and another takes the run over: the rows stay, the lists
\* of the attempt are gone.
TakeOver ==
    /\ pc \in {"next", "replay"}
    /\ crashes < MaxCrashes
    /\ crashes' = crashes + 1
    /\ pc' = "next" /\ cursor' = 1 /\ tries' = <<>> /\ measured' = {}
    /\ UNCHANGED <<row, latency, replays>>

-----------------------------------------------------------------------------
(* evaluate_gate_policy.                                                   *)

\* pass_rate and flaky_rate are 0 for a run without cases.
PassRateLow(p) == 100 * aggregate.passed < p.minPass * aggregate.total \/
                  (aggregate.total = 0 /\ p.minPass > 0)
FlakyRateHigh(p) == 100 * aggregate.flaky > p.maxFlaky * aggregate.total
TooSlow(p) == p.maxP95 # NoLimit /\ aggregate.p95 > p.maxP95
Blocking(p) == p.blockOn \cap UNION {evidence[c] : c \in Cases}

\* required_artifacts asks for the manifest every completed run has.
Approves(p) ==
    /\ ~PassRateLow(p) /\ ~FlakyRateHigh(p) /\ ~TooSlow(p)
    /\ Blocking(p) = {}

\* A wrong version of Gateable: RUN_NOT_COMPLETED is never answered.
GateableAnyStatus == status \in {"running", "completed", "failed"}

Gateable == status = "completed"

\* POST /v1/gates/evaluate, and _evaluate_gate of a self-improvement cycle.
EvaluateGate(p) ==
    LET d == IF Approves(p) THEN "approved" ELSE "blocked" IN
    /\ Gateable
    /\ decisions' = decisions \cup {[policy |-> p, decision |-> d]}
    /\ manifest' = d
    /\ UNCHANGED <<status, verdict, evidence, aggregate, locals, latency, replays, crashes>>

Next ==
    \/ BeginCase \/ SkipSettled \/ RecordCase
    \/ \E o \in Outcomes : Replay(o)
    \/ CompleteRun \/ FailRun \/ TakeOver
    \/ \E p \in Policies : EvaluateGate(p)

Spec == Init /\ [][Next]_vars

-----------------------------------------------------------------------------
(* Properties.                                                             *)

AllPassedAlike(t) ==
    /\ Len(t) = Repeats
    /\ \A i, j \in 1 .. Repeats : t[i].passed /\ t[i].output = t[j].output
AllFailedAlike(t) ==
    /\ Len(t) = Repeats
    /\ \A i, j \in 1 .. Repeats : ~t[i].passed /\ t[i].output = t[j].output
SomeRaised(t) == \E i \in DOMAIN t : t[i].output = NoOutput
Disagree(t) ==
    \E i, j \in DOMAIN t : t[i].passed # t[j].passed \/ t[i].output # t[j].output

\* A verdict says what the repeats of the case say together: all passed with
\* one output, all failed with one output, none raised but two disagree, or
\* one raised.
VerdictsHonest ==
    \A c \in Cases :
        LET t == replays[c] IN
        /\ verdict[c] = "passed" => ~SomeRaised(t) /\ AllPassedAlike(t)
        /\ verdict[c] = "failed" => ~SomeRaised(t) /\ AllFailedAlike(t)
        /\ verdict[c] = "flaky" => ~SomeRaised(t) /\ Disagree(t) /\ Len(t) = Repeats
        /\ verdict[c] = "error" => SomeRaised(t)

\* An approval is earned by the replays themselves: enough cases passed in
\* every repeat with one output, and few enough cases were inconsistent.
ApprovalEarned ==
    \A d \in decisions : d.decision = "approved" =>
        /\ 100 * Cardinality({c \in Cases : AllPassedAlike(replays[c])})
             >= d.policy.minPass * NumCases
        /\ 100 * Cardinality({c \in Cases : Disagree(replays[c]) /\ ~SomeRaised(replays[c])})
             <= d.policy.maxFlaky * NumCases

\* A replay that raised cannot hide behind the repeats before it: a policy
\* that blocks on one of its labels does not approve.
RaisedReplayBlocks ==
    \A d \in decisions :
        (d.decision = "approved" /\ d.policy.blockOn \cap ErrorLabels # {}) =>
            \A c \in Cases : ~SomeRaised(replays[c])

\* Policy p asks no less than policy q in any respect.
AsStrict(p, q) ==
    /\ p.minPass >= q.minPass /\ p.maxFlaky <= q.maxFlaky
    /\ q.maxP95 # NoLimit => p.maxP95 # NoLimit /\ p.maxP95 <= q.maxP95
    /\ q.blockOn \subseteq p.blockOn

\* What one policy blocks no policy as strict approves, before or after: a run
\* does not get through by asking again, for the same policy or for another
\* one (evaluate_gate answers for completed runs alone, and they stay as they
\* are).
StricterPolicyBlocks ==
    \A d, e \in decisions :
        d.decision = "blocked" /\ AsStrict(e.policy, d.policy) => e.decision = "blocked"

\* The aggregate of a failed run can be trusted as that of a completed one: it
\* says "completed" and compare_runs reads it whatever the status of the run.
\* Where there is one, no case is open and its counts are those of the rows, at
\* whatever point execute_run failed and however many attempts it took.
AggregateAgrees ==
    aggregate # NoAggregate =>
        /\ \A c \in Cases : verdict[c] \in {"passed", "failed", "flaky", "error"}
        /\ aggregate.passed = Cardinality({c \in Cases : verdict[c] = "passed"})
        /\ aggregate.flaky = Cardinality({c \in Cases : verdict[c] = "flaky"})
        /\ aggregate.total = NumCases

\* In a run that no attempt has died in, the limit on p95 bites exactly when
\* more than one case in twenty is slower than it.
LatencyLimitExact ==
    (status = "completed" /\ crashes = 0 /\ NumCases > 0) =>
        \A p \in Policies : p.maxP95 # NoLimit =>
            (TooSlow(p) <=>
                20 * Cardinality({c \in Cases : latency[c] > p.maxP95}) > NumCases)

\* FR-073 taken at its word: a label the policy blocks on, on a failed
\* evaluation of any repeat, blocks.
BlockingLabelBlocks ==
    \A d \in decisions : d.decision = "approved" =>
        \A c \in Cases : \A i \in DOMAIN replays[c] :
            replays[c][i].labels \cap d.policy.blockOn = {}

=============================================================================
