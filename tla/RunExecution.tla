---------------------------- MODULE RunExecution ----------------------------
(***************************************************************************)
(* Execution of replay runs by a pool of workers that share nothing but    *)
(* the database: services/workers.py (claims and leases), services/runs.py *)
(* (execute_run), the worker process (apps/worker) and the two API         *)
(* handlers that create and cancel runs.                                   *)
(*                                                                         *)
(* One action is one database transaction, or the part of execute_run      *)
(* between two commits that no network call interrupts.  Time appears only *)
(* as the state of a lease.  TimelyLeases says whether the deployment's    *)
(* leases are long enough that none runs out under an executor still at    *)
(* work: execute_run renews the lease before each case and never during    *)
(* one, so it is a matter of worker_lease_seconds against repeats times    *)
(* the replay timeout.                                                     *)
(***************************************************************************)
EXTENDS Naturals, FiniteSets

CONSTANTS Workers,        \* executors: worker processes, inline background tasks
          NoWorker,       \* the NULL of runs.worker_id
          NoAggregate,    \* the empty runs.aggregate
          NumRuns,        \* bound on the runs created, numbered by queued_at
          NumCases,       \* cases of each run, numbered by primary key
          MaxAttempts,    \* settings.worker_max_attempts
          MaxCrashes,     \* bound on the crashes of workers
          Cancellable,    \* the runs a client may ask to cancel
          TimelyLeases    \* no lease expires under a live executor

Runs == 1 .. NumRuns
Cases == 1 .. NumCases

\* runs.aggregate: how many cases have each outcome, and the cases whose
\* latency and cost went into p95_latency_ms and total_cost_usd.
Aggregates ==
    [passed : 0 .. NumCases, failed : 0 .. NumCases, flaky : 0 .. NumCases,
     error : 0 .. NumCases, sampled : SUBSET Cases]

ASSUME ConstantsOK ==
    /\ NumRuns \in Nat /\ NumCases \in Nat
    /\ MaxAttempts \in Nat /\ MaxCrashes \in Nat
    /\ NoWorker \notin Workers /\ NoAggregate \notin Aggregates
    /\ Cancellable \subseteq Runs
    /\ TimelyLeases \in BOOLEAN

ASSUME WorkersAreFinite == IsFiniteSet(Workers)

VARIABLES status, owner, lease, attempts, cancelRequested, aggregate,
          caseStatus,                   \* the rows of runs and run_cases
          pc, target, cursor, sampled,  \* each executor's program point and locals
          crashes                       \* crashes so far, for the bound

rows == <<status, owner, lease, attempts, cancelRequested, aggregate, caseStatus>>
locals == <<pc, target, cursor, sampled>>
vars == <<rows, locals, crashes>>

Ended == {"completed", "failed", "cancelled"}
Statuses == {"absent", "queued", "running"} \cup Ended
Settled == {"passed", "failed", "flaky", "skipped"}   \* never executed again
Outcomes == {"passed", "failed", "flaky", "error"}
CaseStatuses == {"absent", "pending", "running", "error"} \cup Settled
Executing == {"starting", "looping", "replaying"}

TypeOK ==
    /\ status \in [Runs -> Statuses]
    /\ owner \in [Runs -> Workers \cup {NoWorker}]
    /\ lease \in [Runs -> {"none", "live", "expired"}]
    /\ attempts \in [Runs -> 0 .. MaxAttempts]
    /\ cancelRequested \in [Runs -> BOOLEAN]
    /\ aggregate \in [Runs -> Aggregates \cup {NoAggregate}]
    /\ caseStatus \in [Runs -> [Cases -> CaseStatuses]]
    /\ pc \in [Workers -> {"idle", "selected", "down"} \cup Executing]
    /\ target \in [Workers -> Runs \cup {0}]
    /\ cursor \in [Workers -> 1 .. NumCases + 1]
    /\ sampled \in [Workers -> SUBSET Cases]
    /\ crashes \in 0 .. MaxCrashes

Init ==
    /\ status = [r \in Runs |-> "absent"]
    /\ owner = [r \in Runs |-> NoWorker]
    /\ lease = [r \in Runs |-> "none"]
    /\ attempts = [r \in Runs |-> 0]
    /\ cancelRequested = [r \in Runs |-> FALSE]
    /\ aggregate = [r \in Runs |-> NoAggregate]
    /\ caseStatus = [r \in Runs |-> [c \in Cases |-> "absent"]]
    /\ pc = [w \in Workers |-> "idle"]
    /\ target = [w \in Workers |-> 0]
    /\ cursor = [w \in Workers |-> 1]
    /\ sampled = [w \in Workers |-> {}]
    /\ crashes = 0

-----------------------------------------------------------------------------
(* The API.                                                                *)

CreateRun(r) ==
    /\ status[r] = "absent"
    /\ \A s \in 1 .. r - 1 : status[s] # "absent"
    /\ status' = [status EXCEPT ![r] = "queued"]
    /\ caseStatus' = [caseStatus EXCEPT ![r] = [c \in Cases |-> "pending"]]
    /\ UNCHANGED <<owner, lease, attempts, cancelRequested, aggregate, locals, crashes>>

\* The handler looks at no status: a run of any status can be marked.
CancelRun(r) ==
    /\ r \in Cancellable
    /\ status[r] # "absent"
    /\ ~cancelRequested[r]
    /\ cancelRequested' = [cancelRequested EXCEPT ![r] = TRUE]
    /\ UNCHANGED <<status, owner, lease, attempts, aggregate, caseStatus, locals, crashes>>

-----------------------------------------------------------------------------
(* Claims and leases.                                                      *)

\* Wrong versions of Claimable: the lease ignored, the cancellation ignored,
\* stale leases never taken over.
ClaimableAnyLease(r) ==
    /\ ~cancelRequested[r]
    /\ attempts[r] < MaxAttempts
    /\ status[r] \in {"queued", "running"}

ClaimableCancelled(r) ==
    /\ attempts[r] < MaxAttempts
    /\ status[r] = "queued" \/ (status[r] = "running" /\ lease[r] = "expired")

ClaimableQueuedOnly(r) ==
    /\ ~cancelRequested[r]
    /\ attempts[r] < MaxAttempts
    /\ status[r] = "queued"

\* The WHERE clause of claim_run and the filters of claim_next_run.  A NULL
\* lease compares as not expired.
Claimable(r) ==
    /\ ~cancelRequested[r]
    /\ attempts[r] < MaxAttempts
    /\ \/ status[r] = "queued"
       \/ status[r] = "running" /\ lease[r] = "expired"

\* The guarded UPDATE of claim_run.
ClaimRow(w, r) ==
    /\ Claimable(r)
    /\ status' = [status EXCEPT ![r] = "running"]
    /\ owner' = [owner EXCEPT ![r] = w]
    /\ lease' = [lease EXCEPT ![r] = "live"]
    /\ attempts' = [attempts EXCEPT ![r] = @ + 1]
    /\ UNCHANGED <<cancelRequested, aggregate, caseStatus, crashes>>

\* extend_run_lease: whoever the row names as its worker.
ExtendedLease(r) == IF owner[r] = NoWorker THEN lease[r] ELSE "live"

\* An executor that is done with its run goes to the program point p.
Leave(w, p) ==
    /\ pc' = [pc EXCEPT ![w] = p]
    /\ target' = [target EXCEPT ![w] = 0]
    /\ cursor' = [cursor EXCEPT ![w] = 1]
    /\ sampled' = [sampled EXCEPT ![w] = {}]

\* The SELECT of claim_next_run: the oldest claimable run.
SelectNext(w) ==
    /\ pc[w] = "idle"
    /\ \E r \in Runs :
          /\ Claimable(r)
          /\ \A s \in 1 .. r - 1 : ~Claimable(s)
          /\ target' = [target EXCEPT ![w] = r]
    /\ pc' = [pc EXCEPT ![w] = "selected"]
    /\ UNCHANGED <<rows, cursor, sampled, crashes>>

\* The claim_run that follows; other executors may have moved in between.
ClaimSelected(w) ==
    /\ pc[w] = "selected"
    /\ \/ /\ ClaimRow(w, target[w])
          /\ pc' = [pc EXCEPT ![w] = "starting"]
          /\ UNCHANGED <<target, cursor, sampled>>
       \/ /\ ~Claimable(target[w])
          /\ Leave(w, "idle")
          /\ UNCHANGED <<rows, crashes>>

\* A claim of a given run: `hyoka-worker once <run_id>` goes on to
\* execute_run with already_claimed ("starting"), the inline background task
\* makes the claim inside execute_run and is in the case loop ("looping").
ClaimGiven(w, r, p) ==
    /\ pc[w] = "idle"
    /\ ClaimRow(w, r)
    /\ pc' = [pc EXCEPT ![w] = p]
    /\ target' = [target EXCEPT ![w] = r]
    /\ UNCHANGED <<cursor, sampled>>

\* Time passes.
LeaseExpires(r) ==
    /\ lease[r] = "live"
    /\ TimelyLeases => \A w \in Workers : ~(pc[w] \in Executing /\ target[w] = r)
    /\ lease' = [lease EXCEPT ![r] = "expired"]
    /\ UNCHANGED <<status, owner, attempts, cancelRequested, aggregate, caseStatus,
                   locals, crashes>>

-----------------------------------------------------------------------------
(* execute_run.                                                            *)

\* A wrong version of StartExecution: the attempt is counted a second time.
StartCountedAgain(w) ==
    /\ pc[w] = "starting"
    /\ \/ /\ status[target[w]] \in Ended
          /\ Leave(w, "idle")
          /\ UNCHANGED <<rows, crashes>>
       \/ /\ status[target[w]] \notin Ended
          /\ status' = [status EXCEPT ![target[w]] = "running"]
          /\ lease' = [lease EXCEPT ![target[w]] = ExtendedLease(target[w])]
          /\ attempts' = [attempts EXCEPT ![target[w]] = @ + 1]
          /\ pc' = [pc EXCEPT ![w] = "looping"]
          /\ UNCHANGED <<owner, cancelRequested, aggregate, caseStatus,
                         target, cursor, sampled, crashes>>

\* The early return on an ended run, or the no-op status and a fresh lease.
StartExecution(w) ==
    /\ pc[w] = "starting"
    /\ \/ /\ status[target[w]] \in Ended
          /\ Leave(w, "idle")
          /\ UNCHANGED <<rows, crashes>>
       \/ /\ status[target[w]] \notin Ended
          /\ status' = [status EXCEPT ![target[w]] = "running"]
          /\ lease' = [lease EXCEPT ![target[w]] = ExtendedLease(target[w])]
          /\ pc' = [pc EXCEPT ![w] = "looping"]
          /\ UNCHANGED <<owner, attempts, cancelRequested, aggregate, caseStatus,
                         target, cursor, sampled, crashes>>

\* run.status := s with the lease released, as every way out of execute_run does.
EndRow(r, s) ==
    /\ status' = [status EXCEPT ![r] = s]
    /\ owner' = [owner EXCEPT ![r] = NoWorker]
    /\ lease' = [lease EXCEPT ![r] = "none"]
    /\ UNCHANGED <<attempts, cancelRequested, crashes>>

AtCase(w) == pc[w] = "looping" /\ cursor[w] \in Cases

\* Wrong versions of StopCancelled: the case a crashed attempt left running is
\* forgotten; the loop returns without ending the run.
StopCancelledPendingOnly(w) ==
    LET r == target[w] IN
    /\ AtCase(w)
    /\ cancelRequested[r]
    /\ caseStatus' = [caseStatus EXCEPT ![r] =
                        [c \in Cases |-> IF @[c] = "pending" THEN "skipped" ELSE @[c]]]
    /\ EndRow(r, "cancelled")
    /\ Leave(w, "idle")
    /\ UNCHANGED aggregate

StopCancelledQuietly(w) ==
    /\ AtCase(w)
    /\ cancelRequested[target[w]]
    /\ Leave(w, "idle")
    /\ UNCHANGED <<rows, crashes>>

\* Cancellation is looked at before each case, and nowhere else.
StopCancelled(w) ==
    LET r == target[w] IN
    /\ AtCase(w)
    /\ cancelRequested[r]
    /\ caseStatus' = [caseStatus EXCEPT ![r] =
                        [c \in Cases |-> IF @[c] \in {"pending", "running"}
                                         THEN "skipped" ELSE @[c]]]
    /\ EndRow(r, "cancelled")
    /\ Leave(w, "idle")
    /\ UNCHANGED aggregate

\* A wrong version of SkipSettled: whatever an earlier attempt began is skipped.
SkipStarted(w) ==
    /\ AtCase(w)
    /\ ~cancelRequested[target[w]]
    /\ caseStatus[target[w]][cursor[w]] # "pending"
    /\ cursor' = [cursor EXCEPT ![w] = @ + 1]
    /\ UNCHANGED <<rows, pc, target, sampled, crashes>>

\* A case an earlier attempt settled is not executed again.
SkipSettled(w) ==
    /\ AtCase(w)
    /\ ~cancelRequested[target[w]]
    /\ caseStatus[target[w]][cursor[w]] \in Settled
    /\ cursor' = [cursor EXCEPT ![w] = @ + 1]
    /\ UNCHANGED <<rows, pc, target, sampled, crashes>>

BeginCase(w) ==
    LET r == target[w] IN
    /\ AtCase(w)
    /\ ~cancelRequested[r]
    /\ caseStatus[r][cursor[w]] \notin Settled
    /\ lease' = [lease EXCEPT ![r] = ExtendedLease(r)]
    /\ caseStatus' = [caseStatus EXCEPT ![r][cursor[w]] = "running"]
    /\ pc' = [pc EXCEPT ![w] = "replaying"]
    /\ UNCHANGED <<status, owner, attempts, cancelRequested, aggregate,
                   target, cursor, sampled, crashes>>

\* A wrong version of RecordCase: only cases that passed enter the lists.
RecordPassedCase(w, o) ==
    LET r == target[w] IN
    /\ pc[w] = "replaying"
    /\ caseStatus' = [caseStatus EXCEPT ![r][cursor[w]] = o]
    /\ sampled' = [sampled EXCEPT ![w] = IF o = "passed" THEN @ \cup {cursor[w]} ELSE @]
    /\ cursor' = [cursor EXCEPT ![w] = @ + 1]
    /\ pc' = [pc EXCEPT ![w] = "looping"]
    /\ UNCHANGED <<status, owner, lease, attempts, cancelRequested, aggregate,
                   target, crashes>>

\* Replay and evaluation are over; nothing of the run's row is read again.
RecordCase(w, o) ==
    LET r == target[w] IN
    /\ pc[w] = "replaying"
    /\ caseStatus' = [caseStatus EXCEPT ![r][cursor[w]] = o]
    /\ sampled' = [sampled EXCEPT ![w] = @ \cup {cursor[w]}]
    /\ cursor' = [cursor EXCEPT ![w] = @ + 1]
    /\ pc' = [pc EXCEPT ![w] = "looping"]
    /\ UNCHANGED <<status, owner, lease, attempts, cancelRequested, aggregate,
                   target, crashes>>

CountOf(r, s) == Cardinality({c \in Cases : caseStatus[r][c] = s})

\* The counts are read from the rows; latencies and costs are the lists this
\* attempt filled, so they stand for the cases in sampled[w] only.
AggregateOf(w) ==
    [passed |-> CountOf(target[w], "passed"), failed |-> CountOf(target[w], "failed"),
     flaky |-> CountOf(target[w], "flaky"), error |-> CountOf(target[w], "error"),
     sampled |-> sampled[w]]

CompleteRun(w) ==
    /\ pc[w] = "looping"
    /\ cursor[w] = NumCases + 1
    /\ aggregate' = [aggregate EXCEPT ![target[w]] = AggregateOf(w)]
    /\ EndRow(target[w], "completed")
    /\ Leave(w, "idle")
    /\ UNCHANGED caseStatus

\* An exception between two cases or while the report is written.  The handler
\* commits what was flushed (the aggregate, once it is set) and raises, which
\* ends the worker process: its loop catches nothing.
FailRun(w) ==
    /\ pc[w] = "looping"
    /\ aggregate' \in
         {aggregate} \cup
         (IF cursor[w] = NumCases + 1
          THEN {[aggregate EXCEPT ![target[w]] = AggregateOf(w)]} ELSE {})
    /\ EndRow(target[w], "failed")
    /\ Leave(w, "down")
    /\ UNCHANGED caseStatus

\* An exception when the row of a case is changed but not yet committed (a
\* latency or cost of the trace that is no number): the handler's commit
\* writes the row as well.
FailRecording(w, o) ==
    LET r == target[w] IN
    /\ pc[w] = "replaying"
    /\ caseStatus' = [caseStatus EXCEPT ![r][cursor[w]] = o]
    /\ EndRow(r, "failed")
    /\ Leave(w, "down")
    /\ UNCHANGED aggregate

-----------------------------------------------------------------------------
(* The worker process.                                                     *)

\* The process dies, or a commit of execute_run fails and its exception
\* handler cannot commit either: the rows stay as they are.
Crash(w) ==
    /\ pc[w] \notin {"idle", "down"}
    /\ crashes < MaxCrashes
    /\ crashes' = crashes + 1
    /\ Leave(w, "down")
    /\ UNCHANGED rows

Restart(w) ==
    /\ pc[w] = "down"
    /\ Leave(w, "idle")
    /\ UNCHANGED <<rows, crashes>>

ExecutorStep(w) ==
    \/ SelectNext(w) \/ ClaimSelected(w) \/ StartExecution(w)
    \/ StopCancelled(w) \/ SkipSettled(w) \/ BeginCase(w)
    \/ \E o \in Outcomes : RecordCase(w, o) \/ FailRecording(w, o)
    \/ CompleteRun(w) \/ FailRun(w) \/ Restart(w)

Next ==
    \/ \E r \in Runs : CreateRun(r) \/ CancelRun(r) \/ LeaseExpires(r)
    \/ \E w \in Workers :
          \/ ExecutorStep(w)
          \/ Crash(w)
          \/ \E r \in Runs, p \in {"starting", "looping"} : ClaimGiven(w, r, p)

Spec == Init /\ [][Next]_vars

\* A worker that is up polls and executes, a worker that is down is started
\* again, and time passes.  Clients and crashes owe nothing.
Fairness ==
    /\ \A w \in Workers : WF_vars(ExecutorStep(w))
    /\ \A r \in Runs : WF_vars(LeaseExpires(r))

FairSpec == Spec /\ Fairness

-----------------------------------------------------------------------------
(* Properties.                                                             *)

\* A run has one executor at a time, the one its row names as the owner
\* ("one clear execution owner per run", claim_run).
OneExecutor ==
    \A w \in Workers :
        pc[w] \in Executing =>
            /\ owner[target[w]] = w
            /\ \A v \in Workers \ {w} : pc[v] \in Executing => target[v] # target[w]

\* A completed run accounts for every one of its cases: each has an outcome
\* and the aggregate the gate reads agrees with the case rows, whatever other
\* executors did before or after execute_run wrote it.
CompletedRunAccounted ==
    \A r \in Runs : status[r] = "completed" =>
        /\ aggregate[r] # NoAggregate
        /\ \A c \in Cases : caseStatus[r][c] \in Outcomes
        /\ \A o \in Outcomes : aggregate[r][o] = CountOf(r, o)

\* The latency and cost figures of a run that needed one attempt cover all of
\* its cases.  After a crash they need not: the lists are local to an attempt.
FirstAttemptFigures ==
    \A r \in Runs :
        (status[r] = "completed" /\ attempts[r] = 1) => aggregate[r].sampled = Cases

\* A cancelled run was asked to be cancelled, has no case left open and no
\* aggregate that compare or a gate could take for a result.
CancelledRunClosed ==
    \A r \in Runs : status[r] = "cancelled" =>
        /\ cancelRequested[r]
        /\ aggregate[r] = NoAggregate
        /\ \A c \in Cases : caseStatus[r][c] \in Outcomes \cup {"skipped"}

\* No run is left behind while there have been fewer crashes than attempts: a
\* run that nobody asked to cancel is being executed, or it can be claimed, or
\* it can as soon as its lease runs out.  Only a crash uses up an attempt
\* without ending the run (claim_run counts, execute_run does not).
NeverStranded ==
    crashes < MaxAttempts =>
        \A r \in Runs : (status[r] \in {"queued", "running"} /\ ~cancelRequested[r]) =>
            \/ \E w \in Workers : pc[w] \in Executing /\ target[w] = r
            \/ Claimable(r)
            \/ attempts[r] < MaxAttempts /\ lease[r] = "live"

\* execute_run never moves an ended run, nor a case it had settled: no retry
\* after a crash repeats a replay whose result was committed.
SettledStays ==
    [][\A r \in Runs :
          /\ status[r] \in Ended => status'[r] = status[r]
          /\ \A c \in Cases :
                caseStatus[r][c] \in Settled => caseStatus'[r][c] = caseStatus[r][c]]_rows

\* Every run that nobody asks to cancel ends, through crashes and restarts,
\* as long as there are fewer crashes than attempts.
RunsEnd ==
    \A r \in Runs :
        status[r] = "queued" ~> (status[r] \in Ended \/ cancelRequested[r])

\* A cancellation that reaches a run while an executor is at work on it ends
\* the run, unless that executor dies before it looks again.
CancelEndsRunning ==
    \A r \in Runs, w \in Workers :
        (cancelRequested[r] /\ pc[w] \in Executing /\ target[w] = r)
            ~> (status[r] \in Ended \/ pc[w] = "down")

\* FR-037 taken at its word: a run that was asked to be cancelled ends.
CancelEndsRun == \A r \in Runs : cancelRequested[r] ~> (status[r] \in Ended)

\* The lifecycle the clients see: a case that is pending or being replayed is
\* open, everything else is as the rows have it.
VerdictOf(s) == IF s \in {"absent", "pending", "running"} THEN "open" ELSE s

Lifecycle == INSTANCE RunLifecycle WITH
    phase <- status,
    verdict <- [r \in Runs |-> [c \in Cases |-> VerdictOf(caseStatus[r][c])]],
    cancelAsked <- cancelRequested

\* The executors, their claims and their crashes implement the lifecycle.
ImplementsLifecycle == Lifecycle!Spec

=============================================================================
