------------------------- MODULE RunExecutionProofs -------------------------
(***************************************************************************)
(* Theorems about RunExecution for any number of workers, runs, cases,     *)
(* attempts and crashes.                                                   *)
(***************************************************************************)
EXTENDS RunExecution, FiniteSetTheorems, TLAPS

\* What the executors' locals satisfy whatever the leases do.
LocalsOK ==
    \A w \in Workers :
        /\ pc[w] \in Executing \cup {"selected"} => target[w] \in Runs
        /\ pc[w] = "replaying" => cursor[w] \in Cases
        /\ pc[w] \notin {"looping", "replaying"} => cursor[w] = 1

TypeInv == TypeOK /\ LocalsOK

-----------------------------------------------------------------------------

\* The number of cases in a status is between 0 and the number of cases.
LEMMA CountOfBound ==
    ASSUME NEW r \in Runs, NEW s
    PROVE  CountOf(r, s) \in 0 .. NumCases
<1> DEFINE S == {c \in Cases : caseStatus[r][c] = s}
<1>1. IsFiniteSet(Cases) /\ Cardinality(Cases) = NumCases
  BY ConstantsOK, FS_Interval DEF Cases
<1>2. S \subseteq Cases
  OBVIOUS
<1>3. IsFiniteSet(S) /\ Cardinality(S) <= Cardinality(Cases)
  BY <1>1, <1>2, FS_Subset
<1>4. Cardinality(S) \in Nat
  BY <1>3, FS_CardinalityType
<1>. QED
  BY <1>1, <1>3, <1>4, ConstantsOK DEF CountOf

\* What execute_run writes as the aggregate is an aggregate.
LEMMA AggregateOfType ==
    ASSUME TypeOK, NEW w \in Workers, target[w] \in Runs
    PROVE  AggregateOf(w) \in Aggregates
  BY CountOfBound DEF AggregateOf, Aggregates, TypeOK

\* An empty database and idle executors are well typed.
LEMMA InitTypeInv == Init => TypeInv
  BY ConstantsOK DEF Init, TypeInv, TypeOK, LocalsOK, Runs, Cases, Statuses,
                     CaseStatuses, Executing

\* The rows a claim leaves behind.
LEMMA ClaimRowType ==
    ASSUME TypeOK, NEW w \in Workers, NEW r \in Runs, ClaimRow(w, r)
    PROVE  /\ status' \in [Runs -> Statuses]
           /\ owner' \in [Runs -> Workers \cup {NoWorker}]
           /\ lease' \in [Runs -> {"none", "live", "expired"}]
           /\ attempts' \in [Runs -> 0 .. MaxAttempts]
           /\ UNCHANGED <<cancelRequested, aggregate, caseStatus, crashes>>
<1>1. attempts[r] + 1 \in 0 .. MaxAttempts
  BY ConstantsOK DEF ClaimRow, Claimable, TypeOK
<1>. QED
  BY <1>1 DEF ClaimRow, TypeOK, Statuses

\* The rows left behind by a way out of execute_run.
LEMMA EndRowType ==
    ASSUME TypeOK, NEW r \in Runs, NEW s \in Ended, EndRow(r, s)
    PROVE  /\ status' \in [Runs -> Statuses]
           /\ owner' \in [Runs -> Workers \cup {NoWorker}]
           /\ lease' \in [Runs -> {"none", "live", "expired"}]
           /\ UNCHANGED <<attempts, cancelRequested, crashes>>
  BY DEF EndRow, TypeOK, Statuses

\* The locals of an executor that leaves its run, and those of the others.
LEMMA LeaveType ==
    ASSUME TypeInv, NEW w \in Workers, NEW p \in {"idle", "down"}, Leave(w, p)
    PROVE  /\ pc' \in [Workers -> {"idle", "selected", "down"} \cup Executing]
           /\ target' \in [Workers -> Runs \cup {0}]
           /\ cursor' \in [Workers -> 1 .. NumCases + 1]
           /\ sampled' \in [Workers -> SUBSET Cases]
           /\ LocalsOK'
<1>1. 1 \in 1 .. NumCases + 1
  BY ConstantsOK
<1>. QED
  BY <1>1 DEF Leave, TypeInv, TypeOK, LocalsOK, Executing

\* The type invariant is inductive: one step per action.
LEMMA NextTypeInv == TypeInv /\ [Next]_vars => TypeInv'
<1> SUFFICES ASSUME TypeInv, [Next]_vars PROVE TypeInv'
  OBVIOUS
<1> USE ConstantsOK
<1>1. ASSUME NEW r \in Runs, CreateRun(r) PROVE TypeInv'
  BY <1>1 DEF CreateRun, locals, TypeInv, TypeOK, LocalsOK, Statuses, CaseStatuses
<1>2. ASSUME NEW r \in Runs, CancelRun(r) PROVE TypeInv'
  BY <1>2 DEF CancelRun, locals, TypeInv, TypeOK, LocalsOK
<1>3. ASSUME NEW r \in Runs, LeaseExpires(r) PROVE TypeInv'
  BY <1>3 DEF LeaseExpires, locals, TypeInv, TypeOK, LocalsOK
<1>4. ASSUME NEW w \in Workers, NEW r \in Runs, NEW p \in {"starting", "looping"},
             ClaimGiven(w, r, p)
      PROVE TypeInv'
  <2>1. ClaimRow(w, r) /\ TypeOK
    BY <1>4 DEF ClaimGiven, TypeInv
  <2>. QED
    BY <1>4, <2>1, ClaimRowType DEF ClaimGiven, TypeInv, TypeOK, LocalsOK, Executing
<1>5. ASSUME NEW w \in Workers, SelectNext(w) PROVE TypeInv'
  BY <1>5 DEF SelectNext, rows, TypeInv, TypeOK, LocalsOK, Executing
<1>6. ASSUME NEW w \in Workers, ClaimSelected(w) PROVE TypeInv'
  <2>1. TypeOK /\ target[w] \in Runs
    BY <1>6 DEF ClaimSelected, TypeInv, LocalsOK
  <2>2. CASE ClaimRow(w, target[w]) /\ pc' = [pc EXCEPT ![w] = "starting"]
             /\ UNCHANGED <<target, cursor, sampled>>
    <3>1. /\ status' \in [Runs -> Statuses]
          /\ owner' \in [Runs -> Workers \cup {NoWorker}]
          /\ lease' \in [Runs -> {"none", "live", "expired"}]
          /\ attempts' \in [Runs -> 0 .. MaxAttempts]
          /\ UNCHANGED <<cancelRequested, aggregate, caseStatus, crashes>>
      BY <2>1, <2>2, ClaimRowType
    <3>2. pc[w] = "selected"
      BY <1>6 DEF ClaimSelected
    <3>. QED
      BY <2>1, <2>2, <3>1, <3>2 DEF TypeInv, TypeOK, LocalsOK, Executing
  <2>3. CASE Leave(w, "idle") /\ UNCHANGED <<rows, crashes>>
    BY <2>3, LeaveType DEF TypeInv, TypeOK, rows
  <2>. QED
    BY <1>6, <2>2, <2>3 DEF ClaimSelected
<1>7. ASSUME NEW w \in Workers, StartExecution(w) PROVE TypeInv'
  <2>1. target[w] \in Runs
    BY <1>7 DEF StartExecution, TypeInv, LocalsOK, Executing
  <2>2. CASE Leave(w, "idle") /\ UNCHANGED <<rows, crashes>>
    BY <2>2, LeaveType DEF TypeInv, TypeOK, rows
  <2>3. CASE status[target[w]] \notin Ended
    <3>1. ExtendedLease(target[w]) \in {"none", "live", "expired"}
      BY <2>1 DEF ExtendedLease, TypeInv, TypeOK
    <3>2. /\ pc[w] = "starting"
          /\ status' = [status EXCEPT ![target[w]] = "running"]
          /\ lease' = [lease EXCEPT ![target[w]] = ExtendedLease(target[w])]
          /\ pc' = [pc EXCEPT ![w] = "looping"]
          /\ UNCHANGED <<owner, attempts, cancelRequested, aggregate, caseStatus,
                         target, cursor, sampled, crashes>>
      BY <1>7, <2>3 DEF StartExecution
    <3>. QED
      BY <2>1, <3>1, <3>2 DEF TypeInv, TypeOK, LocalsOK, Statuses, Executing
  <2>. QED
    BY <1>7, <2>2, <2>3 DEF StartExecution
<1>8. ASSUME NEW w \in Workers, StopCancelled(w) PROVE TypeInv'
  <2>1. /\ target[w] \in Runs /\ "cancelled" \in Ended
        /\ EndRow(target[w], "cancelled") /\ Leave(w, "idle")
    BY <1>8 DEF StopCancelled, AtCase, TypeInv, LocalsOK, Executing, Ended
  <2>2. caseStatus' \in [Runs -> [Cases -> CaseStatuses]] /\ UNCHANGED aggregate
    BY <1>8, <2>1 DEF StopCancelled, TypeInv, TypeOK, CaseStatuses, Settled
  <2>. QED
    BY <2>1, <2>2, EndRowType, LeaveType DEF TypeInv, TypeOK
<1>9. ASSUME NEW w \in Workers, SkipSettled(w) PROVE TypeInv'
  BY <1>9 DEF SkipSettled, AtCase, rows, TypeInv, TypeOK, LocalsOK, Cases, Executing
<1>10. ASSUME NEW w \in Workers, BeginCase(w) PROVE TypeInv'
  BY <1>10 DEF BeginCase, AtCase, ExtendedLease, TypeInv, TypeOK, LocalsOK,
               CaseStatuses, Executing
<1>11. ASSUME NEW w \in Workers, NEW o \in Outcomes, RecordCase(w, o) PROVE TypeInv'
  BY <1>11 DEF RecordCase, TypeInv, TypeOK, LocalsOK, CaseStatuses, Settled, Outcomes,
               Executing, Cases
<1>12. ASSUME NEW w \in Workers, CompleteRun(w) PROVE TypeInv'
  <2>1. /\ target[w] \in Runs /\ "completed" \in Ended
        /\ EndRow(target[w], "completed") /\ Leave(w, "idle")
    BY <1>12 DEF CompleteRun, TypeInv, LocalsOK, Executing, Ended
  <2>2. aggregate' \in [Runs -> Aggregates \cup {NoAggregate}] /\ UNCHANGED caseStatus
    BY <1>12, <2>1, AggregateOfType DEF CompleteRun, TypeInv, TypeOK
  <2>. QED
    BY <2>1, <2>2, EndRowType, LeaveType DEF TypeInv, TypeOK
<1>13. ASSUME NEW w \in Workers, FailRun(w) PROVE TypeInv'
  <2>1. /\ target[w] \in Runs /\ "failed" \in Ended
        /\ EndRow(target[w], "failed") /\ Leave(w, "down")
    BY <1>13 DEF FailRun, TypeInv, LocalsOK, Executing, Ended
  <2>2. aggregate' \in [Runs -> Aggregates \cup {NoAggregate}] /\ UNCHANGED caseStatus
    BY <1>13, <2>1, AggregateOfType DEF FailRun, TypeInv, TypeOK
  <2>. QED
    BY <2>1, <2>2, EndRowType, LeaveType DEF TypeInv, TypeOK
<1>14. ASSUME NEW w \in Workers, Crash(w) PROVE TypeInv'
  BY <1>14, LeaveType DEF Crash, rows, TypeInv, TypeOK
<1>15. ASSUME NEW w \in Workers, Restart(w) PROVE TypeInv'
  BY <1>15, LeaveType DEF Restart, rows, TypeInv, TypeOK
<1>16. CASE UNCHANGED vars
  BY <1>16 DEF vars, rows, locals, TypeInv, TypeOK, LocalsOK
<1>17. ASSUME NEW w \in Workers, NEW o \in Outcomes, FailRecording(w, o) PROVE TypeInv'
  <2>1. /\ target[w] \in Runs /\ "failed" \in Ended
        /\ EndRow(target[w], "failed") /\ Leave(w, "down")
    BY <1>17 DEF FailRecording, TypeInv, LocalsOK, Executing, Ended
  <2>2. caseStatus' \in [Runs -> [Cases -> CaseStatuses]] /\ UNCHANGED aggregate
    BY <1>17, <2>1 DEF FailRecording, TypeInv, TypeOK, CaseStatuses, Outcomes, Settled
  <2>. QED
    BY <2>1, <2>2, EndRowType, LeaveType DEF TypeInv, TypeOK
<1>. QED
  BY <1>1, <1>2, <1>3, <1>4, <1>5, <1>6, <1>7, <1>8, <1>9, <1>10, <1>11, <1>12, <1>17,
     <1>13, <1>14, <1>15, <1>16 DEF Next, ExecutorStep

\* Types are kept, whether or not leases are timely (models.py: the columns of
\* runs and run_cases; the locals of execute_run).
THEOREM TypeCorrect == Spec => []TypeOK
<1>1. TypeInv => TypeOK
  BY DEF TypeInv
<1>. QED
  BY InitTypeInv, NextTypeInv, <1>1, PTL DEF Spec

-----------------------------------------------------------------------------
(* Timely leases: ownership.                                               *)

\* An executor at work holds its run: the row is running, names the executor
\* and has a live lease.  OneExecutor alone is not inductive: that nobody else
\* can claim the run needs its status and its lease.
Owned ==
    \A w \in Workers : pc[w] \in Executing =>
        /\ status[target[w]] = "running"
        /\ owner[target[w]] = w
        /\ lease[target[w]] = "live"

\* A claimable run has no executor.
LEMMA ClaimableIsFree ==
    ASSUME Owned, NEW r \in Runs, Claimable(r), NEW w \in Workers, pc[w] \in Executing
    PROVE  target[w] # r
  BY DEF Owned, Claimable

\* A claim gives the run to its new executor and takes it from nobody.
LEMMA ClaimOwned ==
    ASSUME TypeInv, Owned, NEW w \in Workers, NEW r \in Runs, NEW p \in Executing,
           ClaimRow(w, r), pc' = [pc EXCEPT ![w] = p],
           target'[w] = r, \A v \in Workers \ {w} : target'[v] = target[v]
    PROVE  Owned'
  BY ClaimableIsFree DEF Owned, ClaimRow, TypeInv, TypeOK, LocalsOK

\* An executor that ends its run and leaves it disturbs no other executor.
LEMMA EndOwned ==
    ASSUME TypeInv, Owned, NEW w \in Workers, pc[w] \in Executing,
           NEW s \in Ended, EndRow(target[w], s),
           NEW p \in {"idle", "down"}, Leave(w, p)
    PROVE  Owned'
  BY DEF Owned, EndRow, Leave, TypeInv, TypeOK, LocalsOK, Executing

\* An executor that leaves without touching the row.
LEMMA LeaveOwned ==
    ASSUME TypeInv, Owned, NEW w \in Workers, NEW p \in {"idle", "down"},
           Leave(w, p), UNCHANGED rows
    PROVE  Owned'
  BY DEF Owned, Leave, rows, TypeInv, TypeOK, Executing

\* Ownership is inductive: one step per action.
LEMMA NextOwned ==
    ASSUME TimelyLeases, TypeInv, Owned, [Next]_vars
    PROVE  Owned'
<1>1. ASSUME NEW r \in Runs, CreateRun(r) PROVE Owned'
  BY <1>1 DEF CreateRun, locals, Owned, TypeInv, TypeOK, LocalsOK
<1>2. ASSUME NEW r \in Runs, CancelRun(r) PROVE Owned'
  BY <1>2 DEF CancelRun, locals, Owned
<1>3. ASSUME NEW r \in Runs, LeaseExpires(r) PROVE Owned'
  BY <1>3 DEF LeaseExpires, locals, Owned, TypeInv, TypeOK, LocalsOK
<1>4. ASSUME NEW w \in Workers, NEW r \in Runs, NEW p \in {"starting", "looping"},
             ClaimGiven(w, r, p)
      PROVE Owned'
  BY <1>4, ClaimOwned DEF ClaimGiven, TypeInv, TypeOK, Executing
<1>5. ASSUME NEW w \in Workers, SelectNext(w) PROVE Owned'
  BY <1>5 DEF SelectNext, rows, Owned, TypeInv, TypeOK, Executing
<1>6. ASSUME NEW w \in Workers, ClaimSelected(w) PROVE Owned'
  <2>1. target[w] \in Runs
    BY <1>6 DEF ClaimSelected, TypeInv, LocalsOK
  <2>2. CASE ClaimRow(w, target[w]) /\ pc' = [pc EXCEPT ![w] = "starting"]
             /\ UNCHANGED target
    BY <2>1, <2>2, ClaimOwned DEF Executing
  <2>3. CASE Leave(w, "idle") /\ UNCHANGED rows
    BY <2>3, LeaveOwned
  <2>. QED
    BY <1>6, <2>2, <2>3 DEF ClaimSelected
<1>7. ASSUME NEW w \in Workers, StartExecution(w) PROVE Owned'
  <2>1. CASE Leave(w, "idle") /\ UNCHANGED rows
    BY <2>1, LeaveOwned
  <2>2. CASE status[target[w]] \notin Ended
    <3>1. /\ pc[w] = "starting"
          /\ status' = [status EXCEPT ![target[w]] = "running"]
          /\ lease' = [lease EXCEPT ![target[w]] = ExtendedLease(target[w])]
          /\ pc' = [pc EXCEPT ![w] = "looping"]
          /\ UNCHANGED <<owner, target>>
      BY <1>7, <2>2 DEF StartExecution
    <3>2. ExtendedLease(target[w]) = "live"
      BY <3>1 DEF ExtendedLease, Owned, Executing
    <3>. QED
      BY <3>1, <3>2 DEF Owned, TypeInv, TypeOK, LocalsOK, Executing
  <2>. QED
    BY <1>7, <2>1, <2>2 DEF StartExecution
<1>8. ASSUME NEW w \in Workers, StopCancelled(w) PROVE Owned'
  BY <1>8, EndOwned DEF StopCancelled, AtCase, Executing, Ended
<1>9. ASSUME NEW w \in Workers, SkipSettled(w) PROVE Owned'
  BY <1>9 DEF SkipSettled, rows, Owned
<1>10. ASSUME NEW w \in Workers, BeginCase(w) PROVE Owned'
  <2>1. ExtendedLease(target[w]) = "live"
    BY <1>10 DEF BeginCase, AtCase, ExtendedLease, Owned, Executing
  <2>. QED
    BY <1>10, <2>1 DEF BeginCase, AtCase, Owned, TypeInv, TypeOK, LocalsOK, Executing
<1>11. ASSUME NEW w \in Workers, NEW o \in Outcomes, RecordCase(w, o) PROVE Owned'
  BY <1>11 DEF RecordCase, Owned, TypeInv, TypeOK, Executing
<1>12. ASSUME NEW w \in Workers, CompleteRun(w) PROVE Owned'
  BY <1>12, EndOwned DEF CompleteRun, Executing, Ended
<1>13. ASSUME NEW w \in Workers, FailRun(w) PROVE Owned'
  BY <1>13, EndOwned DEF FailRun, Executing, Ended
<1>14. ASSUME NEW w \in Workers, Crash(w) PROVE Owned'
  BY <1>14, LeaveOwned DEF Crash
<1>15. ASSUME NEW w \in Workers, Restart(w) PROVE Owned'
  BY <1>15, LeaveOwned DEF Restart
<1>16. CASE UNCHANGED vars
  BY <1>16 DEF vars, rows, locals, Owned
<1>17. ASSUME NEW w \in Workers, NEW o \in Outcomes, FailRecording(w, o) PROVE Owned'
  BY <1>17, EndOwned DEF FailRecording, Executing, Ended
<1>. QED
  BY <1>1, <1>2, <1>3, <1>4, <1>5, <1>6, <1>7, <1>8, <1>9, <1>10, <1>11, <1>12, <1>17,
     <1>13, <1>14, <1>15, <1>16 DEF Next, ExecutorStep

\* With leases that outlast the work between two renewals, a run has one
\* executor at a time, the one its row names (claim_run's promise of "one clear
\* execution owner per run").
THEOREM ExecutorIsUnique ==
    ASSUME TimelyLeases
    PROVE  Spec => []OneExecutor
<1>1. Init => Owned
  BY DEF Init, Owned, Executing
<1>2. TypeInv /\ Owned /\ [Next]_vars => Owned'
  BY NextOwned
<1>3. Owned => OneExecutor
  BY DEF Owned, OneExecutor
<1>. QED
  BY InitTypeInv, NextTypeInv, <1>1, <1>2, <1>3, PTL DEF Spec

-----------------------------------------------------------------------------
(* Timely leases: what the rows of a run say at each point of its life.    *)

\* The cases behind an executor's cursor have their outcome.
Progress ==
    \A w \in Workers : pc[w] \in Executing =>
        \A c \in Cases : c < cursor[w] => caseStatus[target[w]][c] \in Outcomes

\* Before a run ends it has no aggregate, and no case of it is skipped; before
\* it exists it has no case.
RowsBeforeEnd ==
    \A r \in Runs :
        /\ status[r] = "absent" =>
              aggregate[r] = NoAggregate /\ \A c \in Cases : caseStatus[r][c] = "absent"
        /\ status[r] \in {"queued", "running"} =>
              /\ aggregate[r] = NoAggregate
              /\ \A c \in Cases : caseStatus[r][c] \in Outcomes \cup {"pending", "running"}

RowsInv == Progress /\ RowsBeforeEnd /\ CompletedRunAccounted /\ CancelledRunClosed

\* The invariant from which everything below follows.
IInv == TypeInv /\ Owned /\ RowsInv

\* RowsInv speaks of these variables only.
RowsView == <<status, aggregate, caseStatus, cancelRequested, pc, target, cursor>>

\* The counts of a run follow its case rows.
LEMMA CountOfSame ==
    ASSUME NEW r \in Runs, caseStatus'[r] = caseStatus[r], NEW s
    PROVE  CountOf(r, s)' = CountOf(r, s)
  BY DEF CountOf

\* A run that has ended is not the target of an executor.
LEMMA EndedIsFree ==
    ASSUME Owned, NEW w \in Workers, pc[w] \in Executing
    PROVE  status[target[w]] \notin Ended
  BY DEF Owned, Ended

\* An executor that leaves its run and the rows as they are.
LEMMA LeaveRows ==
    ASSUME TypeInv, RowsInv, NEW w \in Workers, NEW p \in {"idle", "down"}, Leave(w, p),
           UNCHANGED <<status, aggregate, caseStatus, cancelRequested>>
    PROVE  RowsInv'
<1>1. Progress'
  BY DEF Progress, RowsInv, Leave, TypeInv, TypeOK, Executing
<1>2. RowsBeforeEnd' /\ CompletedRunAccounted' /\ CancelledRunClosed'
  BY CountOfSame DEF RowsInv, RowsBeforeEnd, CompletedRunAccounted, CancelledRunClosed
<1>. QED
  BY <1>1, <1>2 DEF RowsInv

\* A claim starts the case loop over, from the first case.
LEMMA ClaimRows ==
    ASSUME TypeInv, RowsInv, NEW w \in Workers, NEW r \in Runs, NEW p \in Executing,
           ClaimRow(w, r), pc[w] \in {"idle", "selected"}, pc' = [pc EXCEPT ![w] = p],
           target'[w] = r, \A v \in Workers \ {w} : target'[v] = target[v],
           cursor' = cursor
    PROVE  RowsInv'
<1>1. Progress'
  <2>1. cursor[w] = 1
    BY DEF TypeInv, LocalsOK
  <2>2. \A c \in Cases : ~(c < 1)
    BY ConstantsOK DEF Cases
  <2>. QED
    BY <2>1, <2>2 DEF Progress, RowsInv, ClaimRow, TypeInv, TypeOK
<1>2. status[r] \in {"queued", "running"} /\ status' = [status EXCEPT ![r] = "running"]
      /\ UNCHANGED <<aggregate, caseStatus, cancelRequested>>
  BY DEF ClaimRow, Claimable
<1>3. RowsBeforeEnd' /\ CompletedRunAccounted' /\ CancelledRunClosed'
  BY <1>2, CountOfSame
     DEF RowsInv, RowsBeforeEnd, CompletedRunAccounted, CancelledRunClosed, TypeInv, TypeOK
<1>. QED
  BY <1>1, <1>3 DEF RowsInv

\* One step per action; under it, one per conjunct the action can disturb.
LEMMA NextRows ==
    ASSUME TypeInv, Owned, RowsInv, [Next]_vars
    PROVE  RowsInv'
<1> USE ConstantsOK
<1>1. ASSUME NEW r \in Runs, CreateRun(r) PROVE RowsInv'
  <2>1. Progress'
    BY <1>1 DEF CreateRun, locals, RowsInv, Progress, Owned, TypeInv, TypeOK, LocalsOK
  <2>2. RowsBeforeEnd'
    BY <1>1 DEF CreateRun, RowsInv, RowsBeforeEnd, TypeInv, TypeOK
  <2>3. CompletedRunAccounted' /\ CancelledRunClosed'
    BY <1>1, CountOfSame
       DEF CreateRun, RowsInv, CompletedRunAccounted, CancelledRunClosed, TypeInv, TypeOK
  <2>. QED
    BY <2>1, <2>2, <2>3 DEF RowsInv
<1>2. ASSUME NEW r \in Runs, CancelRun(r) PROVE RowsInv'
  <2>1. Progress' /\ RowsBeforeEnd'
    BY <1>2 DEF CancelRun, locals, RowsInv, Progress, RowsBeforeEnd
  <2>2. CompletedRunAccounted' /\ CancelledRunClosed'
    BY <1>2, CountOfSame
       DEF CancelRun, RowsInv, CompletedRunAccounted, CancelledRunClosed, TypeInv, TypeOK
  <2>. QED
    BY <2>1, <2>2 DEF RowsInv
<1>3. ASSUME NEW w \in Workers, NEW r \in Runs, NEW p \in {"starting", "looping"},
             ClaimGiven(w, r, p)
      PROVE RowsInv'
  <2>1. /\ ClaimRow(w, r) /\ pc[w] = "idle" /\ pc' = [pc EXCEPT ![w] = p]
        /\ target'[w] = r /\ \A v \in Workers \ {w} : target'[v] = target[v]
        /\ cursor' = cursor
    BY <1>3 DEF ClaimGiven, TypeInv, TypeOK
  <2>. QED
    BY <2>1, ClaimRows DEF Executing
<1>4. ASSUME NEW w \in Workers, ClaimSelected(w) PROVE RowsInv'
  <2>1. target[w] \in Runs /\ pc[w] = "selected"
    BY <1>4 DEF ClaimSelected, TypeInv, LocalsOK
  <2>2. CASE ClaimRow(w, target[w]) /\ pc' = [pc EXCEPT ![w] = "starting"]
             /\ UNCHANGED <<target, cursor>>
    BY <2>1, <2>2, ClaimRows DEF Executing
  <2>3. CASE Leave(w, "idle") /\ UNCHANGED rows
    BY <2>3, LeaveRows DEF rows
  <2>. QED
    BY <1>4, <2>2, <2>3 DEF ClaimSelected
<1>5. ASSUME NEW w \in Workers, StartExecution(w) PROVE RowsInv'
  <2>1. CASE Leave(w, "idle") /\ UNCHANGED rows
    BY <2>1, LeaveRows DEF rows
  <2>2. CASE status[target[w]] \notin Ended
    <3>1. /\ pc[w] = "starting" /\ pc' = [pc EXCEPT ![w] = "looping"]
          /\ status' = [status EXCEPT ![target[w]] = "running"]
          /\ UNCHANGED <<aggregate, caseStatus, cancelRequested, target, cursor>>
      BY <1>5, <2>2 DEF StartExecution
    <3>2. status' = status
      BY <3>1 DEF Owned, TypeInv, TypeOK, LocalsOK, Executing
    <3>3. Progress'
      BY <3>1 DEF RowsInv, Progress, TypeInv, TypeOK, Executing
    <3>4. RowsBeforeEnd' /\ CompletedRunAccounted' /\ CancelledRunClosed'
      BY <3>1, <3>2, CountOfSame
         DEF RowsInv, RowsBeforeEnd, CompletedRunAccounted, CancelledRunClosed
    <3>. QED
      BY <3>3, <3>4 DEF RowsInv
  <2>. QED
    BY <1>5, <2>1, <2>2 DEF StartExecution
<1>6. ASSUME NEW w \in Workers, StopCancelled(w) PROVE RowsInv'
  <2> DEFINE r == target[w]
  <2>1. /\ pc[w] \in Executing /\ r \in Runs /\ status[r] = "running"
        /\ cancelRequested[r]
    BY <1>6 DEF StopCancelled, AtCase, Owned, TypeInv, LocalsOK, Executing
  <2>2. /\ status' = [status EXCEPT ![r] = "cancelled"]
        /\ UNCHANGED <<aggregate, cancelRequested>> /\ Leave(w, "idle")
        /\ caseStatus' = [caseStatus EXCEPT ![r] =
                            [c \in Cases |-> IF caseStatus[r][c] \in {"pending", "running"}
                                             THEN "skipped" ELSE caseStatus[r][c]]]
    BY <1>6, <2>1 DEF StopCancelled, EndRow, TypeInv, TypeOK
  <2>3. Progress'
    <3>1. \A v \in Workers \ {w} : pc[v] \in Executing => target[v] # r
      BY <2>1 DEF Owned
    <3>. QED
      BY <2>1, <2>2, <3>1 DEF RowsInv, Progress, Leave, TypeInv, TypeOK, LocalsOK, Executing
  <2>4. RowsBeforeEnd'
    BY <2>1, <2>2 DEF RowsInv, RowsBeforeEnd, TypeInv, TypeOK
  <2>5. CompletedRunAccounted'
    BY <2>1, <2>2, CountOfSame DEF RowsInv, CompletedRunAccounted, TypeInv, TypeOK
  <2>6. CancelledRunClosed'
    BY <2>1, <2>2 DEF RowsInv, RowsBeforeEnd, CancelledRunClosed, TypeInv, TypeOK
  <2>. QED
    BY <2>3, <2>4, <2>5, <2>6 DEF RowsInv
<1>7. ASSUME NEW w \in Workers, SkipSettled(w) PROVE RowsInv'
  <2>1. /\ target[w] \in Runs /\ status[target[w]] = "running"
        /\ cursor[w] \in Cases /\ caseStatus[target[w]][cursor[w]] \in Settled
        /\ cursor' = [cursor EXCEPT ![w] = @ + 1]
        /\ UNCHANGED <<rows, pc, target>>
    BY <1>7 DEF SkipSettled, AtCase, Owned, TypeInv, LocalsOK, Executing
  <2>2. caseStatus[target[w]][cursor[w]] \in Outcomes
    BY <2>1 DEF RowsInv, RowsBeforeEnd, Settled, Outcomes
  <2>3. Progress'
    BY <2>1, <2>2 DEF RowsInv, Progress, rows, TypeInv, TypeOK, Cases
  <2>4. RowsBeforeEnd' /\ CompletedRunAccounted' /\ CancelledRunClosed'
    BY <2>1, CountOfSame
       DEF rows, RowsInv, RowsBeforeEnd, CompletedRunAccounted, CancelledRunClosed
  <2>. QED
    BY <2>3, <2>4 DEF RowsInv
<1>8. ASSUME NEW w \in Workers, NEW s \in Outcomes \cup {"running"},
             pc[w] \in Executing, cursor[w] \in Cases,
             caseStatus' = [caseStatus EXCEPT ![target[w]][cursor[w]] = s],
             UNCHANGED <<status, aggregate, cancelRequested, target>>,
             NEW p \in Executing, pc' = [pc EXCEPT ![w] = p],
             \/ s = "running" /\ cursor' = cursor
             \/ s \in Outcomes /\ cursor' = [cursor EXCEPT ![w] = @ + 1]
      PROVE RowsInv'
  <2>1. target[w] \in Runs /\ status[target[w]] = "running"
    BY <1>8 DEF Owned, TypeInv, LocalsOK
  <2>2. Progress'
    <3>1. ASSUME NEW v \in Workers, pc'[v] \in Executing, v # w
          PROVE  \A c \in Cases : c < cursor'[v] => caseStatus'[target'[v]][c] \in Outcomes
      <4>1. target[v] # target[w] /\ target[v] \in Runs /\ pc[v] \in Executing
        BY <1>8, <3>1 DEF Owned, TypeInv, TypeOK, LocalsOK
      <4>. QED
        BY <1>8, <3>1, <4>1 DEF RowsInv, Progress, TypeInv, TypeOK
    <3>2. \A c \in Cases : c < cursor'[w] => caseStatus'[target[w]][c] \in Outcomes
      <4>1. \A c \in Cases : c < cursor[w] => caseStatus[target[w]][c] \in Outcomes
        BY <1>8 DEF RowsInv, Progress
      <4>2. CASE s = "running" /\ cursor' = cursor
        BY <1>8, <2>1, <4>1, <4>2 DEF TypeInv, TypeOK, Cases
      <4>3. CASE s \in Outcomes /\ cursor' = [cursor EXCEPT ![w] = @ + 1]
        BY <1>8, <2>1, <4>1, <4>3 DEF TypeInv, TypeOK, Cases
      <4>. QED
        BY <1>8, <4>2, <4>3
    <3>. QED
      BY <1>8, <3>1, <3>2 DEF Progress
  <2>3. RowsBeforeEnd'
    BY <1>8, <2>1 DEF RowsInv, RowsBeforeEnd, TypeInv, TypeOK
  <2>4. CompletedRunAccounted' /\ CancelledRunClosed'
    BY <1>8, <2>1, CountOfSame
       DEF RowsInv, CompletedRunAccounted, CancelledRunClosed, TypeInv, TypeOK
  <2>. QED
    BY <2>2, <2>3, <2>4 DEF RowsInv
<1>9. ASSUME NEW w \in Workers, BeginCase(w) PROVE RowsInv'
  BY <1>8, <1>9 DEF BeginCase, AtCase, Executing
<1>10. ASSUME NEW w \in Workers, NEW o \in Outcomes, RecordCase(w, o) PROVE RowsInv'
  BY <1>8, <1>10 DEF RecordCase, Executing, TypeInv, LocalsOK
<1>11. ASSUME NEW w \in Workers, CompleteRun(w) PROVE RowsInv'
  <2> DEFINE r == target[w]
  <2>1. /\ pc[w] \in Executing /\ r \in Runs /\ status[r] = "running"
    BY <1>11 DEF CompleteRun, Owned, TypeInv, LocalsOK, Executing
  <2>2. /\ status' = [status EXCEPT ![r] = "completed"]
        /\ aggregate' = [aggregate EXCEPT ![r] = AggregateOf(w)]
        /\ UNCHANGED <<caseStatus, cancelRequested>> /\ Leave(w, "idle")
    BY <1>11 DEF CompleteRun, EndRow
  <2>3. Progress'
    BY <2>2 DEF RowsInv, Progress, Leave, TypeInv, TypeOK, Executing
  <2>4. RowsBeforeEnd'
    BY <2>1, <2>2 DEF RowsInv, RowsBeforeEnd, TypeInv, TypeOK
  <2>5. \A c \in Cases : caseStatus[r][c] \in Outcomes
    BY <1>11, <2>1 DEF CompleteRun, RowsInv, Progress, Cases
  <2>6. AggregateOf(w) # NoAggregate
    BY <2>1, AggregateOfType DEF TypeInv
  <2>7. \A o \in Outcomes : AggregateOf(w)[o] = CountOf(r, o)
    BY DEF AggregateOf, Outcomes
  <2>8. CompletedRunAccounted'
    BY <2>1, <2>2, <2>5, <2>6, <2>7, CountOfSame
       DEF RowsInv, CompletedRunAccounted, TypeInv, TypeOK
  <2>9. CancelledRunClosed'
    BY <2>1, <2>2 DEF RowsInv, CancelledRunClosed, TypeInv, TypeOK
  <2>. QED
    BY <2>3, <2>4, <2>8, <2>9 DEF RowsInv
<1>12. ASSUME NEW w \in Workers, FailRun(w) PROVE RowsInv'
  <2> DEFINE r == target[w]
  <2>1. /\ pc[w] \in Executing /\ r \in Runs /\ status[r] = "running"
    BY <1>12 DEF FailRun, Owned, TypeInv, LocalsOK, Executing
  <2>2. /\ status' = [status EXCEPT ![r] = "failed"]
        /\ \A s \in Runs \ {r} : aggregate'[s] = aggregate[s]
        /\ UNCHANGED <<caseStatus, cancelRequested>> /\ Leave(w, "down")
    BY <1>12 DEF FailRun, EndRow, TypeInv, TypeOK
  <2>3. Progress'
    BY <2>2 DEF RowsInv, Progress, Leave, TypeInv, TypeOK, Executing
  <2>4. RowsBeforeEnd'
    BY <2>1, <2>2 DEF RowsInv, RowsBeforeEnd, TypeInv, TypeOK
  <2>5. CompletedRunAccounted' /\ CancelledRunClosed'
    BY <2>1, <2>2, CountOfSame
       DEF RowsInv, CompletedRunAccounted, CancelledRunClosed, TypeInv, TypeOK
  <2>. QED
    BY <2>3, <2>4, <2>5 DEF RowsInv
<1>13. ASSUME NEW w \in Workers, Crash(w) PROVE RowsInv'
  BY <1>13, LeaveRows DEF Crash, rows
<1>14. ASSUME NEW w \in Workers, Restart(w) PROVE RowsInv'
  BY <1>14, LeaveRows DEF Restart, rows
<1>15. ASSUME NEW w \in Workers, SelectNext(w) PROVE RowsInv'
  <2>1. Progress'
    BY <1>15 DEF SelectNext, rows, RowsInv, Progress, TypeInv, TypeOK, Executing
  <2>2. RowsBeforeEnd' /\ CompletedRunAccounted' /\ CancelledRunClosed'
    BY <1>15, CountOfSame DEF SelectNext, rows, RowsInv, RowsBeforeEnd,
                              CompletedRunAccounted, CancelledRunClosed
  <2>. QED
    BY <2>1, <2>2 DEF RowsInv
<1>16. CASE UNCHANGED RowsView
  BY <1>16, CountOfSame DEF RowsView, RowsInv, Progress, RowsBeforeEnd,
                            CompletedRunAccounted, CancelledRunClosed
<1>17. ASSUME NEW r \in Runs, LeaseExpires(r) PROVE RowsInv'
  BY <1>16, <1>17 DEF LeaseExpires, locals, RowsView
<1>18. CASE UNCHANGED vars
  BY <1>16, <1>18 DEF vars, rows, locals, RowsView
<1>19. ASSUME NEW w \in Workers, NEW o \in Outcomes, FailRecording(w, o) PROVE RowsInv'
  <2> DEFINE r == target[w]
  <2>1. /\ pc[w] \in Executing /\ r \in Runs /\ status[r] = "running"
        /\ cursor[w] \in Cases
    BY <1>19 DEF FailRecording, Owned, TypeInv, LocalsOK, Executing
  <2>2. /\ status' = [status EXCEPT ![r] = "failed"]
        /\ caseStatus' = [caseStatus EXCEPT ![r][cursor[w]] = o]
        /\ UNCHANGED <<aggregate, cancelRequested>> /\ Leave(w, "down")
    BY <1>19 DEF FailRecording, EndRow
  <2>3. Progress'
    <3>1. \A v \in Workers \ {w} : pc[v] \in Executing => target[v] # r
      BY <2>1 DEF Owned
    <3>. QED
      BY <2>1, <2>2, <3>1 DEF RowsInv, Progress, Leave, TypeInv, TypeOK, LocalsOK, Executing
  <2>4. RowsBeforeEnd'
    BY <2>1, <2>2 DEF RowsInv, RowsBeforeEnd, TypeInv, TypeOK
  <2>5. CompletedRunAccounted' /\ CancelledRunClosed'
    BY <2>1, <2>2, CountOfSame
       DEF RowsInv, CompletedRunAccounted, CancelledRunClosed, TypeInv, TypeOK
  <2>. QED
    BY <2>3, <2>4, <2>5 DEF RowsInv
<1>. QED
  BY <1>1, <1>2, <1>3, <1>4, <1>5, <1>6, <1>7, <1>9, <1>10, <1>11, <1>12,
     <1>13, <1>14, <1>15, <1>17, <1>18, <1>19 DEF Next, ExecutorStep

\* With timely leases, IInv is an invariant.
LEMMA Invariance ==
    ASSUME TimelyLeases
    PROVE  Spec => []IInv
<1>1. Init => Owned /\ RowsInv
  BY DEF Init, Owned, RowsInv, Progress, RowsBeforeEnd, CompletedRunAccounted,
         CancelledRunClosed, Executing
<1>2. IInv /\ [Next]_vars => IInv'
  BY NextTypeInv, NextOwned, NextRows DEF IInv
<1>3. Init => IInv
  BY InitTypeInv, <1>1 DEF IInv
<1>. QED
  BY <1>2, <1>3, PTL DEF Spec

\* A completed run accounts for all its cases (execute_run, 246-299).
THEOREM CompletedRunsAreAccounted ==
    ASSUME TimelyLeases
    PROVE  Spec => []CompletedRunAccounted
<1>1. IInv => CompletedRunAccounted
  BY DEF IInv, RowsInv
<1>. QED
  BY Invariance, <1>1, PTL

\* A cancelled run was to be cancelled and leaves nothing open (execute_run, 160-174).
THEOREM CancelledRunsAreClosed ==
    ASSUME TimelyLeases
    PROVE  Spec => []CancelledRunClosed
<1>1. IInv => CancelledRunClosed
  BY DEF IInv, RowsInv
<1>. QED
  BY Invariance, <1>1, PTL

-----------------------------------------------------------------------------
(* Timely leases: the figures of a run that needed one attempt.            *)

\* What a case is once it has been recorded.
Recorded == Settled \cup Outcomes

\* A run nobody has claimed has no recorded case, and no executor.
Unattempted ==
    /\ \A r \in Runs : attempts[r] = 0 => \A c \in Cases : caseStatus[r][c] \notin Recorded
    /\ \A w \in Workers : pc[w] \in Executing => attempts[target[w]] # 0

\* The executor of a first attempt has sampled every recorded case.
Sampled ==
    \A w \in Workers : (pc[w] \in Executing /\ attempts[target[w]] = 1) =>
        \A c \in Cases : caseStatus[target[w]][c] \in Recorded => c \in sampled[w]

FiguresInv == Unattempted /\ Sampled /\ FirstAttemptFigures

\* FiguresInv speaks of these variables only.
FiguresView == <<status, aggregate, caseStatus, attempts, pc, target, sampled>>

\* An executor that leaves its run and the rows as they are.
LEMMA LeaveFigures ==
    ASSUME TypeInv, FiguresInv, NEW w \in Workers, NEW p \in {"idle", "down"}, Leave(w, p),
           UNCHANGED <<status, aggregate, caseStatus, attempts>>
    PROVE  FiguresInv'
  BY DEF Leave, TypeInv, TypeOK, FiguresInv, Unattempted, Sampled, FirstAttemptFigures,
         Executing

\* A first claim finds nothing recorded; a later one is no first attempt.
LEMMA ClaimFigures ==
    ASSUME TypeInv, Owned, FiguresInv, NEW w \in Workers, NEW r \in Runs,
           NEW p \in Executing, ClaimRow(w, r), pc' = [pc EXCEPT ![w] = p],
           target'[w] = r, \A v \in Workers \ {w} : target'[v] = target[v],
           sampled' = sampled
    PROVE  FiguresInv'
<1> USE DEF TypeInv, TypeOK, LocalsOK, FiguresInv
<1>1. /\ status' = [status EXCEPT ![r] = "running"]
      /\ attempts' = [attempts EXCEPT ![r] = @ + 1]
      /\ attempts[r] \in Nat
      /\ UNCHANGED <<aggregate, caseStatus>>
  BY ConstantsOK DEF ClaimRow
<1>2. \A v \in Workers : pc[v] \in Executing => target[v] # r
  BY ClaimableIsFree DEF ClaimRow
<1>3. Unattempted'
  BY <1>1 DEF Unattempted
<1>4. Sampled'
  BY <1>1, <1>2 DEF Sampled, Unattempted
<1>5. FirstAttemptFigures'
  BY <1>1 DEF FirstAttemptFigures
<1>. QED
  BY <1>3, <1>4, <1>5

\* An executor that ends its run; its aggregate is its own sample.
LEMMA EndFigures ==
    ASSUME TypeInv, Owned, FiguresInv, NEW w \in Workers, pc[w] \in Executing,
           NEW s \in Ended, EndRow(target[w], s), NEW p \in {"idle", "down"}, Leave(w, p),
           \A r \in Runs \ {target[w]} : /\ aggregate'[r] = aggregate[r]
                                         /\ caseStatus'[r] = caseStatus[r],
           (s = "completed" /\ attempts[target[w]] = 1)
              => aggregate'[target[w]].sampled = Cases
    PROVE  FiguresInv'
<1> USE DEF TypeInv, TypeOK, LocalsOK, FiguresInv
<1>1. /\ target[w] \in Runs /\ attempts[target[w]] # 0
      /\ status' = [status EXCEPT ![target[w]] = s]
      /\ attempts' = attempts
  BY DEF EndRow, Unattempted
<1>2. \A v \in Workers \ {w} :
         /\ pc'[v] = pc[v] /\ target'[v] = target[v] /\ sampled'[v] = sampled[v]
         /\ pc[v] \in Executing => target[v] # target[w]
  BY DEF Leave, Owned
<1>3. pc'[w] \notin Executing
  BY DEF Leave, Executing
<1>4. Unattempted'
  BY <1>1, <1>2, <1>3 DEF Unattempted
<1>5. Sampled'
  BY <1>1, <1>2, <1>3 DEF Sampled
<1>6. FirstAttemptFigures'
  BY <1>1 DEF FirstAttemptFigures
<1>. QED
  BY <1>4, <1>5, <1>6

\* One step per action.
LEMMA NextFigures ==
    ASSUME IInv, FiguresInv, [Next]_vars
    PROVE  FiguresInv'
<1> USE DEF IInv, TypeInv, TypeOK, LocalsOK, FiguresInv
<1>1. ASSUME NEW r \in Runs, CreateRun(r) PROVE FiguresInv'
  <2>1. \A w \in Workers : pc[w] \in Executing => target[w] # r
    BY <1>1 DEF CreateRun, Owned
  <2>2. Unattempted' /\ Sampled'
    BY <1>1, <2>1 DEF CreateRun, locals, Unattempted, Sampled, Recorded, Settled, Outcomes
  <2>3. FirstAttemptFigures'
    BY <1>1 DEF CreateRun, FirstAttemptFigures
  <2>. QED
    BY <2>2, <2>3
<1>2. CASE UNCHANGED FiguresView
  BY <1>2 DEF FiguresView, Unattempted, Sampled, FirstAttemptFigures
<1>3. ASSUME NEW r \in Runs, CancelRun(r) \/ LeaseExpires(r) PROVE FiguresInv'
  BY <1>2, <1>3 DEF CancelRun, LeaseExpires, locals, FiguresView
<1>4. ASSUME NEW w \in Workers, NEW r \in Runs, NEW p \in {"starting", "looping"},
             ClaimGiven(w, r, p)
      PROVE FiguresInv'
  BY <1>4, ClaimFigures DEF ClaimGiven, Executing
<1>5. ASSUME NEW w \in Workers, SelectNext(w) PROVE FiguresInv'
  BY <1>5 DEF SelectNext, rows, Unattempted, Sampled, FirstAttemptFigures, Executing
<1>6. ASSUME NEW w \in Workers, ClaimSelected(w) PROVE FiguresInv'
  BY <1>6, ClaimFigures, LeaveFigures DEF ClaimSelected, rows, Executing
<1>7. ASSUME NEW w \in Workers, StartExecution(w) PROVE FiguresInv'
  <2>1. CASE Leave(w, "idle") /\ UNCHANGED <<rows, crashes>>
    BY <2>1, LeaveFigures DEF rows
  <2>2. CASE status[target[w]] \notin Ended
    <3>1. /\ pc[w] = "starting" /\ target[w] \in Runs
          /\ status' = [status EXCEPT ![target[w]] = "running"]
          /\ pc' = [pc EXCEPT ![w] = "looping"]
          /\ UNCHANGED <<attempts, aggregate, caseStatus, target, sampled>>
      BY <1>7, <2>2 DEF StartExecution, Executing
    <3>. QED
      BY <3>1 DEF Unattempted, Sampled, FirstAttemptFigures, Executing
  <2>. QED
    BY <1>7, <2>1, <2>2 DEF StartExecution
<1>8. ASSUME NEW w \in Workers, StopCancelled(w) PROVE FiguresInv'
  BY <1>8, EndFigures DEF StopCancelled, AtCase, Executing, Ended
<1>9. ASSUME NEW w \in Workers, SkipSettled(w) PROVE FiguresInv'
  BY <1>2, <1>9 DEF SkipSettled, rows, FiguresView
<1>10. ASSUME NEW w \in Workers, BeginCase(w) PROVE FiguresInv'
  <2>1. /\ target[w] \in Runs /\ cursor[w] \in Cases /\ pc[w] = "looping"
        /\ caseStatus' = [caseStatus EXCEPT ![target[w]][cursor[w]] = "running"]
        /\ pc' = [pc EXCEPT ![w] = "replaying"]
        /\ UNCHANGED <<status, attempts, aggregate, target, sampled>>
    BY <1>10 DEF BeginCase, AtCase, Executing
  <2>. QED
    BY <2>1 DEF Unattempted, Sampled, FirstAttemptFigures, Executing, Recorded, Settled, Outcomes
<1>11. ASSUME NEW w \in Workers, NEW o \in Outcomes, RecordCase(w, o) PROVE FiguresInv'
  <2>1. /\ target[w] \in Runs /\ cursor[w] \in Cases /\ pc[w] = "replaying"
        /\ caseStatus' = [caseStatus EXCEPT ![target[w]][cursor[w]] = o]
        /\ sampled' = [sampled EXCEPT ![w] = @ \cup {cursor[w]}]
        /\ pc' = [pc EXCEPT ![w] = "looping"]
        /\ UNCHANGED <<status, attempts, aggregate, target>>
    BY <1>11 DEF RecordCase, Executing
  <2>2. \A v \in Workers \ {w} : pc[v] \in Executing => target[v] # target[w]
    BY <2>1 DEF Owned, Executing
  <2>3. Unattempted'
    BY <2>1 DEF Unattempted, Executing
  <2>4. Sampled'
    BY <2>1, <2>2 DEF Sampled, Executing
  <2>5. FirstAttemptFigures'
    BY <2>1 DEF FirstAttemptFigures
  <2>. QED
    BY <2>3, <2>4, <2>5
<1>12. ASSUME NEW w \in Workers, CompleteRun(w) PROVE FiguresInv'
  <2>1. /\ target[w] \in Runs /\ pc[w] \in Executing /\ cursor[w] = NumCases + 1
        /\ aggregate' = [aggregate EXCEPT ![target[w]] = AggregateOf(w)]
        /\ EndRow(target[w], "completed") /\ Leave(w, "idle") /\ UNCHANGED caseStatus
    BY <1>12 DEF CompleteRun, Executing
  <2>2. \A c \in Cases : caseStatus[target[w]][c] \in Recorded
    BY <2>1, ConstantsOK DEF RowsInv, Progress, Cases, Recorded
  <2>3. attempts[target[w]] = 1 => sampled[w] = Cases
    BY <2>1, <2>2 DEF Sampled
  <2>4. aggregate'[target[w]].sampled = sampled[w]
    BY <2>1 DEF AggregateOf
  <2>5. \A r \in Runs \ {target[w]} : /\ aggregate'[r] = aggregate[r]
                                      /\ caseStatus'[r] = caseStatus[r]
    BY <2>1
  <2>. QED
    BY <2>1, <2>3, <2>4, <2>5, EndFigures DEF Ended
<1>13. ASSUME NEW w \in Workers, FailRun(w) PROVE FiguresInv'
  <2>1. /\ target[w] \in Runs /\ pc[w] \in Executing
        /\ EndRow(target[w], "failed") /\ Leave(w, "down")
    BY <1>13 DEF FailRun, Executing
  <2>2. \A r \in Runs \ {target[w]} : /\ aggregate'[r] = aggregate[r]
                                      /\ caseStatus'[r] = caseStatus[r]
    BY <1>13, <2>1 DEF FailRun
  <2>. QED
    BY <2>1, <2>2, EndFigures DEF Ended
<1>14. ASSUME NEW w \in Workers, Crash(w) \/ Restart(w) PROVE FiguresInv'
  BY <1>14, LeaveFigures DEF Crash, Restart, rows
<1>15. CASE UNCHANGED vars
  BY <1>2, <1>15 DEF vars, rows, locals, FiguresView
<1>16. ASSUME NEW w \in Workers, NEW o \in Outcomes, FailRecording(w, o) PROVE FiguresInv'
  <2>1. /\ target[w] \in Runs /\ pc[w] \in Executing
        /\ EndRow(target[w], "failed") /\ Leave(w, "down")
    BY <1>16 DEF FailRecording, Executing
  <2>2. \A r \in Runs \ {target[w]} : /\ aggregate'[r] = aggregate[r]
                                      /\ caseStatus'[r] = caseStatus[r]
    BY <1>16, <2>1 DEF FailRecording
  <2>. QED
    BY <2>1, <2>2, EndFigures DEF Ended
<1>. QED
  BY <1>1, <1>3, <1>16, <1>4, <1>5, <1>6, <1>7, <1>8, <1>9, <1>10, <1>11, <1>12, <1>13,
     <1>14, <1>15 DEF Next, ExecutorStep

\* A run completed at its first attempt has figures of all its cases (execute_run,
\* the lists of 149-150 and the aggregate made from them, 252-265).
THEOREM FirstAttemptsAreSampled ==
    ASSUME TimelyLeases
    PROVE  Spec => []FirstAttemptFigures
<1>1. Init => FiguresInv
  BY DEF Init, FiguresInv, Unattempted, Sampled, FirstAttemptFigures, Executing, Recorded,
         Settled, Outcomes
<1>2. IInv /\ FiguresInv /\ [Next]_vars => FiguresInv'
  BY NextFigures
<1>3. FiguresInv => FirstAttemptFigures
  BY DEF FiguresInv
<1>. QED
  BY Invariance, <1>1, <1>2, <1>3, PTL DEF Spec

-----------------------------------------------------------------------------
(* Timely leases: the executors implement RunLifecycle.                    *)

\* The case an executor is replaying is marked running: nobody else writes it.
InFlight ==
    \A w \in Workers :
        pc[w] = "replaying" => caseStatus[target[w]][cursor[w]] = "running"

\* A step that leaves the case rows alone and brings nobody to a replay.
LEMMA InFlightFrame ==
    ASSUME InFlight, UNCHANGED caseStatus,
           \A w \in Workers : pc'[w] = "replaying" =>
              pc[w] = "replaying" /\ target'[w] = target[w] /\ cursor'[w] = cursor[w]
    PROVE  InFlight'
  BY DEF InFlight

\* A case being replayed stays marked as running: one step per action.
LEMMA NextInFlight ==
    ASSUME TypeInv, Owned, InFlight, [Next]_vars
    PROVE  InFlight'
<1> USE DEF TypeInv, TypeOK, LocalsOK
<1>1. ASSUME NEW r \in Runs, CreateRun(r) PROVE InFlight'
  <2>1. \A w \in Workers : pc[w] = "replaying" => target[w] # r
    BY <1>1 DEF CreateRun, Owned, Executing
  <2>. QED
    BY <1>1, <2>1 DEF CreateRun, locals, InFlight, Executing
<1>2. ASSUME NEW r \in Runs, CancelRun(r) \/ LeaseExpires(r) PROVE InFlight'
  BY <1>2, InFlightFrame DEF CancelRun, LeaseExpires, locals
<1>3. ASSUME NEW w \in Workers, NEW r \in Runs, NEW p \in {"starting", "looping"},
             ClaimGiven(w, r, p)
      PROVE InFlight'
  BY <1>3, InFlightFrame DEF ClaimGiven, ClaimRow
<1>4. ASSUME NEW w \in Workers, SelectNext(w) PROVE InFlight'
  BY <1>4, InFlightFrame DEF SelectNext, rows
<1>5. ASSUME NEW w \in Workers, ClaimSelected(w) PROVE InFlight'
  BY <1>5, InFlightFrame DEF ClaimSelected, ClaimRow, Leave, rows
<1>6. ASSUME NEW w \in Workers, StartExecution(w) PROVE InFlight'
  BY <1>6, InFlightFrame DEF StartExecution, Leave, rows
<1>7. ASSUME NEW w \in Workers, StopCancelled(w) PROVE InFlight'
  <2>1. \A v \in Workers \ {w} : pc[v] = "replaying" => target[v] # target[w]
    BY <1>7 DEF StopCancelled, AtCase, Owned, Executing
  <2>2. target[w] \in Runs /\ pc'[w] = "idle"
    BY <1>7 DEF StopCancelled, AtCase, Leave, Executing
  <2>3. \A v \in Workers \ {w} : /\ pc'[v] = pc[v] /\ target'[v] = target[v]
                                 /\ cursor'[v] = cursor[v]
    BY <1>7 DEF StopCancelled, Leave
  <2>4. \A r \in Runs \ {target[w]} : caseStatus'[r] = caseStatus[r]
    BY <1>7 DEF StopCancelled
  <2>. QED
    BY <2>1, <2>2, <2>3, <2>4 DEF InFlight, Executing
<1>8. ASSUME NEW w \in Workers, SkipSettled(w) PROVE InFlight'
  BY <1>8, InFlightFrame DEF SkipSettled, AtCase, rows
<1>9. ASSUME NEW w \in Workers, BeginCase(w) PROVE InFlight'
  <2>1. \A v \in Workers \ {w} : pc[v] = "replaying" => target[v] # target[w]
    BY <1>9 DEF BeginCase, AtCase, Owned, Executing
  <2>2. target[w] \in Runs /\ cursor[w] \in Cases
    BY <1>9 DEF BeginCase, AtCase, Executing
  <2>. QED
    BY <1>9, <2>1, <2>2 DEF BeginCase, InFlight, Executing
<1>10. ASSUME NEW w \in Workers, NEW o \in Outcomes, RecordCase(w, o) PROVE InFlight'
  <2>1. \A v \in Workers \ {w} : pc[v] = "replaying" => target[v] # target[w]
    BY <1>10 DEF RecordCase, Owned, Executing
  <2>2. target[w] \in Runs /\ cursor[w] \in Cases
    BY <1>10 DEF RecordCase, Executing
  <2>. QED
    BY <1>10, <2>1, <2>2 DEF RecordCase, InFlight, Executing
<1>11. ASSUME NEW w \in Workers, CompleteRun(w) \/ FailRun(w) PROVE InFlight'
  BY <1>11, InFlightFrame DEF CompleteRun, FailRun, Leave
<1>12. ASSUME NEW w \in Workers, Crash(w) \/ Restart(w) PROVE InFlight'
  BY <1>12, InFlightFrame DEF Crash, Restart, Leave, rows
<1>13. CASE UNCHANGED vars
  BY <1>13, InFlightFrame DEF vars, rows, locals
<1>14. ASSUME NEW w \in Workers, NEW o \in Outcomes, FailRecording(w, o) PROVE InFlight'
  <2>1. \A v \in Workers \ {w} : pc[v] = "replaying" => target[v] # target[w]
    BY <1>14 DEF FailRecording, Owned, Executing
  <2>2. target[w] \in Runs /\ pc'[w] = "down"
    BY <1>14 DEF FailRecording, Leave, Executing
  <2>3. \A v \in Workers \ {w} : /\ pc'[v] = pc[v] /\ target'[v] = target[v]
                                 /\ cursor'[v] = cursor[v]
    BY <1>14 DEF FailRecording, Leave
  <2>4. \A r \in Runs \ {target[w]} : caseStatus'[r] = caseStatus[r]
    BY <1>14 DEF FailRecording
  <2>. QED
    BY <2>1, <2>2, <2>3, <2>4 DEF InFlight, Executing
<1>. QED
  BY <1>14, <1>1, <1>2, <1>3, <1>4, <1>5, <1>6, <1>7, <1>8, <1>9, <1>10, <1>11, <1>12,
     <1>13 DEF Next, ExecutorStep

\* The verdicts that RunLifecycle sees.
Verdict == [r \in Runs |-> [c \in Cases |-> VerdictOf(caseStatus[r][c])]]

\* A verdict is a case status or "open".
LEMMA VerdictType ==
    ASSUME TypeOK
    PROVE  Verdict \in [Runs -> [Cases -> CaseStatuses \cup {"open"}]]
  BY DEF Verdict, VerdictOf, TypeOK, CaseStatuses

\* Writing one case row writes one verdict.
LEMMA VerdictOfCase ==
    ASSUME TypeOK, NEW r \in Runs, NEW c \in Cases, NEW s,
           caseStatus' = [caseStatus EXCEPT ![r][c] = s]
    PROVE  Verdict' = [Verdict EXCEPT ![r][c] = VerdictOf(s)]
  BY ZenonT(40) DEF Verdict, TypeOK, VerdictOf

\* A step that changes none of what clients see is a stutter.
LEMMA LifecycleStutter ==
    ASSUME UNCHANGED <<status, caseStatus, cancelRequested>>
    PROVE  UNCHANGED Lifecycle!vars
  BY DEF Lifecycle!vars, VerdictOf

\* The initial rows are an initial state of the lifecycle.
LEMMA LifecycleInit == Init => Lifecycle!Init
  BY DEF Init, Lifecycle!Init, VerdictOf

\* Every step maps to a step of the lifecycle or to a stutter.
LEMMA LifecycleStep ==
    ASSUME IInv, InFlight, [Next]_vars
    PROVE  [Lifecycle!Next]_(Lifecycle!vars)
<1> DEFINE Step == [Lifecycle!Next]_(Lifecycle!vars)
<1>0. TypeInv /\ TypeOK /\ LocalsOK /\ Owned /\ RowsBeforeEnd /\ Progress
  BY DEF IInv, RowsInv, TypeInv
<1>1. ASSUME NEW r \in Runs, CreateRun(r) PROVE Step
  <2>1. Verdict' = Verdict
    BY <1>0, <1>1 DEF CreateRun, RowsBeforeEnd, TypeOK, Verdict, VerdictOf
  <2>2. Lifecycle!Create(r)
    BY <1>1, <2>1 DEF CreateRun, Lifecycle!Create, Verdict
  <2>. QED
    BY <2>2 DEF Lifecycle!Next
<1>2. ASSUME NEW r \in Runs, CancelRun(r) PROVE Step
  <2>1. Lifecycle!AskCancel(r)
    BY <1>2 DEF CancelRun, Lifecycle!AskCancel, VerdictOf
  <2>. QED
    BY <2>1 DEF Lifecycle!Next
<1>3. ASSUME NEW r \in Runs, LeaseExpires(r) PROVE Step
  BY <1>3, LifecycleStutter DEF LeaseExpires
<1>4. ASSUME NEW w \in Workers, NEW r \in Runs, ClaimRow(w, r) PROVE Step
  <2>1. CASE status[r] = "queued"
    <3>1. Lifecycle!Start(r)
      BY <1>4, <2>1 DEF ClaimRow, Claimable, Lifecycle!Start, VerdictOf
    <3>. QED
      BY <3>1 DEF Lifecycle!Next
  <2>2. CASE status[r] = "running"
    <3>1. status' = status
      BY <1>0, <1>4, <2>2 DEF ClaimRow, TypeOK
    <3>. QED
      BY <1>4, <3>1, LifecycleStutter DEF ClaimRow
  <2>. QED
    BY <1>4, <2>1, <2>2 DEF ClaimRow, Claimable
<1>5. ASSUME NEW w \in Workers, SelectNext(w) \/ SkipSettled(w) \/ Crash(w) \/ Restart(w)
      PROVE Step
  BY <1>5, LifecycleStutter DEF SelectNext, SkipSettled, Crash, Restart, rows
<1>6. ASSUME NEW w \in Workers, ClaimSelected(w) PROVE Step
  <2>1. target[w] \in Runs
    BY <1>0, <1>6 DEF ClaimSelected, LocalsOK
  <2>2. CASE ClaimRow(w, target[w])
    BY <1>4, <2>1, <2>2
  <2>3. CASE UNCHANGED rows
    BY <2>3, LifecycleStutter DEF rows
  <2>. QED
    BY <1>6, <2>2, <2>3 DEF ClaimSelected
<1>7. ASSUME NEW w \in Workers, StartExecution(w) PROVE Step
  <2>1. CASE UNCHANGED rows
    BY <2>1, LifecycleStutter DEF rows
  <2>2. CASE status[target[w]] \notin Ended
    <3>1. /\ pc[w] = "starting" /\ status' = [status EXCEPT ![target[w]] = "running"]
          /\ UNCHANGED <<caseStatus, cancelRequested>>
      BY <1>7, <2>2 DEF StartExecution
    <3>2. status' = status
      BY <1>0, <3>1 DEF Owned, TypeOK, LocalsOK, Executing
    <3>. QED
      BY <3>1, <3>2, LifecycleStutter
  <2>. QED
    BY <1>7, <2>1, <2>2 DEF StartExecution
<1>8. ASSUME NEW w \in Workers, StopCancelled(w) PROVE Step
  <2> DEFINE r == target[w]
  <2>1. r \in Runs /\ status[r] = "running" /\ cancelRequested[r]
    BY <1>0, <1>8 DEF StopCancelled, AtCase, Owned, LocalsOK, Executing
  <2>2. \A c \in Cases : caseStatus[r][c] \in Outcomes \cup {"pending", "running"}
    BY <1>0, <2>1 DEF RowsBeforeEnd
  <2>3. Verdict' = [Verdict EXCEPT ![r] =
                      [c \in Cases |-> IF @[c] = "open" THEN "skipped" ELSE @[c]]]
    <3>1. ASSUME NEW q \in Runs, NEW c \in Cases
          PROVE  VerdictOf(caseStatus'[q][c]) =
                   IF q = r /\ VerdictOf(caseStatus[q][c]) = "open" THEN "skipped"
                   ELSE VerdictOf(caseStatus[q][c])
      BY <1>0, <1>8, <2>1, <2>2 DEF StopCancelled, VerdictOf, TypeOK, Outcomes
    <3>2. ASSUME NEW q \in Runs
          PROVE  Verdict'[q] = IF q = r
                               THEN [c \in Cases |-> IF Verdict[r][c] = "open" THEN "skipped"
                                                     ELSE Verdict[r][c]]
                               ELSE Verdict[q]
      <4>1. /\ Verdict[q] = [c \in Cases |-> VerdictOf(caseStatus[q][c])]
            /\ Verdict'[q] = [c \in Cases |-> VerdictOf(caseStatus'[q][c])]
        BY DEF Verdict
      <4>2. \A c \in Cases : Verdict[q][c] = VerdictOf(caseStatus[q][c])
        BY <4>1
      <4>. QED
        BY <2>1, <3>1, <4>1, <4>2
    <3>3. Verdict' = [q \in Runs |-> Verdict'[q]]
      BY DEF Verdict
    <3>. QED
      BY <1>0, <2>1, <3>2, <3>3, VerdictType
  <2>4. Lifecycle!Cancel(r)
    BY <1>8, <2>1, <2>3 DEF StopCancelled, EndRow, Lifecycle!Cancel, Verdict
  <2>. QED
    BY <2>1, <2>4 DEF Lifecycle!Next
<1>9. ASSUME NEW w \in Workers, BeginCase(w) PROVE Step
  <2> DEFINE r == target[w]
             c == cursor[w]
  <2>1. /\ r \in Runs /\ c \in Cases /\ status[r] = "running"
        /\ caseStatus[r][c] \in {"pending", "running", "error"}
    BY <1>0, <1>9 DEF BeginCase, AtCase, Owned, LocalsOK, Executing, RowsBeforeEnd,
                      Outcomes, Settled
  <2>2. /\ Verdict' = [Verdict EXCEPT ![r][c] = "open"]
        /\ UNCHANGED <<status, cancelRequested>>
    BY <1>0, <1>9, <2>1, VerdictOfCase DEF BeginCase, VerdictOf
  <2>3. CASE caseStatus[r][c] = "error"
    <3>1. Lifecycle!Retry(r, c)
      BY <2>1, <2>2, <2>3 DEF Lifecycle!Retry, Verdict, VerdictOf
    <3>. QED
      BY <2>1, <3>1 DEF Lifecycle!Next
  <2>4. CASE caseStatus[r][c] \in {"pending", "running"}
    <3>1. ASSUME NEW q \in Runs, NEW d \in Cases
          PROVE  VerdictOf(caseStatus'[q][d]) = VerdictOf(caseStatus[q][d])
      BY <1>0, <1>9, <2>1, <2>4 DEF BeginCase, VerdictOf, TypeOK
    <3>2. Verdict' = Verdict
      BY <3>1 DEF Verdict
    <3>. QED
      BY <2>2, <3>2 DEF Lifecycle!vars, Verdict
  <2>. QED
    BY <2>1, <2>3, <2>4
<1>10. ASSUME NEW w \in Workers, NEW o \in Outcomes, RecordCase(w, o) PROVE Step
  <2> DEFINE r == target[w]
             c == cursor[w]
  <2>1. /\ r \in Runs /\ c \in Cases /\ status[r] = "running"
        /\ caseStatus[r][c] = "running"
    BY <1>0, <1>10 DEF RecordCase, Owned, LocalsOK, Executing, InFlight
  <2>2. Verdict' = [Verdict EXCEPT ![r][c] = o]
    BY ZenonT(40), <1>0, <1>10, <2>1, VerdictOfCase DEF RecordCase, VerdictOf, Outcomes
  <2>3. Lifecycle!Settle(r, c, o)
    BY <1>10, <2>1, <2>2 DEF RecordCase, Lifecycle!Settle, Verdict, VerdictOf
  <2>4. o \in Lifecycle!Kept \cup {"error"}
    BY DEF Outcomes, Lifecycle!Kept
  <2>. QED
    BY <2>1, <2>3, <2>4 DEF Lifecycle!Next
<1>11. ASSUME NEW w \in Workers, CompleteRun(w) PROVE Step
  <2> DEFINE r == target[w]
  <2>1. r \in Runs /\ status[r] = "running"
    BY <1>0, <1>11 DEF CompleteRun, Owned, LocalsOK, Executing
  <2>2. \A c \in Cases : caseStatus[r][c] \in Outcomes
    BY <1>0, <1>11, <2>1, ConstantsOK DEF CompleteRun, Progress, Cases, Executing
  <2>3. \A c \in Cases : Verdict[r][c] \in Lifecycle!Kept \cup {"error"}
    BY <2>1, <2>2 DEF Verdict, VerdictOf, Outcomes, Lifecycle!Kept
  <2>4. Lifecycle!Complete(r)
    BY <1>11, <2>1, <2>3 DEF CompleteRun, EndRow, Lifecycle!Complete, Verdict, VerdictOf
  <2>. QED
    BY <2>1, <2>4 DEF Lifecycle!Next
<1>12. ASSUME NEW w \in Workers, FailRun(w) PROVE Step
  <2>1. target[w] \in Runs /\ status[target[w]] = "running"
    BY <1>0, <1>12 DEF FailRun, Owned, LocalsOK, Executing
  <2>2. Lifecycle!Fail(target[w])
    BY <1>12, <2>1 DEF FailRun, EndRow, Lifecycle!Fail, VerdictOf
  <2>. QED
    BY <2>1, <2>2 DEF Lifecycle!Next
<1>13. CASE UNCHANGED vars
  BY <1>13, LifecycleStutter DEF vars, rows
<1>14. ASSUME NEW w \in Workers, NEW o \in Outcomes, FailRecording(w, o) PROVE Step
  <2> DEFINE r == target[w]
             c == cursor[w]
  <2>1. /\ r \in Runs /\ c \in Cases /\ status[r] = "running"
        /\ caseStatus[r][c] = "running"
    BY <1>0, <1>14 DEF FailRecording, Owned, LocalsOK, Executing, InFlight
  <2>2. Verdict' = [Verdict EXCEPT ![r][c] = o]
    BY ZenonT(40), <1>0, <1>14, <2>1, VerdictOfCase DEF FailRecording, VerdictOf, Outcomes
  <2>3. Lifecycle!FailWith(r, c, o)
    BY <1>14, <2>1, <2>2 DEF FailRecording, EndRow, Lifecycle!FailWith, Verdict, VerdictOf
  <2>4. o \in Lifecycle!Kept \cup {"error"}
    BY DEF Outcomes, Lifecycle!Kept
  <2>. QED
    BY <2>1, <2>3, <2>4 DEF Lifecycle!Next
<1>. QED
  BY <1>14, <1>1, <1>2, <1>3, <1>4, <1>5, <1>6, <1>7, <1>8, <1>9, <1>10, <1>11, <1>12,
     <1>13 DEF Next, ExecutorStep, ClaimGiven

\* Workers that claim, crash, restart and take runs over from each other are,
\* to a client, a run lifecycle in which a run ends once and keeps its verdicts.
THEOREM ExecutionImplementsLifecycle ==
    ASSUME TimelyLeases
    PROVE  Spec => ImplementsLifecycle
<1>1. Init => InFlight
  BY DEF Init, InFlight
<1>2. IInv /\ InFlight /\ [Next]_vars => InFlight'
  BY NextInFlight DEF IInv
<1>3. IInv /\ InFlight /\ [Next]_vars => [Lifecycle!Next]_(Lifecycle!vars)
  BY LifecycleStep
<1>. QED
  BY Invariance, LifecycleInit, <1>1, <1>2, <1>3, PTL
     DEF Spec, ImplementsLifecycle, Lifecycle!Spec

\* The lifecycle never moves an ended run nor a verdict that is to be kept.
LEMMA LifecycleKeeps ==
    ASSUME TypeOK, [Lifecycle!Next]_(Lifecycle!vars), NEW r \in Runs
    PROVE  /\ status[r] \in Ended => status'[r] = status[r]
           /\ \A c \in Cases : Verdict[r][c] \in Settled => Verdict'[r][c] = Verdict[r][c]
<1>1. CASE UNCHANGED Lifecycle!vars
  BY <1>1 DEF Lifecycle!vars, Verdict
<1>2. CASE Lifecycle!Next
  <2>1. PICK q \in Runs :
             \/ Lifecycle!Create(q) \/ Lifecycle!AskCancel(q) \/ Lifecycle!Start(q)
             \/ Lifecycle!Complete(q) \/ Lifecycle!Fail(q) \/ Lifecycle!Cancel(q)
             \/ \E c \in Cases :
                   \/ Lifecycle!Retry(q, c)
                   \/ \E v \in Lifecycle!Kept \cup {"error"} :
                         Lifecycle!Settle(q, c, v) \/ Lifecycle!FailWith(q, c, v)
    BY <1>2 DEF Lifecycle!Next
  <2>2. CASE Lifecycle!Create(q) \/ Lifecycle!AskCancel(q) \/ Lifecycle!Start(q)
             \/ Lifecycle!Complete(q) \/ Lifecycle!Fail(q)
    <3>1. /\ UNCHANGED Verdict
          /\ status' = status \/ \E s : status[q] \notin Ended /\ status' = [status EXCEPT ![q] = s]
      BY <2>2 DEF Lifecycle!Create, Lifecycle!AskCancel, Lifecycle!Start,
                  Lifecycle!Complete, Lifecycle!Fail, Verdict, Ended
    <3>. QED
      BY <3>1 DEF TypeOK
  <2>3. CASE Lifecycle!Cancel(q)
    <3>1. /\ status[q] = "running" /\ status' = [status EXCEPT ![q] = "cancelled"]
          /\ Verdict' = [Verdict EXCEPT ![q] =
                           [c \in Cases |-> IF Verdict[q][c] = "open" THEN "skipped"
                                            ELSE Verdict[q][c]]]
      BY <2>3 DEF Lifecycle!Cancel, Verdict
    <3>. QED
      BY <3>1, VerdictType DEF Ended, Settled, TypeOK
  <2>4. ASSUME NEW c \in Cases, NEW v,
               Verdict[q][c] \in {"open", "error"},
               \/ UNCHANGED status
               \/ status[q] = "running" /\ status' = [status EXCEPT ![q] = "failed"],
               Verdict' = [Verdict EXCEPT ![q][c] = v]
        PROVE  /\ status[r] \in Ended => status'[r] = status[r]
               /\ \A d \in Cases : Verdict[r][d] \in Settled => Verdict'[r][d] = Verdict[r][d]
    BY <2>4, VerdictType DEF Settled, Ended, TypeOK
  <2>5. ASSUME NEW c \in Cases, Lifecycle!Retry(q, c)
        PROVE  /\ status[r] \in Ended => status'[r] = status[r]
               /\ \A d \in Cases : Verdict[r][d] \in Settled => Verdict'[r][d] = Verdict[r][d]
    BY <2>4, <2>5 DEF Lifecycle!Retry, Verdict
  <2>6. ASSUME NEW c \in Cases, NEW v, Lifecycle!Settle(q, c, v) \/ Lifecycle!FailWith(q, c, v)
        PROVE  /\ status[r] \in Ended => status'[r] = status[r]
               /\ \A d \in Cases : Verdict[r][d] \in Settled => Verdict'[r][d] = Verdict[r][d]
    BY <2>4, <2>6 DEF Lifecycle!Settle, Lifecycle!FailWith, Verdict
  <2>. QED
    BY <2>1, <2>2, <2>3, <2>5, <2>6
<1>. QED
  BY <1>1, <1>2

\* Ended runs and settled cases stay as they are: the part of the lifecycle
\* that an execution resumed after a crash could break (execute_run, 134 and 176).
THEOREM SettledRowsStay ==
    ASSUME TimelyLeases
    PROVE  Spec => SettledStays
<1>1. IInv /\ InFlight /\ [Next]_vars =>
        [\A r \in Runs :
           /\ status[r] \in Ended => status'[r] = status[r]
           /\ \A c \in Cases : caseStatus[r][c] \in Settled =>
                 caseStatus'[r][c] = caseStatus[r][c]]_rows
  <2> SUFFICES ASSUME IInv, InFlight, [Next]_vars, NEW r \in Runs
               PROVE  /\ status[r] \in Ended => status'[r] = status[r]
                      /\ \A c \in Cases : caseStatus[r][c] \in Settled =>
                            caseStatus'[r][c] = caseStatus[r][c]
    OBVIOUS
  <2>0. TypeOK
    BY DEF IInv, TypeInv
  <2>1. [Lifecycle!Next]_(Lifecycle!vars)
    BY LifecycleStep
  <2>2. status[r] \in Ended => status'[r] = status[r]
    BY <2>0, <2>1, LifecycleKeeps
  <2>3. ASSUME NEW c \in Cases, caseStatus[r][c] \in Settled
        PROVE  caseStatus'[r][c] = caseStatus[r][c]
    <3>1. Verdict[r][c] = caseStatus[r][c]
      BY <2>3 DEF Verdict, VerdictOf, Settled
    <3>2. Verdict'[r][c] = caseStatus[r][c]
      BY <2>0, <2>1, <2>3, <3>1, LifecycleKeeps
    <3>3. Verdict'[r][c] = VerdictOf(caseStatus'[r][c])
      BY DEF Verdict
    <3>. QED
      BY <2>3, <3>2, <3>3 DEF VerdictOf, Settled
  <2>. QED
    BY <2>2, <2>3
<1>2. Init => InFlight
  BY DEF Init, InFlight
<1>3. IInv /\ InFlight /\ [Next]_vars => InFlight'
  BY NextInFlight DEF IInv
<1>. QED
  BY Invariance, <1>1, <1>2, <1>3, PTL DEF Spec, SettledStays

-----------------------------------------------------------------------------
(* Attempts, whatever the leases do.                                       *)

Executors(r) == {w \in Workers : pc[w] \in Executing /\ target[w] = r}

\* NeverStranded alone is not inductive: a crash takes an executor away, and
\* that an attempt is then left needs every attempt of a run that has not ended
\* to be accounted for by a crash or by an executor.
Counted(r) ==
    /\ status[r] \notin Ended => attempts[r] <= crashes + Cardinality(Executors(r))
    /\ status[r] \in {"absent", "queued"} => attempts[r] = 0 /\ Executors(r) = {}
    /\ status[r] = "running" => lease[r] # "none"

AttemptsCounted == \A r \in Runs : Counted(r)

\* The executors of a run are finitely many.
LEMMA ExecutorsFinite ==
    ASSUME NEW r
    PROVE  IsFiniteSet(Executors(r)) /\ Cardinality(Executors(r)) \in Nat
<1>1. Executors(r) \subseteq Workers
  BY DEF Executors
<1>. QED
  BY <1>1, WorkersAreFinite, FS_Subset, FS_CardinalityType

\* Nothing is asked of a run that has ended.
LEMMA EndedIsCounted ==
    ASSUME NEW r \in Runs, status'[r] \in Ended
    PROVE  Counted(r)'
  BY DEF Counted, Ended

\* A step that leaves a run and its executors alone, but for a fresh lease.
LEMMA CountedSame ==
    ASSUME NEW r \in Runs, Counted(r), status'[r] = status[r], attempts'[r] = attempts[r],
           lease'[r] = lease[r] \/ lease'[r] # "none", crashes' = crashes,
           Executors(r)' = Executors(r)
    PROVE  Counted(r)'
  BY DEF Counted

\* The executors of a run depend on these variables only.
LEMMA ExecutorsSame ==
    ASSUME NEW r, \A w \in Workers :
             (pc'[w] \in Executing /\ target'[w] = r) <=> (pc[w] \in Executing /\ target[w] = r)
    PROVE  Executors(r)' = Executors(r)
  BY DEF Executors

\* A step that changes no row but for fresh leases, and no executor.
LEMMA CountedFrame ==
    ASSUME AttemptsCounted, UNCHANGED <<status, attempts, crashes>>,
           \A r \in Runs : lease'[r] = lease[r] \/ lease'[r] # "none",
           \A w \in Workers : /\ pc'[w] \in Executing <=> pc[w] \in Executing
                              /\ pc[w] \in Executing => target'[w] = target[w]
    PROVE  AttemptsCounted'
<1> SUFFICES ASSUME NEW r \in Runs PROVE Counted(r)'
  BY DEF AttemptsCounted
<1>1. Executors(r)' = Executors(r)
  BY ExecutorsSame
<1>. QED
  BY <1>1, CountedSame DEF AttemptsCounted

\* A claim adds one attempt and one executor.
LEMMA ClaimCounted ==
    ASSUME TypeInv, AttemptsCounted, NEW w \in Workers, NEW r \in Runs, NEW p \in Executing,
           ClaimRow(w, r), pc[w] \notin Executing, pc' = [pc EXCEPT ![w] = p],
           target'[w] = r, \A v \in Workers \ {w} : target'[v] = target[v]
    PROVE  AttemptsCounted'
<1> SUFFICES ASSUME NEW q \in Runs PROVE Counted(q)'
  BY DEF AttemptsCounted
<1>1. /\ \A v \in Workers \ {w} : pc'[v] = pc[v] /\ target'[v] = target[v]
      /\ pc'[w] \in Executing /\ target'[w] = r
  BY DEF TypeInv, TypeOK
<1>2. CASE q # r
  <2>1. Executors(q)' = Executors(q)
    BY <1>1, <1>2, ExecutorsSame
  <2>2. /\ status'[q] = status[q] /\ attempts'[q] = attempts[q] /\ lease'[q] = lease[q]
        /\ crashes' = crashes
    BY <1>2 DEF ClaimRow
  <2>. QED
    BY <2>1, <2>2, CountedSame DEF AttemptsCounted
<1>3. CASE q = r
  <2>1. Executors(r)' = Executors(r) \cup {w} /\ w \notin Executors(r)
    BY <1>1 DEF Executors
  <2>2. Cardinality(Executors(r)') = Cardinality(Executors(r)) + 1
    BY <2>1, ExecutorsFinite, FS_AddElement
  <2>3. attempts[r] <= crashes + Cardinality(Executors(r))
    BY DEF ClaimRow, Claimable, AttemptsCounted, Counted, Ended
  <2>4. /\ status'[r] = "running" /\ lease'[r] = "live" /\ attempts'[r] = attempts[r] + 1
        /\ crashes' = crashes
    BY DEF ClaimRow, TypeInv, TypeOK
  <2>5. attempts[r] \in Nat /\ crashes \in Nat /\ Cardinality(Executors(r)) \in Nat
    BY ConstantsOK, ExecutorsFinite DEF TypeInv, TypeOK
  <2>6. attempts'[r] <= crashes' + Cardinality(Executors(r)')
    BY <2>2, <2>3, <2>4, <2>5
  <2>. QED
    BY <1>3, <2>4, <2>6 DEF Counted
<1>. QED
  BY <1>2, <1>3

\* An executor that ends its run takes nobody else's executor away.
LEMMA EndCounted ==
    ASSUME TypeInv, AttemptsCounted, NEW w \in Workers, target[w] \in Runs,
           NEW s \in Ended, EndRow(target[w], s), NEW p \in {"idle", "down"}, Leave(w, p)
    PROVE  AttemptsCounted'
<1> SUFFICES ASSUME NEW q \in Runs PROVE Counted(q)'
  BY DEF AttemptsCounted
<1>1. CASE q = target[w]
  <2>1. status'[q] \in Ended
    BY <1>1 DEF EndRow, TypeInv, TypeOK
  <2>. QED
    BY <2>1, EndedIsCounted
<1>2. CASE q # target[w]
  <2>1. Executors(q)' = Executors(q)
    BY <1>2, ExecutorsSame DEF Leave, TypeInv, TypeOK, Executing
  <2>2. /\ status'[q] = status[q] /\ attempts' = attempts /\ lease'[q] = lease[q]
        /\ crashes' = crashes
    BY <1>2 DEF EndRow
  <2>. QED
    BY <2>1, <2>2, CountedSame DEF AttemptsCounted
<1>. QED
  BY <1>1, <1>2

\* An executor that was at no run, or at one that has ended, leaves.
LEMMA LeaveCounted ==
    ASSUME TypeInv, AttemptsCounted, NEW w \in Workers, NEW p \in {"idle", "down"},
           Leave(w, p), UNCHANGED <<rows, crashes>>,
           pc[w] \in Executing => status[target[w]] \in Ended
    PROVE  AttemptsCounted'
<1> SUFFICES ASSUME NEW q \in Runs PROVE Counted(q)'
  BY DEF AttemptsCounted
<1>1. CASE pc[w] \in Executing /\ target[w] = q
  BY <1>1, EndedIsCounted DEF rows
<1>2. CASE ~(pc[w] \in Executing /\ target[w] = q)
  <2>1. Executors(q)' = Executors(q)
    BY <1>2, ExecutorsSame DEF Leave, TypeInv, TypeOK, Executing
  <2>. QED
    BY <2>1, CountedSame DEF AttemptsCounted, rows
<1>. QED
  BY <1>1, <1>2

\* A crash takes at most one executor away, and is counted.
LEMMA CrashCounted ==
    ASSUME TypeInv, AttemptsCounted, NEW w \in Workers, Crash(w)
    PROVE  AttemptsCounted'
<1> SUFFICES ASSUME NEW q \in Runs PROVE Counted(q)'
  BY DEF AttemptsCounted
<1>1. /\ status' = status /\ attempts' = attempts /\ lease' = lease
      /\ crashes' = crashes + 1
      /\ \A v \in Workers \ {w} : pc'[v] = pc[v] /\ target'[v] = target[v]
      /\ pc'[w] = "down"
  BY DEF Crash, Leave, rows, TypeInv, TypeOK
<1>2. Executors(q)' = Executors(q) \ {w}
  BY <1>1 DEF Executors, Executing
<1>3. Cardinality(Executors(q)) <= Cardinality(Executors(q)') + 1
  <2>1. CASE w \in Executors(q)
    <3>1. Cardinality(Executors(q) \ {w}) = Cardinality(Executors(q)) - 1
      BY <2>1, ExecutorsFinite, FS_RemoveElement
    <3>. QED
      BY <1>2, <3>1, ExecutorsFinite
  <2>2. CASE w \notin Executors(q)
    <3>1. Executors(q)' = Executors(q)
      BY <1>2, <2>2
    <3>. QED
      BY <3>1, ExecutorsFinite
  <2>. QED
    BY <2>1, <2>2
<1>4. /\ Cardinality(Executors(q)) \in Nat /\ Cardinality(Executors(q)') \in Nat
      /\ crashes \in Nat /\ attempts[q] \in Nat
  <2>1. IsFiniteSet(Executors(q)')
    BY <1>2, ExecutorsFinite, FS_Subset
  <2>. QED
    BY <2>1, ConstantsOK, ExecutorsFinite, FS_CardinalityType DEF TypeInv, TypeOK
<1>5. Counted(q)
  BY DEF AttemptsCounted
<1>6. status[q] \notin Ended => attempts'[q] <= crashes' + Cardinality(Executors(q)')
  BY <1>1, <1>3, <1>4, <1>5 DEF Counted
<1>. QED
  BY <1>1, <1>2, <1>5, <1>6 DEF Counted

\* Nobody has been at work yet.
LEMMA InitCounted == Init => AttemptsCounted
<1> SUFFICES ASSUME Init, NEW r \in Runs PROVE Counted(r)
  BY DEF AttemptsCounted
<1>1. Executors(r) = {}
  BY DEF Init, Executors, Executing
<1>2. Cardinality(Executors(r)) = 0
  BY <1>1, FS_EmptySet
<1>. QED
  BY <1>1, <1>2 DEF Init, Counted

\* Every attempt stays accounted for: one step per action.
LEMMA NextCounted == TypeInv /\ AttemptsCounted /\ [Next]_vars => AttemptsCounted'
<1> SUFFICES ASSUME TypeInv, AttemptsCounted, [Next]_vars PROVE AttemptsCounted'
  OBVIOUS
<1>1. ASSUME NEW r \in Runs, CreateRun(r) PROVE AttemptsCounted'
  <2> SUFFICES ASSUME NEW q \in Runs PROVE Counted(q)'
    BY DEF AttemptsCounted
  <2>1. Executors(q)' = Executors(q) /\ Counted(q) /\ Counted(r)
    BY <1>1, ExecutorsSame DEF CreateRun, locals, AttemptsCounted
  <2>2. CASE q = r
    <3>1. /\ status[r] = "absent" /\ status'[r] = "queued" /\ attempts' = attempts
          /\ crashes' = crashes
      BY <1>1 DEF CreateRun, TypeInv, TypeOK
    <3>2. attempts[r] = 0 /\ Executors(r)' = {} /\ crashes \in Nat
      BY <2>1, <2>2, <3>1, ConstantsOK DEF Counted, TypeInv, TypeOK
    <3>3. Cardinality(Executors(r)') = 0
      BY <3>2, FS_EmptySet
    <3>. QED
      BY <2>2, <3>1, <3>2, <3>3 DEF Counted
  <2>3. CASE q # r
    BY <1>1, <2>1, <2>3, CountedSame DEF CreateRun
  <2>. QED
    BY <2>2, <2>3
<1>2. ASSUME NEW r \in Runs, CancelRun(r) PROVE AttemptsCounted'
  BY <1>2, CountedFrame DEF CancelRun, locals
<1>3. ASSUME NEW r \in Runs, LeaseExpires(r) PROVE AttemptsCounted'
  BY <1>3, CountedFrame DEF LeaseExpires, locals, TypeInv, TypeOK
<1>4. ASSUME NEW w \in Workers, NEW r \in Runs, NEW p \in {"starting", "looping"},
             ClaimGiven(w, r, p)
      PROVE AttemptsCounted'
  BY <1>4, ClaimCounted DEF ClaimGiven, TypeInv, TypeOK, Executing
<1>5. ASSUME NEW w \in Workers, SelectNext(w) PROVE AttemptsCounted'
  BY <1>5, CountedFrame DEF SelectNext, rows, TypeInv, TypeOK, Executing
<1>6. ASSUME NEW w \in Workers, ClaimSelected(w) PROVE AttemptsCounted'
  <2>1. target[w] \in Runs /\ pc[w] \notin Executing
    BY <1>6 DEF ClaimSelected, TypeInv, LocalsOK, Executing
  <2>2. CASE ClaimRow(w, target[w]) /\ pc' = [pc EXCEPT ![w] = "starting"]
             /\ UNCHANGED target
    BY <2>1, <2>2, ClaimCounted DEF Executing
  <2>3. CASE Leave(w, "idle") /\ UNCHANGED <<rows, crashes>>
    BY <2>1, <2>3, LeaveCounted
  <2>. QED
    BY <1>6, <2>2, <2>3 DEF ClaimSelected
<1>7. ASSUME NEW w \in Workers, StartExecution(w) PROVE AttemptsCounted'
  <2>1. CASE status[target[w]] \in Ended /\ Leave(w, "idle") /\ UNCHANGED <<rows, crashes>>
    BY <2>1, LeaveCounted
  <2>2. CASE status[target[w]] \notin Ended
    <3>1. /\ pc[w] = "starting"
          /\ status' = [status EXCEPT ![target[w]] = "running"]
          /\ lease' = [lease EXCEPT ![target[w]] = ExtendedLease(target[w])]
          /\ pc' = [pc EXCEPT ![w] = "looping"]
          /\ UNCHANGED <<attempts, target, crashes>>
      BY <1>7, <2>2 DEF StartExecution
    <3>2. target[w] \in Runs /\ w \in Executors(target[w])
      BY <3>1 DEF Executors, Executing, TypeInv, LocalsOK
    <3>3. status[target[w]] = "running"
      BY <2>2, <3>2 DEF AttemptsCounted, Counted, TypeInv, TypeOK, Statuses
    <3>4. UNCHANGED status
      BY <3>1, <3>3 DEF TypeInv, TypeOK
    <3>5. \A r \in Runs : lease'[r] = lease[r] \/ lease'[r] # "none"
      BY <3>1 DEF ExtendedLease, TypeInv, TypeOK
    <3>6. \A v \in Workers : pc'[v] \in Executing <=> pc[v] \in Executing
      BY <3>1 DEF Executing, TypeInv, TypeOK
    <3>. QED
      BY <3>1, <3>4, <3>5, <3>6, CountedFrame
  <2>. QED
    BY <1>7, <2>1, <2>2 DEF StartExecution
<1>8. ASSUME NEW w \in Workers, StopCancelled(w) PROVE AttemptsCounted'
  BY <1>8, EndCounted DEF StopCancelled, AtCase, TypeInv, LocalsOK, Executing, Ended
<1>9. ASSUME NEW w \in Workers, SkipSettled(w) PROVE AttemptsCounted'
  BY <1>9, CountedFrame DEF SkipSettled, rows
<1>10. ASSUME NEW w \in Workers, BeginCase(w) PROVE AttemptsCounted'
  <2>1. /\ pc[w] = "looping" /\ pc' = [pc EXCEPT ![w] = "replaying"]
        /\ lease' = [lease EXCEPT ![target[w]] = ExtendedLease(target[w])]
        /\ UNCHANGED <<status, attempts, target, crashes>>
    BY <1>10 DEF BeginCase, AtCase
  <2>2. \A r \in Runs : lease'[r] = lease[r] \/ lease'[r] # "none"
    BY <2>1 DEF ExtendedLease, TypeInv, TypeOK
  <2>3. \A v \in Workers : pc'[v] \in Executing <=> pc[v] \in Executing
    BY <2>1 DEF Executing, TypeInv, TypeOK
  <2>. QED
    BY <2>1, <2>2, <2>3, CountedFrame
<1>11. ASSUME NEW w \in Workers, NEW o \in Outcomes, RecordCase(w, o) PROVE AttemptsCounted'
  <2>1. /\ pc[w] = "replaying" /\ pc' = [pc EXCEPT ![w] = "looping"]
        /\ UNCHANGED <<status, lease, attempts, target, crashes>>
    BY <1>11 DEF RecordCase
  <2>2. \A v \in Workers : pc'[v] \in Executing <=> pc[v] \in Executing
    BY <2>1 DEF Executing, TypeInv, TypeOK
  <2>. QED
    BY <2>1, <2>2, CountedFrame
<1>12. ASSUME NEW w \in Workers, CompleteRun(w) PROVE AttemptsCounted'
  BY <1>12, EndCounted DEF CompleteRun, TypeInv, LocalsOK, Executing, Ended
<1>13. ASSUME NEW w \in Workers, FailRun(w) PROVE AttemptsCounted'
  BY <1>13, EndCounted DEF FailRun, TypeInv, LocalsOK, Executing, Ended
<1>14. ASSUME NEW w \in Workers, Crash(w) PROVE AttemptsCounted'
  BY <1>14, CrashCounted
<1>15. ASSUME NEW w \in Workers, Restart(w) PROVE AttemptsCounted'
  BY <1>15, LeaveCounted DEF Restart, Executing
<1>16. CASE UNCHANGED vars
  BY <1>16, CountedFrame DEF vars, rows, locals
<1>17. ASSUME NEW w \in Workers, NEW o \in Outcomes, FailRecording(w, o)
       PROVE AttemptsCounted'
  BY <1>17, EndCounted DEF FailRecording, TypeInv, LocalsOK, Executing, Ended
<1>. QED
  BY <1>17, <1>1, <1>2, <1>3, <1>4, <1>5, <1>6, <1>7, <1>8, <1>9, <1>10, <1>11, <1>12,
     <1>13, <1>14, <1>15, <1>16 DEF Next, ExecutorStep

\* As long as there have been fewer crashes than attempts no run is left for
\* nobody to end, even when leases run out under executors still at work
\* (claim_next_run takes over stale leases, execute_run counts no attempt).
THEOREM RunsAreNeverStranded == Spec => []NeverStranded
<1>1. TypeInv /\ AttemptsCounted => NeverStranded
  <2> SUFFICES ASSUME TypeInv, AttemptsCounted, crashes < MaxAttempts,
                      NEW r \in Runs, status[r] \in {"queued", "running"},
                      ~cancelRequested[r],
                      \A w \in Workers : ~(pc[w] \in Executing /\ target[w] = r)
               PROVE  Claimable(r) \/ (attempts[r] < MaxAttempts /\ lease[r] = "live")
    BY DEF NeverStranded
  <2>1. Executors(r) = {}
    BY DEF Executors
  <2>2. Cardinality(Executors(r)) = 0
    BY <2>1, FS_EmptySet
  <2>3. Counted(r) /\ attempts[r] \in Nat /\ crashes \in Nat
    BY ConstantsOK DEF AttemptsCounted, TypeInv, TypeOK
  <2>4. attempts[r] <= crashes
    BY <2>2, <2>3 DEF Counted, Ended
  <2>5. attempts[r] < MaxAttempts
    BY <2>3, <2>4, ConstantsOK
  <2>. QED
    BY <2>3, <2>5 DEF Counted, Claimable, TypeInv, TypeOK
<1>. QED
  BY InitTypeInv, NextTypeInv, InitCounted, NextCounted, <1>1, PTL DEF Spec

-----------------------------------------------------------------------------
(* What a self-improvement cycle assumes of the runs it opens.             *)

\* The lifecycle with the cases abstracted away, as SelfImprovementCycle
\* instantiates it for its validation runs.
RunOnly == INSTANCE RunLifecycle WITH
    Cases <- {}, phase <- status, cancelAsked <- cancelRequested,
    verdict <- [r \in Runs |-> [c \in {} |-> "open"]]

\* Forgetting the cases, a step of the lifecycle is a step of the lifecycle.
LEMMA RunOnlyStep ==
    ASSUME [Lifecycle!Next]_(Lifecycle!vars)
    PROVE  [RunOnly!Next]_(RunOnly!vars)
<1> DEFINE Step == [RunOnly!Next]_(RunOnly!vars)
<1>1. CASE UNCHANGED Lifecycle!vars
  BY <1>1 DEF Lifecycle!vars, RunOnly!vars
<1>2. ASSUME NEW r \in Runs, Lifecycle!Create(r) PROVE Step
  <2>1. RunOnly!Create(r)
    BY <1>2 DEF Lifecycle!Create, RunOnly!Create
  <2>. QED
    BY <2>1 DEF RunOnly!Next
<1>3. ASSUME NEW r \in Runs, Lifecycle!AskCancel(r) PROVE Step
  <2>1. RunOnly!AskCancel(r)
    BY <1>3 DEF Lifecycle!AskCancel, RunOnly!AskCancel
  <2>. QED
    BY <2>1 DEF RunOnly!Next
<1>4. ASSUME NEW r \in Runs, Lifecycle!Start(r) PROVE Step
  <2>1. RunOnly!Start(r)
    BY <1>4 DEF Lifecycle!Start, RunOnly!Start
  <2>. QED
    BY <2>1 DEF RunOnly!Next
<1>5. ASSUME NEW r \in Runs, Lifecycle!Complete(r) PROVE Step
  <2>1. RunOnly!Complete(r)
    BY <1>5 DEF Lifecycle!Complete, RunOnly!Complete
  <2>. QED
    BY <2>1 DEF RunOnly!Next
<1>6. ASSUME NEW r \in Runs, Lifecycle!Fail(r) PROVE Step
  <2>1. RunOnly!Fail(r)
    BY <1>6 DEF Lifecycle!Fail, RunOnly!Fail
  <2>. QED
    BY <2>1 DEF RunOnly!Next
<1>7. ASSUME NEW r \in Runs, Lifecycle!Cancel(r) PROVE Step
  <2> DEFINE None == [q \in Runs |-> [c \in {} |-> "open"]]
  <2>2. [c \in {} |-> IF None[r][c] = "open" THEN "skipped" ELSE None[r][c]]
          = [c \in {} |-> "open"]
    OBVIOUS
  <2>3. None = [None EXCEPT ![r] =
                  [c \in {} |-> IF None[r][c] = "open" THEN "skipped" ELSE None[r][c]]]
    BY <2>2
  <2>4. RunOnly!Cancel(r)
    BY <1>7, <2>3 DEF Lifecycle!Cancel, RunOnly!Cancel
  <2>. QED
    BY <2>4 DEF RunOnly!Next
<1>8. ASSUME NEW r \in Runs, NEW c \in Cases,
             Lifecycle!Retry(r, c) \/ \E v : Lifecycle!Settle(r, c, v)
      PROVE  Step
  BY <1>8 DEF Lifecycle!Retry, Lifecycle!Settle, RunOnly!vars
<1>9. ASSUME NEW r \in Runs, NEW c \in Cases, NEW v, Lifecycle!FailWith(r, c, v) PROVE Step
  <2>1. RunOnly!Fail(r)
    BY <1>9 DEF Lifecycle!FailWith, RunOnly!Fail
  <2>. QED
    BY <2>1 DEF RunOnly!Next
<1>. QED
  BY <1>9, <1>1, <1>2, <1>3, <1>4, <1>5, <1>6, <1>7, <1>8 DEF Lifecycle!Next

\* The executors that share the database do to the runs what a cycle assumes
\* that they do to its validation runs (execute_run, called by
\* _execute_cycle_record and by the workers).
THEOREM ExecutionIsAsCyclesAssume ==
    ASSUME TimelyLeases
    PROVE  Spec => RunOnly!Spec
<1>1. Spec => Lifecycle!Spec
  BY ExecutionImplementsLifecycle DEF ImplementsLifecycle
<1>2. Lifecycle!Init => RunOnly!Init
  BY DEF Lifecycle!Init, RunOnly!Init
<1>3. [Lifecycle!Next]_(Lifecycle!vars) => [RunOnly!Next]_(RunOnly!vars)
  BY RunOnlyStep
<1>. QED
  BY <1>1, <1>2, <1>3, PTL DEF Lifecycle!Spec, RunOnly!Spec

=============================================================================
