--------------------------- MODULE TraceIngestion ---------------------------
(***************************************************************************)
(* What the server makes of posted traces and events                       *)
(* (services/ingestion.py, the /v1/traces, /v1/events and /v1/otel handlers *)
(* of main.py).  A request is one transaction of a session: for each of    *)
(* its messages it looks rows up, works on its copy of the trace in memory *)
(* and flushes; one commit publishes everything.  Transactions read what   *)
(* is committed, a flushed row is locked until its transaction ends, and   *)
(* an UPDATE writes only the columns the session changed.                  *)
(***************************************************************************)
EXTENDS Naturals, Sequences, SequencesExt

CONSTANTS Sessions,    \* database sessions of API requests
          Traces,      \* traces that may be stored: [project, name] records
          EventIds,    \* event_id values, chosen by clients
          StepIds,     \* step_id values of posted traces and of events
          HeaderKeys,  \* values of the Idempotency-Key header
          Requests,    \* what clients send: sequences of messages
          MaxFaults,   \* bound on requests that die
          None

Statuses == {"ok", "error", "cancelled", "timeout"}
StepRecords == [id : StepIds, status : Statuses, ms : Nat]
Projects == {t.project : t \in Traces}
Names == {t.name : t \in Traces}

\* reached: the API key of the request reaches the project of the message.
EventMessages ==
    [kind : {"event"}, of : Traces, reached : BOOLEAN, id : EventIds, status : Statuses,
     ms : Nat, type : {"trace_start", "trace_end", "step"}, at : Nat]

TraceMessages ==
    [kind : {"trace"}, of : Traces, reached : BOOLEAN, steps : Seq(StepRecords),
     status : Statuses, ms : Nat, started : Nat, ended : Nat \cup {None},
     key : HeaderKeys \cup {None}]

Messages == EventMessages \cup TraceMessages

Columns == {"steps", "status", "started", "ended", "summary", "raw"}
Summaries == [ms : Nat, status : Statuses]
Rows == [steps : Seq(StepRecords), status : Statuses, started : Nat,
         ended : Nat \cup {None}, summary : Summaries,
         raw : [steps : Seq(StepRecords), summary : Summaries]]

EventKeys == [project : Projects, event : EventIds]
AllKeys == EventKeys \cup HeaderKeys
Resources == Names \cup EventIds
ASSUME IngestionConstantsOK ==
    /\ \A t \in Traces : t = [project |-> t.project, name |-> t.name]
    /\ EventIds \subseteq StepIds
    /\ Requests \subseteq Seq(Messages)
    /\ EventKeys \cap HeaderKeys = {}
    /\ MaxFaults \in Nat
    /\ None \notin Nat \cup Traces \cup Resources \cup AllKeys \cup Rows \cup Messages

\* A request is about traces or about events, and only a trace that is posted
\* alone may have an Idempotency-Key.
ASSUME RequestsAreOfOneKind ==
    \A batch \in Requests :
        \/ \A i \in DOMAIN batch : batch[i].kind = "event"
        \/ \A i \in DOMAIN batch : /\ batch[i].kind = "trace"
                                   /\ batch[i].key # None => Len(batch) = 1

VARIABLES stored,   \* traces: the committed row of each, or None
          keys,     \* idempotency_keys: key -> resource_id, or None
          txn,      \* the sessions
          acked,    \* history: messages of requests that committed
          origin,   \* history: the message that created each trace
          stale,    \* history: traces updated from a copy that was out of date
          faults

db == <<stored, keys>>
history == <<acked, origin, stale>>
ingestionVars == <<stored, keys, txn, acked, origin, stale, faults>>

NoRows == [t \in Traces |-> None]
NoKeys == [k \in AllKeys |-> None]
IdleSession ==
    [pc |-> "idle", batch |-> <<>>, next |-> 1, seen |-> FALSE,
     view |-> NoRows, rows |-> NoRows, keys |-> NoKeys]

IngestionTypeOK ==
    /\ stored \in [Traces -> Rows \cup {None}]
    /\ keys \in [AllKeys -> Resources \cup {None}]
    /\ txn \in [Sessions ->
           [pc : {"idle", "lookup", "write", "commit", "ok", "failed"},
            batch : Seq(Messages), next : Nat \ {0}, seen : BOOLEAN,
            view : [Traces -> Rows \cup {None}], rows : [Traces -> Rows \cup {None}],
            keys : [AllKeys -> Resources \cup {None}]]]
    /\ acked \subseteq Messages
    /\ origin \in [Traces -> Messages \cup {None}]
    /\ stale \subseteq Traces
    /\ faults \in 0 .. MaxFaults

IngestionInit ==
    /\ stored = NoRows /\ keys = NoKeys
    /\ txn = [s \in Sessions |-> IdleSession]
    /\ acked = {} /\ origin = NoRows /\ stale = {}
    /\ faults = 0

-----------------------------------------------------------------------------
(* The two conversions: a posted trace and an event into a row.            *)

WithPayload(r) ==
    [r EXCEPT !.raw = [steps |-> r.steps, summary |-> r.summary]]

\* persist_trace
FromPost(m) ==
    LET summary == [ms |-> m.ms, status |-> m.status] IN
    [steps |-> m.steps, status |-> m.status, started |-> m.started, ended |-> m.ended,
     summary |-> summary, raw |-> [steps |-> m.steps, summary |-> summary]]

\* _initial_trace: a trace first heard of through one of its events.
FromEvent(e) ==
    FromPost([steps |-> <<>>, status |-> e.status, ms |-> 0,
              started |-> e.at, ended |-> None])

EventStep(e) == [id |-> e.id, status |-> e.status, ms |-> e.ms]

StepMs(steps) ==
    LET sum[n \in 0 .. Len(steps)] == IF n = 0 THEN 0 ELSE sum[n - 1] + steps[n].ms
    IN  sum[Len(steps)]

\* Tokens and cost are sums over the steps too; latency alone may be explicit.
\* A wrong version of Recomputed: a step can still change the told duration.
RecomputedFromSteps(r) ==
    [ms |-> StepMs(r.steps),
     status |-> IF \E i \in DOMAIN r.steps : r.steps[i].status = "error"
                THEN "error" ELSE r.status]

\* _recompute_summary
Recomputed(r) ==
    [ms |-> IF r.ended # None /\ r.summary.ms # 0 THEN r.summary.ms ELSE StepMs(r.steps),
     status |-> IF \E i \in DOMAIN r.steps : r.steps[i].status = "error"
                THEN "error" ELSE r.status]

Started(r, e) == [r EXCEPT !.started = IF e.at < @ THEN e.at ELSE @]

Finished(r, e) ==
    [r EXCEPT !.ended = e.at, !.status = e.status,
              !.summary = [ms |-> IF e.ms # 0 THEN e.ms ELSE @.ms, status |-> e.status]]

\* A wrong version of Stepped: the step is appended whatever is there.
SteppedAlways(r, e) == [r EXCEPT !.steps = Append(@, EventStep(e))]

Stepped(r, e) ==
    IF \E i \in DOMAIN r.steps : r.steps[i].id = e.id THEN r
    ELSE [r EXCEPT !.steps = Append(@, EventStep(e))]

\* A wrong version of Clamped: an end before the start is kept.
Unclamped(r) == r

Clamped(r) ==
    IF r.ended # None /\ r.ended < r.started THEN [r EXCEPT !.ended = r.started] ELSE r

\* ingest_event on a row; r is the row the session has in memory.
Applied(r, e) ==
    LET changed == CASE e.type = "trace_start" -> Started(r, e)
                     [] e.type = "trace_end" -> Finished(r, e)
                     [] OTHER -> Stepped(r, e)
    IN  WithPayload(Clamped([changed EXCEPT !.summary = Recomputed(changed)]))

-----------------------------------------------------------------------------
(* A request.                                                              *)

\* The handler has its session; the request was authenticated before.
Submit(s, batch) ==
    /\ txn[s].pc = "idle"
    /\ txn' = [txn EXCEPT ![s].pc = IF batch = <<>> THEN "commit" ELSE "lookup",
                          ![s].batch = batch]
    /\ UNCHANGED <<db, history, faults>>

Current(s) == txn[s].batch[txn[s].next]

\* The key of an event does not name its trace.
KeyOf(m) == IF m.kind = "event" THEN [project |-> m.of.project, event |-> m.id] ELSE m.key
ResourceOf(m) == IF m.kind = "event" THEN m.id ELSE m.of.name

\* The row as the session finds it: its own copy if it has one.
Visible(s, t) == IF txn[s].view[t] # None THEN txn[s].view[t] ELSE stored[t]
KeyValue(s, k) == IF txn[s].keys[k] # None THEN txn[s].keys[k] ELSE keys[k]

\* An event is known by its key.  A trace is if its key names a trace of the
\* same project.
Known(s, m) ==
    /\ KeyOf(m) # None
    /\ KeyValue(s, KeyOf(m)) # None
    /\ m.kind = "trace" =>
           \E t \in Traces : /\ t.project = m.of.project
                             /\ t.name = KeyValue(s, KeyOf(m))
                             /\ Visible(s, t) # None

Lookup(s) ==
    LET m == Current(s) IN
    /\ txn[s].pc = "lookup" /\ m.reached
    /\ txn' = [txn EXCEPT ![s].seen = Known(s, m),
                          ![s].view[m.of] = Visible(s, m.of),
                          ![s].pc = "write"]
    /\ UNCHANGED <<db, history, faults>>

Copy(s) == txn[s].view[Current(s).of]

\* A wrong version of Absorbed: a post replaces the trace that is there.
AbsorbedKnown(s) ==
    txn[s].seen /\ (Current(s).kind = "event" => Copy(s) # None)

\* The early returns: a trace that is stored, or known by its key, an event
\* that is known and whose trace is stored.
Absorbed(s) ==
    IF Current(s).kind = "event" THEN txn[s].seen /\ Copy(s) # None
                                 ELSE txn[s].seen \/ Copy(s) # None

AfterThis(s) == IF txn[s].next = Len(txn[s].batch) THEN "commit" ELSE "lookup"

Absorb(s) ==
    /\ txn[s].pc = "write"
    /\ Absorbed(s)
    /\ txn' = [txn EXCEPT ![s].pc = AfterThis(s), ![s].next = @ + 1]
    /\ UNCHANGED <<db, history, faults>>

\* The key a flush inserts.
NewKey(s) == IF txn[s].seen THEN None ELSE KeyOf(Current(s))

Blocks(r, s) ==
    /\ r # s
    /\ txn[s].pc = "write" /\ ~Absorbed(s)
    /\ \/ txn[r].rows[Current(s).of] # None
       \/ NewKey(s) # None /\ txn[r].keys[NewKey(s)] # None

\* A wrong version of Conflict: a trace that has appeared meanwhile is replaced.
ConflictOfKeys(s) == NewKey(s) # None /\ KeyValue(s, NewKey(s)) # None

\* A unique constraint is violated.
Conflict(s) ==
    \/ Copy(s) = None /\ stored[Current(s).of] # None
    \/ NewKey(s) # None /\ KeyValue(s, NewKey(s)) # None

Written(s) ==
    LET m == Current(s) IN
    IF m.kind = "trace" THEN FromPost(m)
    ELSE Applied(IF Copy(s) = None THEN FromEvent(m) ELSE Copy(s), m)

\* The row in the database that a flush of s updates.
Base(s, t) == IF txn[s].rows[t] # None THEN txn[s].rows[t] ELSE stored[t]

\* UPDATE sets the columns in which the copy in memory changed.
Updated(base, from, to) ==
    [c \in Columns |-> IF to[c] # from[c] THEN to[c] ELSE base[c]]

Flush(s) ==
    LET t == Current(s).of IN
    /\ txn[s].pc = "write" /\ ~Absorbed(s)
    /\ ~Conflict(s)
    /\ \A r \in Sessions : ~Blocks(r, s)
    /\ txn' = [txn EXCEPT
           ![s].view[t] = Written(s),
           ![s].rows[t] = IF Copy(s) = None THEN Written(s)
                          ELSE Updated(Base(s, t), Copy(s), Written(s)),
           ![s].keys = [k \in AllKeys |->
                           IF k = NewKey(s) THEN ResourceOf(Current(s)) ELSE @[k]],
           ![s].pc = AfterThis(s), ![s].next = @ + 1]
    /\ stale' = IF Copy(s) # None /\ Base(s, t) # Copy(s) THEN stale \cup {t} ELSE stale
    /\ UNCHANGED <<db, acked, origin, faults>>

Failed == [IdleSession EXCEPT !.pc = "failed"]

\* The handler raises: a message of a project that the key does not reach is a
\* 403, a violated constraint an IntegrityError.
Refused(s) ==
    \/ txn[s].pc = "lookup" /\ ~Current(s).reached
    \/ /\ txn[s].pc = "write" /\ ~Absorbed(s)
       /\ Conflict(s)
       /\ \A r \in Sessions : ~Blocks(r, s)

\* A wrong version of Reject: what was flushed before stays.
RejectLast(s) ==
    /\ Refused(s)
    /\ stored' = [t \in Traces |-> Base(s, t)]
    /\ keys' = [k \in AllKeys |-> KeyValue(s, k)]
    /\ txn' = [txn EXCEPT ![s] = Failed]
    /\ UNCHANGED <<history, faults>>

\* The whole request is rolled back.
Reject(s) ==
    /\ Refused(s)
    /\ txn' = [txn EXCEPT ![s] = Failed]
    /\ UNCHANGED <<db, history, faults>>

\* Requests wait for each other's rows in a circle.
Deadlocked(s) ==
    \E circle \in SUBSET Sessions :
        s \in circle /\ \A x \in circle : \E y \in circle : Blocks(y, x)

\* The database aborts one of the circle.
BreakDeadlock(s) ==
    /\ Deadlocked(s)
    /\ txn' = [txn EXCEPT ![s] = Failed]
    /\ UNCHANGED <<db, history, faults>>

\* The server or its connection to the database dies under the request.
Die(s) ==
    /\ txn[s].pc \in {"lookup", "write", "commit"}
    /\ faults < MaxFaults
    /\ faults' = faults + 1
    /\ txn' = [txn EXCEPT ![s] = Failed]
    /\ UNCHANGED <<db, history>>

\* The message of the request that was the first about a trace.
FirstOf(s, t) ==
    LET about == {i \in DOMAIN txn[s].batch : txn[s].batch[i].of = t}
    IN  txn[s].batch[CHOOSE i \in about : \A j \in about : i <= j]

\* A wrong version of Commit: the rows stay locked until the session is closed.
CommitHolding(s) ==
    /\ txn[s].pc = "commit"
    /\ stored' = [t \in Traces |-> Base(s, t)]
    /\ keys' = [k \in AllKeys |-> KeyValue(s, k)]
    /\ acked' = acked \cup ToSet(txn[s].batch)
    /\ origin' = [t \in Traces |->
           IF stored[t] = None /\ txn[s].rows[t] # None THEN FirstOf(s, t) ELSE origin[t]]
    /\ txn' = [txn EXCEPT ![s].pc = "ok"]
    /\ UNCHANGED <<stale, faults>>

Commit(s) ==
    /\ txn[s].pc = "commit"
    /\ stored' = [t \in Traces |-> Base(s, t)]
    /\ keys' = [k \in AllKeys |-> KeyValue(s, k)]
    /\ acked' = acked \cup ToSet(txn[s].batch)
    /\ origin' = [t \in Traces |->
           IF stored[t] = None /\ txn[s].rows[t] # None THEN FirstOf(s, t) ELSE origin[t]]
    /\ txn' = [txn EXCEPT ![s] = [IdleSession EXCEPT !.pc = "ok", !.batch = txn[s].batch]]
    /\ UNCHANGED <<stale, faults>>

\* The reply reaches the client, or nobody waits for it any more.
Release(s) ==
    /\ txn[s].pc \in {"ok", "failed"}
    /\ txn' = [txn EXCEPT ![s] = IdleSession]
    /\ UNCHANGED <<db, history, faults>>

SessionStep(s) ==
    Lookup(s) \/ Absorb(s) \/ Flush(s) \/ Reject(s) \/ BreakDeadlock(s) \/ Commit(s)

\* Any request may come at any time, and again.
IngestionNext ==
    \E s \in Sessions :
        \/ \E batch \in Requests : Submit(s, batch)
        \/ SessionStep(s) \/ Die(s) \/ Release(s)

IngestionSpec == IngestionInit /\ [][IngestionNext]_ingestionVars

\* A handler goes on unless it waits for a row; the database serves those who
\* wait for one in turn.
IngestionFairSpec ==
    IngestionSpec /\ \A s \in Sessions : SF_ingestionVars(SessionStep(s))

-----------------------------------------------------------------------------
(* What a client may rely on.                                              *)

StepIdsOf(row) == {row.steps[i].id : i \in DOMAIN row.steps}

AckedEvents(t) == {m \in acked : m.kind = "event" /\ m.of = t}

\* No other event of its project has its event_id.
OwnId(e) ==
    \A m \in acked : m.kind = "event" /\ KeyOf(m) = KeyOf(e) =>
                        m.of = e.of /\ m.type = e.type

\* However often and in whatever order its events and its canonical form are
\* delivered, a trace has no step twice: not when the events of a step and the
\* posted trace both carry it, and not when two transactions work on the trace
\* (the check of steps in ingest_event).
StepsOnce ==
    \A t \in Traces : stored[t] # None =>
        \A i, j \in DOMAIN stored[t].steps :
            i # j => stored[t].steps[i].id # stored[t].steps[j].id

\* What a client was told is stored, is stored: an acknowledged step event with
\* an event_id of its own is a step of its trace unless an update from an
\* outdated copy undid it; the steps of the post that created a trace stay
\* whatever happens (persist_trace and ingest_event in concurrent requests).
AckedStepsKept ==
    \A m \in acked :
        /\ m.kind = "event" /\ m.type = "step" /\ OwnId(m) /\ m.of \notin stale =>
               stored[m.of] # None /\ m.id \in StepIdsOf(stored[m.of])
        /\ m = origin[m.of] /\ m.kind = "trace" =>
               {m.steps[i].id : i \in DOMAIN m.steps} \subseteq StepIdsOf(stored[m.of])

\* The figures of a trace made of events do not depend on the order of their
\* arrival: with one trace_end that tells its duration they are that duration
\* and the status of the end, an error if a step failed; without one the
\* latency is the sum of the steps (_recompute_summary).
SummaryOrderFree ==
    \A t \in Traces \ stale :
        stored[t] # None /\ origin[t].kind = "event" /\ (\A e \in AckedEvents(t) : OwnId(e)) =>
        LET ends == {e \in AckedEvents(t) : e.type = "trace_end"}
            failed == \E i \in DOMAIN stored[t].steps : stored[t].steps[i].status = "error"
            row == stored[t]
        IN  /\ ends = {} => row.summary.ms = StepMs(row.steps)
            /\ \A e \in ends : ends = {e} /\ e.ms # 0 =>
                   /\ row.summary.ms = e.ms
                   /\ row.summary.status = IF failed THEN "error" ELSE e.status

\* A trace made of events never ends before it starts, whatever clocks its
\* events carry, and its raw payload tells what its columns tell.
RecordCoherent ==
    \A t \in Traces \ stale : stored[t] # None /\ origin[t].kind = "event" =>
        /\ stored[t].ended # None => stored[t].ended >= stored[t].started
        /\ stored[t].raw = [steps |-> stored[t].steps, summary |-> stored[t].summary]

\* A request that repeats only what was acknowledged before changes nothing,
\* even if it comes late, after other messages about the same trace.
RetryAbsorbed ==
    [][\A s \in Sessions :
          txn[s].pc = "commit" /\ txn'[s].pc = "ok" /\ ToSet(txn[s].batch) \subseteq acked
              => UNCHANGED db]_ingestionVars

\* The handler's next step waits for nobody.
Ready(s) ==
    \/ txn[s].pc \in {"lookup", "commit"}
    \/ txn[s].pc = "write" /\ (Absorbed(s) \/ \A r \in Sessions : ~Blocks(r, s))

\* No request waits in vain: of all the requests that one waits for, directly
\* or through others, one can go on, or the database has a circle to break.  No
\* row or key stays locked by a session whose request is over (ingest_events_batch
\* and the flushes of ingest_event and persist_trace).
RequestsUnstuck ==
    \A s \in Sessions : txn[s].pc \in {"lookup", "write", "commit"} =>
        \A waited \in SUBSET Sessions :
            /\ s \in waited
            /\ \A x \in waited, y \in Sessions : Blocks(y, x) => y \in waited
            => \E r \in waited : Ready(r) \/ Deadlocked(r)

\* Every request is answered, however requests wait for each other's rows.
RequestsAnswered ==
    \A s \in Sessions :
        txn[s].pc \in {"lookup", "write", "commit"} ~> txn[s].pc \in {"ok", "failed"}

\* FR-014, of every trace the server has acknowledged: its steps are there.
\* Violated: a post is dropped if an event has created the trace before it.
AckedTraceKept ==
    \A m \in acked : m.kind = "trace" /\ stored[m.of] # None =>
        {m.steps[i].id : i \in DOMAIN m.steps} \subseteq StepIdsOf(stored[m.of])

-----------------------------------------------------------------------------
(* What clients see of it is the service of IngestionService.              *)

Promised(m) ==
    IF m.kind = "event" THEN {m.of, KeyOf(m)} ELSE IF m.key = None THEN {m.of} ELSE {}

Mentioned(m) == {m.of, KeyOf(m)} \ {None}

SeenBatch(s) == IF txn[s].pc \in {"idle", "failed"} THEN <<>> ELSE txn[s].batch
SeenPc(s) == IF txn[s].pc \in {"lookup", "write", "commit"} THEN "busy" ELSE txn[s].pc

Service ==
    INSTANCE IngestionService WITH
        request <- [s \in Sessions |-> [pc |-> SeenPc(s), batch |-> SeenBatch(s)]],
        recorded <- {t \in Traces : stored[t] # None} \cup {k \in AllKeys : keys[k] # None}

\* A request takes effect as a whole and at once, and leaves recorded what it
\* was about: its events and their traces, and posted traces, unless their
\* Idempotency-Key stands for another one.
ImplementsService == Service!ServiceSpec

=============================================================================
