---------------------------- MODULE ControlPlane ----------------------------
(***************************************************************************)
(* What is done with runs once they are there, by requests of the API      *)
(* (main.py) and by self-improvement cycles (services/autonomous.py):      *)
(* suites and candidates, failure clusters and proposals, gate decisions   *)
(* with their manifests, promotions, API keys and the audit log.           *)
(*                                                                         *)
(* An API request is authenticated in a transaction of its own; then its   *)
(* handler reads, prepares the rows it adds, and commits them together.    *)
(***************************************************************************)
EXTENDS Naturals, Sequences, FiniteSets, FiniteSetsExt, SequencesExt

CONSTANTS Handlers,     \* sessions of API requests
          Cycles,       \* workers that execute cycles
          Projects,     \* projects; "default" is one
          Runs, ProjectOf, CandidateOf,   \* runs with their projects and candidates
          Cases,
          Outcomes,     \* [status, labels]: verdicts, labels of failed evaluations
          Actionable,   \* ACTIONABLE_FAILURE_LABELS
          Contents,     \* configurations that clients register
          StaticKey,    \* the key of the environment: [id, project, scopes]
          MaxCalls,     \* bound on requests and transactions of cycles
          None

Everywhere == "*"
Scopes == {"read", "write", "admin"}
Tables == {"suites", "candidates", "clusters", "proposals", "manifests",
           "decisions", "promotions", "keys", "revoked", "audit"}

ASSUME ControlPlaneConstantsOK ==
    /\ "default" \in Projects /\ Everywhere \notin Projects
    /\ ProjectOf \in [Runs -> Projects]
    /\ \A o \in Outcomes : o = [status |-> o.status, labels |-> o.labels]
    /\ StaticKey = [id |-> StaticKey.id, project |-> Everywhere, scopes |-> Scopes]
    /\ StaticKey.id \notin Nat
    /\ Handlers \cap Cycles = {}
    /\ MaxCalls \in Nat

Actors == Handlers \cup Cycles

VARIABLES table,     \* the committed rows of each table
          pointer,   \* runs.manifest_id
          status,    \* runs.status: "running" or "completed"
          outcome,   \* run -> the outcomes of its cases, None while pending
          work,      \* the requests, and the transactions of cycles, under way
          calls,
          tick,      \* the clock of created_at, and the source of identifiers
          early,     \* history: clusters prepared before their run ended
          crossed    \* history: runs that were mined, or evaluated, by two at once

rows == <<table, pointer>>
runVars == <<status, outcome>>
vars == <<rows, runVars, work, calls, tick, early, crossed>>

Nothing == [t \in Tables |-> {}]
Idle == [pc |-> "idle", key |-> None, op |-> None, plan |-> Nothing]

Init ==
    /\ table = Nothing
    /\ pointer = [r \in Runs |-> None]
    /\ status = [r \in Runs |-> "running"]
    /\ outcome = [r \in Runs |-> [c \in Cases |-> None]]
    /\ work = [a \in Actors |-> Idle]
    /\ calls = 0 /\ tick = 1
    /\ early = {} /\ crossed = {}

-----------------------------------------------------------------------------
(* The runs, as far as they matter here.                                   *)

RecordCase(r, c, o) ==
    /\ outcome[r][c] = None
    /\ outcome' = [outcome EXCEPT ![r][c] = o]
    /\ UNCHANGED <<rows, status, work, calls, tick, early, crossed>>

\* A run completes with a manifest nobody has decided on.
CompleteRun(r) ==
    /\ status[r] = "running"
    /\ \A c \in Cases : outcome[r][c] # None
    /\ status' = [status EXCEPT ![r] = "completed"]
    /\ table' = [table EXCEPT !["manifests"] =
                    @ \cup {[id |-> tick, run |-> r, decision |-> "needs_review"]}]
    /\ pointer' = [pointer EXCEPT ![r] = tick]
    /\ tick' = tick + 1
    /\ UNCHANGED <<outcome, work, calls, early, crossed>>

-----------------------------------------------------------------------------
(* Authentication (security.py, get_auth_context).                         *)

NeededScope(op) == IF op.kind \in {"key", "revoke"} THEN "admin" ELSE "write"
HasScope(key, scope) == {"admin", scope} \cap key.scopes # {}
Reaches(key, project) == key.project \in {Everywhere, project}

\* _resolve_payload_project: "default" stands for the project of the key.
Resolved(key, asked) ==
    IF key.project # Everywhere /\ asked = "default" THEN key.project ELSE asked

Revoked(key) == \E x \in table["revoked"] : x.id = key.id

\* A request arrives and is authenticated, which is committed at once: what
\* happens to the key later does not matter to it.  Others get a 401 or 403.
Authenticate(h, key, op) ==
    /\ work[h].pc = "idle" /\ calls < MaxCalls
    /\ ~Revoked(key)
    /\ HasScope(key, NeededScope(op))
    /\ calls' = calls + 1
    /\ work' = [work EXCEPT ![h] = [Idle EXCEPT !.pc = "serving", !.key = key, !.op = op]]
    /\ UNCHANGED <<rows, runVars, tick, early, crossed>>

\* The checks of the handlers, on what is committed by then.
MayCreate(key, op) == Reaches(key, Resolved(key, op.project))

MayRevoke(key, op, k) == k.id = op.of /\ Reaches(key, k.project)

MayMine(key, op) == Reaches(key, ProjectOf[op.run])

MayPropose(key, op) ==
    op.cluster \in table["clusters"] /\ Reaches(key, ProjectOf[op.cluster.run])

MayEvaluate(key, op) ==
    /\ Reaches(key, ProjectOf[op.run])
    /\ Resolved(key, op.project) = ProjectOf[op.run]
    /\ status[op.run] = "completed"

MayPromote(key, op, d) ==
    /\ d.id = op.decision
    /\ Reaches(key, ProjectOf[d.run])
    /\ op.candidate = d.candidate /\ op.manifest = d.manifest
    /\ d.decision = "approved" \/ op.override

Valid(key, op) ==
    CASE op.kind \in {"suite", "candidate", "key"} -> MayCreate(key, op)
      [] op.kind = "revoke" -> \E k \in table["keys"] : MayRevoke(key, op, k)
      [] op.kind = "mine" -> MayMine(key, op)
      [] op.kind = "propose" -> MayPropose(key, op)
      [] op.kind = "evaluate" -> MayEvaluate(key, op)
      [] op.kind = "promote" -> \E d \in table["decisions"] : MayPromote(key, op, d)

\* 403, 404, 400 or 409.
Refuse(h) ==
    /\ work[h].pc = "serving"
    /\ ~Valid(work[h].key, work[h].op)
    /\ work' = [work EXCEPT ![h] = Idle]
    /\ UNCHANGED <<rows, runVars, calls, tick, early, crossed>>

-----------------------------------------------------------------------------
(* The handlers: what each is about to add.                                *)

Serves(h, kind) ==
    /\ work[h].pc = "serving" /\ work[h].op.kind = kind
    /\ Valid(work[h].key, work[h].op)

\* The rows of a plan have this moment as their created_at.
Plan(a, plan) ==
    /\ work' = [work EXCEPT ![a] =
           [pc |-> "commit", key |-> None, op |-> None, plan |-> plan]]
    /\ tick' = tick + 1
    /\ UNCHANGED <<rows, runVars, calls>>

\* What the log says of a deed.
Deed(action, resource, project, actor) ==
    [action |-> action, resource |-> resource, project |-> project, actor |-> actor]

\* record_audit_event: in the same transaction.
Event(h, action, resource, project) ==
    {Deed(action, resource, project, work[h].key.id)}

\* History, kept in the rows: the key that asked for them, none for a cycle.
By(h) == {work[h].key.id}
Nobody == {}

NextVersion(project) ==
    1 + Max({0} \cup {s.version : s \in {x \in table["suites"] : x.project = project}})

\* Of one name; the traces it selects are there.
CreateSuite(h) ==
    LET project == Resolved(work[h].key, work[h].op.project) IN
    /\ Serves(h, "suite")
    /\ Plan(h, [Nothing EXCEPT
           !["suites"] = {[id |-> tick, project |-> project, by |-> By(h),
                           version |-> NextVersion(project)]},
           !["audit"] = Event(h, "suite.create", tick, project)])
    /\ UNCHANGED <<early, crossed>>

Registered(project, content) ==
    {c \in table["candidates"] : c.project = project /\ c.content = content}

NewCandidate(project, content, by) ==
    IF Registered(project, content) # {} THEN {}
    ELSE {[id |-> tick, project |-> project, content |-> content, by |-> by]}

\* The same content is the same candidate, and no event.
CreateCandidate(h) ==
    LET project == Resolved(work[h].key, work[h].op.project)
        new == NewCandidate(project, work[h].op.content, By(h))
    IN  /\ Serves(h, "candidate")
        /\ Plan(h, [Nothing EXCEPT
               !["candidates"] = new,
               !["audit"] = IF new = {} THEN {}
                            ELSE Event(h, "candidate.create", tick, project)])
        /\ UNCHANGED <<early, crossed>>

CreateKey(h) ==
    LET project == Resolved(work[h].key, work[h].op.project) IN
    /\ Serves(h, "key")
    /\ Plan(h, [Nothing EXCEPT
           !["keys"] = {[id |-> tick, project |-> project, by |-> By(h),
                         scopes |-> work[h].op.scopes]},
           !["audit"] = Event(h, "api_key.create", tick, project)])
    /\ UNCHANGED <<early, crossed>>

RevokeKey(h) ==
    \E k \in table["keys"] :
        /\ Serves(h, "revoke") /\ MayRevoke(work[h].key, work[h].op, k)
        /\ Plan(h, [Nothing EXCEPT
               !["revoked"] = {[id |-> k.id, project |-> k.project, by |-> By(h)]},
               !["audit"] = Event(h, "api_key.revoke", k.id, k.project)])
        /\ UNCHANGED <<early, crossed>>

-----------------------------------------------------------------------------
(* Failure mining (services/failures.py) and proposals.                    *)

IsFailure(o) == o # None /\ o.status \in {"failed", "flaky", "error"}
Failures(r) == {c \in Cases : IsFailure(outcome[r][c])}

\* failure_cluster_key: the most telling label there is.
ClusterKey(o) ==
    LET first == SelectInSeq(Actionable, LAMBDA l : l \in ToSet(o.labels))
    IN  IF first # 0 THEN Actionable[first]
        ELSE IF o.labels # <<>> THEN o.labels[1] ELSE o.status

\* A wrong version of Clusters: a case is counted under each of its labels.
ClustersByLabel(r, by) ==
    LET types == UNION {ToSet(outcome[r][c].labels) : c \in Failures(r)}
    IN  {[id |-> tick, run |-> r, type |-> t, by |-> by,
          cases |-> {c \in Failures(r) : t \in ToSet(outcome[r][c].labels)}] : t \in types}

Clusters(r, by) ==
    {[id |-> tick, run |-> r, type |-> t, by |-> by,
      cases |-> {c \in Failures(r) : ClusterKey(outcome[r][c]) = t}] :
     t \in {ClusterKey(outcome[r][c]) : c \in Failures(r)}}

Mined(r) == {x \in table["clusters"] : x.run = r}
NewClusters(r, by) == IF Mined(r) = {} THEN Clusters(r, by) ELSE {}

\* Somebody else is about to add rows about the run to the same table.
Crossing(a, t, r) ==
    IF \E b \in Actors \ {a} : \E x \in work[b].plan[t] : x.run = r
    THEN crossed \cup {<<t, r>>} ELSE crossed

\* In any status of the run, as soon as it has cases.
MineFailures(h) ==
    LET r == work[h].op.run IN
        /\ Serves(h, "mine")
        /\ Plan(h, [Nothing EXCEPT
               !["clusters"] = NewClusters(r, By(h)),
               !["audit"] = Event(h, "failures.mine", r, ProjectOf[r])])
        /\ early' = IF status[r] = "running" THEN early \cup {tick} ELSE early
        /\ crossed' = Crossing(h, "clusters", r)

\* What generate_candidate_patch makes of a cluster is determined by it, the
\* target and the failed evaluations of its cases; the candidate made of it
\* also says whether a request or a cycle made it.
Patch(maker, cluster, target) ==
    [maker |-> maker, cluster |-> [id |-> cluster.id, type |-> cluster.type],
     target |-> target, evidence |-> [c \in cluster.cases |-> outcome[cluster.run][c]]]

\* run is that of the cluster.
Proposal(cluster, candidate, by) ==
    {[id |-> tick, cluster |-> cluster.id, run |-> cluster.run, candidate |-> candidate,
      by |-> by]}

\* The candidate of a patch: the new one, or the one there is.
Chosen(new, project, patch) == (CHOOSE c \in new \cup Registered(project, patch) : TRUE).id

ProposeImprovement(h) ==
    LET op == work[h].op
        project == ProjectOf[op.cluster.run]
        patch == Patch("request", op.cluster, op.target)
        new == IF op.create THEN NewCandidate(project, patch, By(h)) ELSE {}
    IN  /\ Serves(h, "propose")
        /\ Plan(h, [Nothing EXCEPT
               !["candidates"] = new,
               !["proposals"] = Proposal(op.cluster,
                   IF op.create THEN Chosen(new, project, patch) ELSE None, By(h)),
               !["audit"] = Event(h, "improvement.propose", tick, project)])
        /\ UNCHANGED <<early, crossed>>

-----------------------------------------------------------------------------
(* Gates, manifests and promotions.                                        *)

\* An identifier of its own in the code; here that of its manifest.
Decision(r, verdict, by) ==
    [id |-> tick, run |-> r, candidate |-> CandidateOf[r], decision |-> verdict,
     manifest |-> tick, by |-> by]

\* A wrong version of Evaluation: the manifest is built without the decision.
EvaluationUndecided(r, verdict, by) ==
    [Nothing EXCEPT
        !["manifests"] = {[id |-> tick, run |-> r, decision |-> "needs_review"]},
        !["decisions"] = {Decision(r, verdict, by)}]

\* What GateEvidence decides, with a manifest that build_manifest signs for it.
Evaluation(r, verdict, by) ==
    [Nothing EXCEPT
        !["manifests"] = {[id |-> tick, run |-> r, decision |-> verdict]},
        !["decisions"] = {Decision(r, verdict, by)}]

EvaluateGate(h) ==
    LET op == work[h].op IN
    /\ Serves(h, "evaluate")
    /\ Plan(h, [Evaluation(op.run, op.verdict, By(h)) EXCEPT
           !["audit"] = Event(h, "gate.evaluate", tick, ProjectOf[op.run])])
    /\ crossed' = Crossing(h, "manifests", op.run)
    /\ UNCHANGED early

\* d is the decision.
Promotion(d, override, by) ==
    {[id |-> tick, decision |-> d.id, run |-> d.run, candidate |-> d.candidate,
      manifest |-> d.manifest, override |-> override, by |-> by]}

CreatePromotion(h) ==
    LET op == work[h].op IN
    \E d \in table["decisions"] :
        /\ Serves(h, "promote") /\ MayPromote(work[h].key, op, d)
        /\ Plan(h, [Nothing EXCEPT
               !["promotions"] = Promotion(d, op.override, By(h)),
               !["audit"] = Event(h, "promotion.create", tick, ProjectOf[d.run])])
        /\ UNCHANGED <<early, crossed>>

-----------------------------------------------------------------------------
(* Transactions of cycles: no request, no key, no audit event.             *)

Transaction(w, r, plan) ==
    /\ work[w].pc = "idle" /\ calls < MaxCalls
    /\ status[r] = "completed"
    /\ calls' = calls + 1
    /\ work' = [work EXCEPT ![w] = [Idle EXCEPT !.pc = "commit", !.plan = plan]]
    /\ tick' = tick + 1
    /\ UNCHANGED <<rows, runVars>>

\* The baseline run of a cycle is mined, if it has not been before, and a
\* candidate and a proposal made of one of its clusters; of the next ones later.
OpenCluster(w, r) ==
    LET mined == NewClusters(r, Nobody) IN
    /\ \E x \in Mined(r) \cup mined :
           LET patch == Patch("cycle", x, "prompt")
               new == NewCandidate(ProjectOf[r], patch, Nobody)
           IN  Transaction(w, r, [Nothing EXCEPT
                   !["clusters"] = mined,
                   !["candidates"] = new,
                   !["proposals"] = Proposal(x, Chosen(new, ProjectOf[r], patch), Nobody)])
    /\ crossed' = Crossing(w, "clusters", r)
    /\ UNCHANGED early

\* A validation run is judged, and its candidate promoted if the gate and the
\* comparison with the baseline approve and the cycle is asked to.
JudgeRun(w, r, verdict, promote) ==
    /\ promote => verdict = "approved"
    /\ Transaction(w, r, [Evaluation(r, verdict, Nobody) EXCEPT
           !["promotions"] = IF promote
                             THEN Promotion(Decision(r, verdict, Nobody), FALSE, Nobody) ELSE {}])
    /\ crossed' = Crossing(w, "manifests", r)
    /\ UNCHANGED early

-----------------------------------------------------------------------------
(* The end of a transaction.                                               *)

\* A wrong version of Conflict: suites have no unique constraint.
ConflictOfCandidates(a) ==
    \E x \in work[a].plan["candidates"] : Registered(x.project, x.content) # {}

\* uq_suites_project_name_version, uq_candidates_project_hash
Conflict(a) ==
    \/ \E x \in work[a].plan["suites"], y \in table["suites"] :
           x.project = y.project /\ x.version = y.version
    \/ \E x \in work[a].plan["candidates"] : Registered(x.project, x.content) # {}

\* A wrong version of Commit: run.manifest_id follows approvals only.
CommitApproved(a) ==
    LET plan == work[a].plan IN
    /\ work[a].pc = "commit" /\ ~Conflict(a)
    /\ table' = [t \in Tables |-> table[t] \cup plan[t]]
    /\ pointer' = [r \in Runs |->
           LET built == {m \in plan["manifests"] : m.run = r /\ m.decision = "approved"}
           IN  IF built = {} THEN pointer[r] ELSE (CHOOSE m \in built : TRUE).id]
    /\ work' = [work EXCEPT ![a] = Idle]
    /\ UNCHANGED <<runVars, calls, tick, early, crossed>>

\* The run's row is updated with the manifest; a second update waits for the
\* commit of the first.
Commit(a) ==
    LET plan == work[a].plan IN
    /\ work[a].pc = "commit" /\ ~Conflict(a)
    /\ table' = [t \in Tables |-> table[t] \cup plan[t]]
    /\ pointer' = [r \in Runs |->
           LET built == {m \in plan["manifests"] : m.run = r}
           IN  IF built = {} THEN pointer[r] ELSE (CHOOSE m \in built : TRUE).id]
    /\ work' = [work EXCEPT ![a] = Idle]
    /\ UNCHANGED <<runVars, calls, tick, early, crossed>>

\* A wrong version of Fail: the audit event has been committed before.
FailAudited(a) ==
    /\ work[a].pc = "commit" /\ Conflict(a)
    /\ table' = [table EXCEPT !["audit"] = @ \cup work[a].plan["audit"]]
    /\ work' = [work EXCEPT ![a] = Idle]
    /\ UNCHANGED <<pointer, runVars, calls, tick, early, crossed>>

\* An IntegrityError: the whole transaction is rolled back, the request is a 500.
Fail(a) ==
    /\ work[a].pc = "commit" /\ Conflict(a)
    /\ work' = [work EXCEPT ![a] = Idle]
    /\ UNCHANGED <<rows, runVars, calls, tick, early, crossed>>

\* The process or its connection dies.
Die(a) ==
    /\ work[a].pc # "idle"
    /\ work' = [work EXCEPT ![a] = Idle]
    /\ UNCHANGED <<rows, runVars, calls, tick, early, crossed>>

-----------------------------------------------------------------------------

\* What clients ask for: resources they have seen, and some they have not.
Asked ==
    LET ids(t) == {x.id : x \in table[t]} IN
    [kind : {"suite"}, project : Projects]
    \cup [kind : {"candidate"}, project : Projects, content : Contents]
    \cup [kind : {"key"}, project : Projects, scopes : {{"write"}, {"admin"}}]
    \cup [kind : {"revoke"}, of : ids("keys")]
    \cup [kind : {"mine"}, run : Runs]
    \cup [kind : {"propose"}, cluster : table["clusters"], target : {"prompt"}, create : BOOLEAN]
    \cup [kind : {"evaluate"}, project : Projects, run : Runs, verdict : {"approved", "blocked"}]
    \cup [kind : {"promote"}, decision : ids("decisions"), manifest : ids("manifests"),
           candidate : {CandidateOf[r] : r \in Runs}, override : BOOLEAN]

Next ==
    \/ \E r \in Runs : \/ CompleteRun(r)
                       \/ \E c \in Cases, o \in Outcomes : RecordCase(r, c, o)
    \/ \E h \in Handlers :
           \/ \E key \in table["keys"] \cup {StaticKey}, op \in Asked :
                  Authenticate(h, key, op)
           \/ Refuse(h)
           \/ CreateSuite(h) \/ CreateCandidate(h) \/ CreateKey(h) \/ RevokeKey(h)
           \/ MineFailures(h) \/ ProposeImprovement(h)
           \/ EvaluateGate(h) \/ CreatePromotion(h)
    \/ \E w \in Cycles, r \in Runs :
           \/ OpenCluster(w, r)
           \/ \E verdict \in {"approved", "blocked"}, promote \in BOOLEAN :
                  JudgeRun(w, r, verdict, promote)
    \/ \E a \in Actors : Commit(a) \/ Fail(a) \/ Die(a)

Spec == Init /\ [][Next]_vars

-----------------------------------------------------------------------------
(* What the tables tell.                                                   *)

\* Every promotion, of a client or a cycle, rests on a decision about a run of
\* its candidate that had completed, and names the manifest that carries this
\* decision; without an override the decision is an approval (create_promotion,
\* _maybe_promote; FR-063).
PromotionBacked ==
    \A p \in table["promotions"] :
        \E d \in table["decisions"], m \in table["manifests"] :
            /\ d.id = p.decision /\ d.candidate = p.candidate
            /\ m.id = p.manifest /\ d.manifest = p.manifest
            /\ m.run = d.run /\ m.decision = d.decision /\ p.run = d.run
            /\ status[d.run] = "completed"
            /\ p.override \/ d.decision = "approved"
            /\ p.by = Nobody => ~p.override

\* Rows about runs are in the projects of the runs.
ByRun(things) ==
    {[id |-> x.id, project |-> ProjectOf[x.run], by |-> x.by] : x \in things}

\* Things that clients made have their events, with their project and their maker;
\* events have their things.
Told(audit, action, things) ==
    \A x \in things : \A k \in x.by : Deed(action, x.id, x.project, k) \in audit
Made(audit, action, things) ==
    \A e \in audit : e.action = action =>
        \E x \in things : \E k \in x.by : e = Deed(action, x.id, x.project, k)
Tells(audit, action, things) == Told(audit, action, things) /\ Made(audit, action, things)

\* A candidate made for a proposal is told with the proposal.
CandidatesTold(db) ==
    \A c \in db["candidates"] : \A k \in c.by :
        \/ Deed("candidate.create", c.id, c.project, k) \in db["audit"]
        \/ \E p \in db["proposals"] : p.candidate = c.id /\ p.by = c.by

\* Mining tells of the run, and may find nothing to add.
MiningTold(db) ==
    /\ \A x \in db["clusters"] : \A k \in x.by :
           Deed("failures.mine", x.run, ProjectOf[x.run], k) \in db["audit"]
    /\ \A e \in db["audit"] : e.action = "failures.mine" =>
           e.resource \in Runs /\ e.project = ProjectOf[e.resource]

Telling(db) ==
    LET audit == db["audit"] IN
    /\ Tells(audit, "suite.create", db["suites"])
    /\ Tells(audit, "api_key.create", db["keys"])
    /\ Tells(audit, "api_key.revoke", db["revoked"])
    /\ Tells(audit, "improvement.propose", ByRun(db["proposals"]))
    /\ Tells(audit, "gate.evaluate", ByRun(db["decisions"]))
    /\ Tells(audit, "promotion.create", ByRun(db["promotions"]))
    /\ Made(audit, "candidate.create", db["candidates"])
    /\ CandidatesTold(db)
    /\ MiningTold(db)

\* The key of an event was the static one or one of the table, and reached the
\* project of the event.
Entitled(e) ==
    \E k \in table["keys"] \cup {StaticKey} : k.id = e.actor /\ Reaches(k, e.project)

\* The log tells what clients did and nothing else, whichever requests conflict
\* or die.  A suite, key, revocation, proposal, gate decision or promotion that a
\* request made has an event that names it, its project and the key the request
\* came with, and each such event has its thing, of this project and made with
\* this key.  So has a candidate, unless it was made for a proposal of the same
\* key.  The clusters that a request mined have an event about their run, and
\* each event about mining names a run and its project.  What cycles made has no
\* event.  Nobody is named in a project that his key does not reach
\* (record_audit_event and its callers in main.py; SR-007, SR-008).
AuditTells == Telling(table) /\ \A e \in table["audit"] : Entitled(e)

\* Suites of a project are numbered from 1 without a gap or a repetition, and a
\* content is registered once, however creations overlap (create_suite,
\* create_candidate, propose_improvement).
CatalogUnique ==
    /\ \A p \in Projects :
           LET suites == {s \in table["suites"] : s.project = p}
           IN  {s.version : s \in suites} = 1 .. Cardinality(suites)
    /\ \A c, d \in table["candidates"] :
           c.project = d.project /\ c.content = d.content => c = d

\* The clusters of a run that had ended when it was mined have every failed case
\* exactly once, and a run has only one set of clusters, unless two miners met
\* (mine_failure_clusters).
ClustersSound ==
    \A r \in Runs :
        /\ \A x, y \in Mined(r) : x.id = y.id \/ <<"clusters", r>> \in crossed
        /\ \A x \in Mined(r) : x.id \notin early =>
               LET same == {y \in Mined(r) : y.id = x.id}
               IN  /\ UNION {y.cases : y \in same} = Failures(r)
                   /\ \A y, z \in same : y # z => y.cases \cap z.cases = {}

\* The manifest a run points to is the latest one, which GET /v1/manifests
\* returns, unless two evaluations of the run met: then the one that committed
\* last wins the pointer, the one that began last the query (build_manifest).
PointerLatest ==
    \A r \in Runs : <<"manifests", r>> \notin crossed =>
        \A m \in table["manifests"] : m.run = r => m.id <= pointer[r]

=============================================================================
