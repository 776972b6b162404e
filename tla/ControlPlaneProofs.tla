------------------------- MODULE ControlPlaneProofs -------------------------
(***************************************************************************)
(* Theorems about ControlPlane for any number of handlers, cycles, runs,   *)
(* projects, cases and calls.                                              *)
(***************************************************************************)
EXTENDS ControlPlane, FiniteSetTheorems, TLAPS

-----------------------------------------------------------------------------
(* What every step is, as far as the theorems need to know.                *)

\* The key of a request was found, and a run that is mined or judged is there.
Known(request) ==
    request.pc = "serving" =>
        /\ request.key \in table["keys"] \cup {StaticKey}
        /\ request.op.kind \in {"mine", "evaluate"} => request.op.run \in Runs

\* The variables are functions over what they are indexed by, and time is a number.
Shape ==
    /\ DOMAIN table = Tables /\ DOMAIN pointer = Runs /\ DOMAIN work = Actors
    /\ status \in [Runs -> {"running", "completed"}]
    /\ DOMAIN outcome = Runs /\ \A r \in Runs : DOMAIN outcome[r] = Cases
    /\ tick \in Nat \ {0}
    /\ \A a \in Actors : Known(work[a])

\* Actor a gets a plan that adds nothing to the tables of T, and nothing is
\* committed.
Replans(a, T) ==
    /\ work' = [work EXCEPT ![a] = work'[a]]
    /\ \A t \in T : work'[a].plan[t] = {}
    /\ Known(work'[a])
    /\ UNCHANGED <<table, pointer, status, outcome>>
    /\ tick' \in {tick, tick + 1}
    /\ early \subseteq early' /\ crossed \subseteq crossed'

\* A request that arrives, is refused or fails has no plan; the other requests
\* plan rows of two or three tables.
LEMMA HandlerPlans ==
    ASSUME Shape, NEW h \in Handlers
    PROVE  /\ \A key \in table["keys"] \cup {StaticKey}, op \in Asked :
                  Authenticate(h, key, op) => Replans(h, Tables)
           /\ Refuse(h) => Replans(h, Tables)
           /\ CreateSuite(h) => Replans(h, Tables \ {"suites", "audit"})
           /\ CreateCandidate(h) => Replans(h, Tables \ {"candidates", "audit"})
           /\ CreateKey(h) => Replans(h, Tables \ {"keys", "audit"})
           /\ RevokeKey(h) => Replans(h, Tables \ {"revoked", "audit"})
           /\ MineFailures(h) => Replans(h, Tables \ {"clusters", "audit"})
           /\ ProposeImprovement(h) =>
                  Replans(h, Tables \ {"candidates", "proposals", "audit"})
           /\ EvaluateGate(h) => Replans(h, Tables \ {"manifests", "decisions", "audit"})
           /\ CreatePromotion(h) => Replans(h, Tables \ {"promotions", "audit"})
<1>. h \in Actors
  BY DEF Actors
<1>. USE DEF Shape, Replans, Plan, Known, Nothing, rows, runVars
<1>1. ASSUME NEW key \in table["keys"] \cup {StaticKey}, NEW op \in Asked,
             Authenticate(h, key, op)
      PROVE  Replans(h, Tables)
  <2>1. op.kind \in {"mine", "evaluate"} => op.run \in Runs
    BY DEF Asked
  <2>2. /\ work' = [work EXCEPT ![h] = work'[h]]
        /\ work'[h].op = op /\ work'[h].key = key /\ work'[h].plan = Nothing
    BY <1>1 DEF Authenticate, Idle
  <2>3. UNCHANGED <<table, pointer, status, outcome, tick, early, crossed>>
    BY <1>1 DEF Authenticate
  <2>. QED
    BY <2>1, <2>2, <2>3
<1>2. Refuse(h) => Replans(h, Tables)
  BY DEF Refuse, Idle
<1>3. CreateSuite(h) => Replans(h, Tables \ {"suites", "audit"})
  BY DEF CreateSuite
<1>4. CreateCandidate(h) => Replans(h, Tables \ {"candidates", "audit"})
  BY DEF CreateCandidate
<1>5. CreateKey(h) => Replans(h, Tables \ {"keys", "audit"})
  BY DEF CreateKey
<1>6. RevokeKey(h) => Replans(h, Tables \ {"revoked", "audit"})
  BY DEF RevokeKey
<1>7. MineFailures(h) => Replans(h, Tables \ {"clusters", "audit"})
  BY DEF MineFailures, Crossing
<1>8. ProposeImprovement(h) => Replans(h, Tables \ {"candidates", "proposals", "audit"})
  <2>. DEFINE op == work[h].op
              project == ProjectOf[op.cluster.run]
              patch == Patch("request", op.cluster, op.target)
              new == IF op.create THEN NewCandidate(project, patch, By(h)) ELSE {}
              P == [Nothing EXCEPT
                       !["candidates"] = new,
                       !["proposals"] = Proposal(op.cluster,
                           IF op.create THEN Chosen(new, project, patch) ELSE None, By(h)),
                       !["audit"] = Event(h, "improvement.propose", tick, project)]
  <2>1. ProposeImprovement(h) => Plan(h, P)
    BY DEF ProposeImprovement
  <2>2. \A t \in Tables \ {"candidates", "proposals", "audit"} : P[t] = {}
    OBVIOUS
  <2>3. ProposeImprovement(h) => UNCHANGED <<early, crossed>>
    BY DEF ProposeImprovement
  <2>. HIDE DEF P
  <2>. QED
    BY <2>1, <2>2, <2>3
<1>9. EvaluateGate(h) => Replans(h, Tables \ {"manifests", "decisions", "audit"})
  BY DEF EvaluateGate, Evaluation, Crossing
<1>10. CreatePromotion(h) => Replans(h, Tables \ {"promotions", "audit"})
  BY DEF CreatePromotion
<1>. QED
  BY <1>1, <1>2, <1>3, <1>4, <1>5, <1>6, <1>7, <1>8, <1>9, <1>10

\* So do the transactions of cycles, and the ends of transactions but Commit.
LEMMA CyclePlans ==
    ASSUME Shape, NEW w \in Cycles, NEW r \in Runs, NEW verdict, NEW promote
    PROVE  /\ OpenCluster(w, r) =>
                  Replans(w, Tables \ {"clusters", "candidates", "proposals"})
           /\ JudgeRun(w, r, verdict, promote) =>
                  Replans(w, Tables \ {"manifests", "decisions", "promotions"})
<1>. w \in Actors
  BY DEF Actors
<1>1. ASSUME NEW P, Transaction(w, r, P), NEW T, \A t \in T : P[t] = {},
             early \subseteq early', crossed \subseteq crossed'
      PROVE  Replans(w, T)
  <2>1. /\ work'[w].plan = P /\ work' = [work EXCEPT ![w] = work'[w]]
        /\ work'[w].pc = "commit"
    BY <1>1 DEF Transaction, Idle, Shape
  <2>. QED
    BY <1>1, <2>1 DEF Transaction, Replans, Known, Shape, rows, runVars
<1>2. ASSUME OpenCluster(w, r)
      PROVE  Replans(w, Tables \ {"clusters", "candidates", "proposals"})
  <2>1. PICK x : LET patch == Patch("cycle", x, "prompt")
                     new == NewCandidate(ProjectOf[r], patch, Nobody)
                 IN  Transaction(w, r, [Nothing EXCEPT
                         !["clusters"] = NewClusters(r, Nobody),
                         !["candidates"] = new,
                         !["proposals"] =
                             Proposal(x, Chosen(new, ProjectOf[r], patch), Nobody)])
    BY <1>2 DEF OpenCluster
  <2>. DEFINE patch == Patch("cycle", x, "prompt")
              new == NewCandidate(ProjectOf[r], patch, Nobody)
              P == [Nothing EXCEPT
                       !["clusters"] = NewClusters(r, Nobody),
                       !["candidates"] = new,
                       !["proposals"] = Proposal(x, Chosen(new, ProjectOf[r], patch), Nobody)]
  <2>2. Transaction(w, r, P)
    BY <2>1
  <2>3. \A t \in Tables \ {"clusters", "candidates", "proposals"} : P[t] = {}
    BY DEF Nothing
  <2>. HIDE DEF P
  <2>. QED
    BY <1>1, <1>2, <2>2, <2>3 DEF OpenCluster, Crossing
<1>3. JudgeRun(w, r, verdict, promote) =>
          Replans(w, Tables \ {"manifests", "decisions", "promotions"})
  <2>. DEFINE P == [Evaluation(r, verdict, Nobody) EXCEPT !["promotions"] =
                       IF promote
                       THEN Promotion(Decision(r, verdict, Nobody), FALSE, Nobody) ELSE {}]
  <2>1. \A t \in Tables \ {"manifests", "decisions", "promotions"} : P[t] = {}
    BY DEF Nothing, Evaluation
  <2>2. JudgeRun(w, r, verdict, promote) =>
            /\ Transaction(w, r, P)
            /\ early \subseteq early' /\ crossed \subseteq crossed'
    BY DEF JudgeRun, Crossing
  <2>. HIDE DEF P
  <2>. QED
    BY <1>1, <2>1, <2>2
<1>. QED
  BY <1>2, <1>3

LEMMA EndPlans ==
    ASSUME Shape, NEW a \in Actors
    PROVE  Fail(a) \/ Die(a) => Replans(a, Tables)
  BY DEF Shape, Replans, Known, Fail, Die, Nothing, rows, runVars, Idle

\* In short: what a step of Next is.
Replanning == \E a \in Actors : Replans(a, {})

LEMMA Steps ==
    ASSUME Shape, Next
    PROVE  \/ \E r \in Runs, c \in Cases, o \in Outcomes : RecordCase(r, c, o)
           \/ \E r \in Runs : CompleteRun(r)
           \/ \E a \in Actors : Commit(a)
           \/ Replanning
<1>1. ASSUME NEW a \in Actors, NEW T, Replans(a, T)
      PROVE  Replanning
  BY <1>1 DEF Replans, Replanning
<1>. QED
  BY <1>1, HandlerPlans, CyclePlans, EndPlans DEF Next, Actors

LEMMA InitShape == Init => Shape
  BY DEF Init, Shape, Known, Idle, Nothing

LEMMA NextShape ==
    ASSUME Shape, [Next]_vars
    PROVE  Shape'
<1>1. CASE UNCHANGED vars
  BY <1>1 DEF Shape, Known, vars, rows, runVars
<1>2. ASSUME NEW r \in Runs, NEW c \in Cases, NEW o \in Outcomes, RecordCase(r, c, o)
      PROVE  Shape'
  BY <1>2 DEF Shape, RecordCase, Known, rows
<1>3. ASSUME NEW r \in Runs, CompleteRun(r)
      PROVE  Shape'
  BY <1>3 DEF Shape, Known, CompleteRun
<1>4. ASSUME NEW a \in Actors, Commit(a)
      PROVE  Shape'
  <2>1. /\ DOMAIN table' = Tables /\ DOMAIN pointer' = Runs
        /\ work' = [work EXCEPT ![a] = Idle]
        /\ UNCHANGED <<status, outcome, tick>>
    BY <1>4 DEF Commit, runVars
  <2>2. table["keys"] \subseteq table'["keys"]
    BY <1>4 DEF Commit, Tables
  <2>3. \A b \in Actors : Known(work[b])'
    BY <2>1, <2>2 DEF Shape, Known, Idle
  <2>. QED
    BY <2>1, <2>3 DEF Shape
<1>5. ASSUME NEW a \in Actors, Replans(a, {})
      PROVE  Shape'
  BY <1>5 DEF Shape, Known, Replans
<1>. QED
  BY <1>1, <1>2, <1>3, <1>4, <1>5, Steps DEF Replanning

\* Rows are never deleted or changed, and a completed run stays completed.
LEMMA Monotone ==
    ASSUME Shape, [Next]_vars
    PROVE  /\ \A t \in Tables : table[t] \subseteq table'[t]
           /\ \A r \in Runs : status[r] = "completed" => status'[r] = "completed"
<1>1. CASE UNCHANGED vars
  BY <1>1 DEF vars, rows, runVars
<1>2. ASSUME NEW r \in Runs, NEW c \in Cases, NEW o \in Outcomes, RecordCase(r, c, o)
      PROVE  UNCHANGED <<table, status>>
  BY <1>2 DEF RecordCase, rows
<1>3. ASSUME NEW r \in Runs, CompleteRun(r)
      PROVE  /\ \A t \in Tables : table[t] \subseteq table'[t]
             /\ \A x \in Runs : status[x] = "completed" => status'[x] = "completed"
  BY <1>3 DEF Shape, CompleteRun
<1>4. ASSUME NEW a \in Actors, Commit(a)
      PROVE  /\ \A t \in Tables : table[t] \subseteq table'[t]
             /\ UNCHANGED status
  BY <1>4 DEF Commit, runVars
<1>5. ASSUME NEW a \in Actors, Replans(a, {})
      PROVE  UNCHANGED <<table, status>>
  BY <1>5 DEF Replans
<1>. QED
  BY <1>1, <1>2, <1>3, <1>4, <1>5, Steps DEF Replanning

-----------------------------------------------------------------------------
(* Promotions.  A decision is planned and committed together with the      *)
(* manifest that carries it, and a promotion with it or after it.          *)

Backed(d, manifests, st) ==
    /\ d.run \in Runs /\ st[d.run] = "completed"
    /\ \E m \in manifests : m.id = d.manifest /\ m.run = d.run /\ m.decision = d.decision

Founded(p, decisions) ==
    \E d \in decisions :
        /\ d.id = p.decision /\ d.candidate = p.candidate /\ d.manifest = p.manifest
        /\ p.run = d.run
        /\ p.override \/ d.decision = "approved"
        /\ p.by = Nobody => ~p.override

PromotionInv ==
    /\ \A d \in table["decisions"] : Backed(d, table["manifests"], status)
    /\ \A p \in table["promotions"] : Founded(p, table["decisions"])
    /\ \A a \in Actors :
           LET plan == work[a].plan IN
           /\ \A d \in plan["decisions"] : Backed(d, plan["manifests"], status)
           /\ \A p \in plan["promotions"] :
                  Founded(p, table["decisions"] \cup plan["decisions"])

LEMMA InitPromotionInv == Init => PromotionInv
  BY DEF Init, PromotionInv, Nothing, Tables, Idle

\* Decisions that are backed stay so, and promotions stay founded.
LEMMA StayBacked ==
    ASSUME Shape, [Next]_vars
    PROVE  /\ \A d, M, N : Backed(d, M, status) /\ M \subseteq N => Backed(d, N, status')
           /\ \A p, M, N : Founded(p, M) /\ M \subseteq N => Founded(p, N)
  BY Monotone DEF Backed, Founded

\* The actions that plan decisions or promotions.
LEMMA PromotionSteps ==
    ASSUME Shape, Next
    PROVE  \/ \E r \in Runs, c \in Cases, o \in Outcomes : RecordCase(r, c, o)
           \/ \E r \in Runs : CompleteRun(r)
           \/ \E a \in Actors : Commit(a)
           \/ \E h \in Handlers : EvaluateGate(h) \/ CreatePromotion(h)
           \/ \E w \in Cycles, r \in Runs :
                  \E verdict, promote : JudgeRun(w, r, verdict, promote)
           \/ \E a \in Actors : Replans(a, {"decisions", "promotions"})
<1>1. ASSUME NEW a \in Actors, NEW T, Replans(a, T), {"decisions", "promotions"} \subseteq T
      PROVE  Replans(a, {"decisions", "promotions"})
  BY <1>1 DEF Replans
<1>2. /\ {"decisions", "promotions"} \subseteq Tables
      /\ {"decisions", "promotions"} \subseteq Tables \ {"suites", "audit"}
      /\ {"decisions", "promotions"} \subseteq Tables \ {"candidates", "audit"}
      /\ {"decisions", "promotions"} \subseteq Tables \ {"keys", "audit"}
      /\ {"decisions", "promotions"} \subseteq Tables \ {"revoked", "audit"}
      /\ {"decisions", "promotions"} \subseteq Tables \ {"clusters", "audit"}
      /\ {"decisions", "promotions"} \subseteq
             Tables \ {"clusters", "candidates", "proposals"}
      /\ {"decisions", "promotions"} \subseteq Tables \ {"candidates", "proposals", "audit"}
  BY DEF Tables
<1>. QED
  BY <1>1, <1>2, HandlerPlans, CyclePlans, EndPlans DEF Next, Actors

\* What the three actions plan.
LEMMA EvaluationBacked ==
    ASSUME Shape, NEW r \in Runs, NEW verdict, NEW by, status[r] = "completed"
    PROVE  /\ \A d \in Evaluation(r, verdict, by)["decisions"] :
                  Backed(d, Evaluation(r, verdict, by)["manifests"], status)
           /\ Evaluation(r, verdict, by)["promotions"] = {}
<1>1. /\ Evaluation(r, verdict, by)["manifests"]
             = {[id |-> tick, run |-> r, decision |-> verdict]}
      /\ Evaluation(r, verdict, by)["decisions"] = {Decision(r, verdict, by)}
      /\ Evaluation(r, verdict, by)["promotions"] = {}
  BY DEF Evaluation, Nothing, Tables
<1>. QED
  BY <1>1 DEF Backed, Decision

LEMMA EvaluatePlans ==
    ASSUME Shape, NEW h \in Handlers, EvaluateGate(h)
    PROVE  LET plan == work'[h].plan IN
           /\ plan["promotions"] = {}
           /\ \A d \in plan["decisions"] : Backed(d, plan["manifests"], status)
<1>. DEFINE op == work[h].op
            E == Evaluation(op.run, op.verdict, By(h))
            P == [E EXCEPT !["audit"] = Event(h, "gate.evaluate", tick, ProjectOf[op.run])]
<1>1. op.run \in Runs /\ status[op.run] = "completed"
  BY DEF EvaluateGate, Serves, Valid, MayEvaluate, Shape, Known, Actors
<1>2. /\ P["promotions"] = E["promotions"] /\ P["decisions"] = E["decisions"]
      /\ P["manifests"] = E["manifests"]
  BY DEF Evaluation, Nothing, Tables
<1>3. Plan(h, P)
  BY DEF EvaluateGate
<1>4. work'[h].plan = P
  <2>. HIDE DEF P
  <2>. QED
    BY <1>3 DEF Plan, Shape, Actors
<1>. HIDE DEF P, E
<1>5. /\ \A d \in E["decisions"] : Backed(d, E["manifests"], status)
      /\ E["promotions"] = {}
  BY <1>1, EvaluationBacked DEF E
<1>. QED
  BY <1>2, <1>4, <1>5

LEMMA CreatePromotionPlans ==
    ASSUME Shape, NEW h \in Handlers, CreatePromotion(h)
    PROVE  LET plan == work'[h].plan IN
           /\ plan["decisions"] = {}
           /\ \A p \in plan["promotions"] : Founded(p, table["decisions"])
<1>. DEFINE op == work[h].op
            N(d) == Promotion(d, op.override, By(h))
            P(d) == [Nothing EXCEPT
                        !["promotions"] = N(d),
                        !["audit"] = Event(h, "promotion.create", tick, ProjectOf[d.run])]
<1>1. PICK d \in table["decisions"] : MayPromote(work[h].key, op, d) /\ Plan(h, P(d))
  BY DEF CreatePromotion
<1>2. P(d)["decisions"] = {} /\ P(d)["promotions"] = N(d)
  BY DEF Nothing, Tables
<1>3. work'[h].plan = P(d)
  <2>. HIDE DEF P
  <2>. QED
    BY <1>1 DEF Plan, Shape, Actors
<1>4. d.decision = "approved" \/ op.override
  BY <1>1 DEF MayPromote
<1>5. By(h) # Nobody
  BY DEF By, Nobody
<1>6. \A p \in N(d) : /\ p.decision = d.id /\ p.candidate = d.candidate
                      /\ p.manifest = d.manifest /\ p.run = d.run
                      /\ p.override = op.override /\ p.by = By(h)
  <2>. HIDE DEF op
  <2>. QED
    BY DEF Promotion
<1>. HIDE DEF P, N, op
<1>7. \A p \in N(d) : Founded(p, table["decisions"])
  BY <1>1, <1>4, <1>5, <1>6 DEF Founded
<1>. QED
  BY <1>2, <1>3, <1>7

LEMMA JudgePlans ==
    ASSUME Shape, NEW w \in Cycles, NEW r \in Runs, NEW verdict, NEW promote,
           JudgeRun(w, r, verdict, promote)
    PROVE  LET plan == work'[w].plan IN
           /\ \A d \in plan["decisions"] : Backed(d, plan["manifests"], status)
           /\ \A p \in plan["promotions"] : Founded(p, plan["decisions"])
<1>. DEFINE d == Decision(r, verdict, Nobody)
            E == Evaluation(r, verdict, Nobody)
            N == IF promote THEN Promotion(d, FALSE, Nobody) ELSE {}
            P == [E EXCEPT !["promotions"] = N]
<1>1. Transaction(w, r, P) /\ (promote => verdict = "approved")
  BY DEF JudgeRun
<1>2. P["decisions"] = E["decisions"] /\ P["manifests"] = E["manifests"] /\ P["promotions"] = N
  BY DEF Evaluation, Nothing, Tables
<1>3. work'[w].plan = P
  <2>. HIDE DEF P
  <2>. QED
    BY <1>1 DEF Transaction, Idle, Shape, Actors
<1>4. \A p \in N : Founded(p, E["decisions"])
  <2>1. E["decisions"] = {d} /\ d.decision = verdict
    BY DEF Evaluation, Nothing, Tables, Decision
  <2>. HIDE DEF d, E
  <2>2. \A p \in N : /\ promote
                     /\ p.decision = d.id /\ p.candidate = d.candidate
                     /\ p.manifest = d.manifest /\ p.run = d.run /\ ~p.override
    BY DEF Promotion
  <2>. HIDE DEF N
  <2>. QED
    BY <1>1, <2>1, <2>2 DEF Founded
<1>5. \A x \in E["decisions"] : Backed(x, E["manifests"], status)
  BY <1>1, EvaluationBacked DEF Transaction
<1>. HIDE DEF P, N, E, d
<1>. QED
  BY <1>2, <1>3, <1>4, <1>5

LEMMA NextPromotionInv ==
    ASSUME Shape, PromotionInv, [Next]_vars
    PROVE  PromotionInv'
<1>1. CASE UNCHANGED vars
  BY <1>1 DEF PromotionInv, Backed, Founded, vars, rows, runVars
<1>2. ASSUME NEW r \in Runs, NEW c \in Cases, NEW o \in Outcomes, RecordCase(r, c, o)
      PROVE  PromotionInv'
  BY <1>2 DEF PromotionInv, RecordCase, Backed, Founded, rows
<1>3. ASSUME NEW r \in Runs, CompleteRun(r)
      PROVE  PromotionInv'
  <2>1. /\ table'["decisions"] = table["decisions"]
        /\ table'["promotions"] = table["promotions"]
        /\ work' = work
    BY <1>3 DEF CompleteRun, Shape, Tables
  <2>2. table["manifests"] \subseteq table'["manifests"]
    BY Monotone DEF Tables
  <2>. QED
    BY <2>1, <2>2, StayBacked DEF PromotionInv
<1>4. ASSUME NEW a \in Actors, Commit(a)
      PROVE  PromotionInv'
  <2>. DEFINE plan == work[a].plan
  <2>1. /\ table'["decisions"] = table["decisions"] \cup plan["decisions"]
        /\ table'["promotions"] = table["promotions"] \cup plan["promotions"]
        /\ table'["manifests"] = table["manifests"] \cup plan["manifests"]
    BY <1>4 DEF Commit, Tables
  <2>2. \A b \in Actors : work'[b].plan = IF b = a THEN Nothing ELSE work[b].plan
    BY <1>4 DEF Commit, Idle, Shape
  <2>. HIDE DEF plan
  <2>3. \A d \in table'["decisions"] : Backed(d, table'["manifests"], status')
    BY <2>1, StayBacked DEF PromotionInv, plan
  <2>4. \A p \in table'["promotions"] : Founded(p, table'["decisions"])
    BY <2>1, StayBacked DEF PromotionInv, plan
  <2>5. ASSUME NEW b \in Actors
        PROVE  /\ \A d \in work'[b].plan["decisions"] :
                      Backed(d, work'[b].plan["manifests"], status')
               /\ \A p \in work'[b].plan["promotions"] :
                      Founded(p, table'["decisions"] \cup work'[b].plan["decisions"])
    <3>1. CASE b = a
      BY <2>2, <3>1 DEF Nothing, Tables
    <3>2. CASE b # a
      <4>1. work'[b].plan = work[b].plan
        BY <2>2, <3>2
      <4>2. table["decisions"] \cup work[b].plan["decisions"]
                \subseteq table'["decisions"] \cup work[b].plan["decisions"]
        BY <2>1
      <4>. QED
        <5>1. /\ \A d \in work[b].plan["decisions"] :
                     Backed(d, work[b].plan["manifests"], status)
              /\ \A p \in work[b].plan["promotions"] :
                     Founded(p, table["decisions"] \cup work[b].plan["decisions"])
          BY DEF PromotionInv
        <5>2. work[b].plan["manifests"] \subseteq work[b].plan["manifests"]
          OBVIOUS
        <5>. QED
          <6>1. /\ \A d \in work[b].plan["decisions"] :
                       Backed(d, work[b].plan["manifests"], status')
                /\ \A p \in work[b].plan["promotions"] :
                       Founded(p, table'["decisions"] \cup work[b].plan["decisions"])
            BY <4>2, <5>1, <5>2, StayBacked
          <6>. QED
            BY <4>1, <6>1
    <3>. QED
      BY <3>1, <3>2
  <2>. QED
    BY <2>3, <2>4, <2>5 DEF PromotionInv
<1>5. ASSUME NEW a \in Actors, NEW T, Replans(a, T),
             LET plan == work'[a].plan IN
             /\ \A d \in plan["decisions"] : Backed(d, plan["manifests"], status)
             /\ \A p \in plan["promotions"] : Founded(p, table["decisions"] \cup plan["decisions"])
      PROVE  PromotionInv'
  <2>1. /\ UNCHANGED <<table, status>>
        /\ \A b \in Actors : b # a => work'[b] = work[b]
    BY <1>5 DEF Replans, Shape
  <2>. QED
    BY <1>5, <2>1 DEF PromotionInv
<1>6. ASSUME NEW h \in Handlers, EvaluateGate(h)
      PROVE  PromotionInv'
  BY <1>5, <1>6, HandlerPlans, EvaluatePlans DEF Actors
<1>7. ASSUME NEW h \in Handlers, CreatePromotion(h)
      PROVE  PromotionInv'
  BY <1>5, <1>7, HandlerPlans, CreatePromotionPlans DEF Actors
<1>8. ASSUME NEW w \in Cycles, NEW r \in Runs, NEW verdict, NEW promote,
             JudgeRun(w, r, verdict, promote)
      PROVE  PromotionInv'
  <2>1. Replans(w, Tables \ {"manifests", "decisions", "promotions"})
    BY <1>8, CyclePlans
  <2>2. \A p \in work'[w].plan["promotions"] : Founded(p, work'[w].plan["decisions"])
    BY <1>8, JudgePlans
  <2>3. \A p, M, N : Founded(p, M) /\ M \subseteq N => Founded(p, N)
    BY DEF Founded
  <2>4. \A p \in work'[w].plan["promotions"] :
            Founded(p, table["decisions"] \cup work'[w].plan["decisions"])
    BY <2>2, <2>3
  <2>. QED
    BY <1>5, <1>8, <2>1, <2>4, JudgePlans DEF Actors
<1>9. ASSUME NEW a \in Actors, Replans(a, {"decisions", "promotions"})
      PROVE  PromotionInv'
  BY <1>5, <1>9 DEF Replans
<1>. QED
  BY <1>1, <1>2, <1>3, <1>4, <1>6, <1>7, <1>8, <1>9, PromotionSteps

LEMMA BackedPromotions == PromotionInv => PromotionBacked
  BY DEF PromotionInv, PromotionBacked, Backed, Founded

\* Every promotion rests on a decision about a completed run of its candidate, an
\* approval unless it is overridden, and names the manifest that carries it
\* (main.py, create_promotion; autonomous.py, _maybe_promote).
THEOREM PromotionsAreBacked == Spec => []PromotionBacked
<1>1. Init => Shape /\ PromotionInv
  BY InitShape, InitPromotionInv
<1>2. Shape /\ PromotionInv /\ [Next]_vars => (Shape /\ PromotionInv)'
  BY NextShape, NextPromotionInv
<1>. QED
  BY <1>1, <1>2, BackedPromotions, PTL DEF Spec

-----------------------------------------------------------------------------
(* Suites and candidates.  A planned suite has one of the versions there   *)
(* are, or the next one; what is committed first is what counts.           *)

Suites(project) == {s \in table["suites"] : s.project = project}

Numbered(suites) ==
    IsFiniteSet(suites) /\ {s.version : s \in suites} = 1 .. Cardinality(suites)

CatalogInv ==
    /\ \A p : Numbered(Suites(p))
    /\ \A c, d \in table["candidates"] :
           c.project = d.project /\ c.content = d.content => c = d
    /\ \A a \in Actors :
           LET plan == work[a].plan IN
           /\ \A x, y \in plan["suites"] : x = y
           /\ \A x \in plan["suites"] : x.version \in 1 .. Cardinality(Suites(x.project)) + 1
           /\ \A x, y \in plan["candidates"] : x = y

LEMMA InitCatalogInv == Init => CatalogInv
<1>. SUFFICES ASSUME Init
              PROVE  CatalogInv
  OBVIOUS
<1>1. ASSUME NEW p
      PROVE  Numbered(Suites(p))
  <2>1. Suites(p) = {}
    BY DEF Init, Nothing, Tables, Suites
  <2>2. IsFiniteSet({}) /\ Cardinality({}) = 0
    BY FS_EmptySet
  <2>. QED
    BY <2>1, <2>2 DEF Numbered
<1>. QED
  BY <1>1 DEF Init, CatalogInv, Nothing, Tables, Idle

\* The next version is one more than there are suites.
LEMMA NextIsNew ==
    ASSUME CatalogInv, NEW p
    PROVE  /\ NextVersion(p) = Cardinality(Suites(p)) + 1
           /\ Cardinality(Suites(p)) \in Nat
<1>. DEFINE n == Cardinality(Suites(p))
            V == {0} \cup 1 .. n
<1>1. Numbered(Suites(p))
  BY DEF CatalogInv
<1>2. n \in Nat
  BY <1>1, FS_CardinalityType DEF Numbered
<1>3. NextVersion(p) = 1 + Max(V)
  BY <1>1 DEF NextVersion, Numbered, Suites
<1>4. n \in V /\ \A y \in V : n >= y
  BY <1>2
<1>5. \A x \in V : (\A y \in V : x >= y) => x = n
  BY <1>2, <1>4
<1>6. Max(V) = n
  BY <1>4, <1>5 DEF Max
<1>. QED
  BY <1>2, <1>3, <1>6

\* The actions that plan suites or candidates.
LEMMA CatalogSteps ==
    ASSUME Shape, Next
    PROVE  \/ \E r \in Runs, c \in Cases, o \in Outcomes : RecordCase(r, c, o)
           \/ \E r \in Runs : CompleteRun(r)
           \/ \E a \in Actors : Commit(a)
           \/ \E h \in Handlers : CreateSuite(h) \/ CreateCandidate(h) \/ ProposeImprovement(h)
           \/ \E w \in Cycles, r \in Runs : OpenCluster(w, r)
           \/ \E a \in Actors : Replans(a, {"suites", "candidates"})
<1>1. ASSUME NEW a \in Actors, NEW T, Replans(a, T), {"suites", "candidates"} \subseteq T
      PROVE  Replans(a, {"suites", "candidates"})
  BY <1>1 DEF Replans
<1>2. /\ {"suites", "candidates"} \subseteq Tables
      /\ {"suites", "candidates"} \subseteq Tables \ {"keys", "audit"}
      /\ {"suites", "candidates"} \subseteq Tables \ {"revoked", "audit"}
      /\ {"suites", "candidates"} \subseteq Tables \ {"clusters", "audit"}
      /\ {"suites", "candidates"} \subseteq Tables \ {"manifests", "decisions", "audit"}
      /\ {"suites", "candidates"} \subseteq Tables \ {"promotions", "audit"}
      /\ {"suites", "candidates"} \subseteq Tables \ {"manifests", "decisions", "promotions"}
  BY DEF Tables
<1>. QED
  BY <1>1, <1>2, HandlerPlans, CyclePlans, EndPlans DEF Next, Actors

\* A plan of at most one suite, of the next version, and at most one candidate.
Catalogs(a) ==
    LET plan == work'[a].plan IN
    /\ \A x, y \in plan["suites"] : x = y
    /\ \A x \in plan["suites"] : x.version = NextVersion(x.project)
    /\ \A x, y \in plan["candidates"] : x = y

LEMMA CatalogPlans ==
    ASSUME Shape, NEW h \in Handlers,
           CreateSuite(h) \/ CreateCandidate(h) \/ ProposeImprovement(h)
    PROVE  Catalogs(h)
<1>. h \in Actors
  BY DEF Actors
<1>0. \A p, content, by : \A x, y \in NewCandidate(p, content, by) : x = y
  BY DEF NewCandidate
<1>1. ASSUME NEW P, Plan(h, P)
      PROVE  work'[h].plan = P
  BY <1>1 DEF Plan, Shape
<1>2. CASE CreateSuite(h)
  <2>. DEFINE project == Resolved(work[h].key, work[h].op.project)
              N == {[id |-> tick, project |-> project, by |-> By(h),
                     version |-> NextVersion(project)]}
              P == [Nothing EXCEPT
                       !["suites"] = N,
                       !["audit"] = Event(h, "suite.create", tick, project)]
  <2>1. Plan(h, P)
    BY <1>2 DEF CreateSuite
  <2>2. P["suites"] = N /\ P["candidates"] = {}
    BY DEF Nothing, Tables
  <2>3. \A x, y \in N : x = y /\ x.version = NextVersion(x.project)
    OBVIOUS
  <2>. HIDE DEF P, N
  <2>. QED
    BY <1>1, <2>1, <2>2, <2>3 DEF Catalogs
<1>3. CASE CreateCandidate(h)
  <2>. DEFINE project == Resolved(work[h].key, work[h].op.project)
              new == NewCandidate(project, work[h].op.content, By(h))
              P == [Nothing EXCEPT
                       !["candidates"] = new,
                       !["audit"] = IF new = {} THEN {}
                                    ELSE Event(h, "candidate.create", tick, project)]
  <2>1. Plan(h, P)
    BY <1>3 DEF CreateCandidate
  <2>2. P["suites"] = {} /\ P["candidates"] = new
    BY DEF Nothing, Tables
  <2>3. \A x, y \in new : x = y
    BY <1>0
  <2>. HIDE DEF P, new
  <2>. QED
    BY <1>1, <2>1, <2>2, <2>3 DEF Catalogs
<1>4. CASE ProposeImprovement(h)
  <2>. DEFINE op == work[h].op
              project == ProjectOf[op.cluster.run]
              patch == Patch("request", op.cluster, op.target)
              new == IF op.create THEN NewCandidate(project, patch, By(h)) ELSE {}
              P == [Nothing EXCEPT
                       !["candidates"] = new,
                       !["proposals"] = Proposal(op.cluster,
                           IF op.create THEN Chosen(new, project, patch) ELSE None, By(h)),
                       !["audit"] = Event(h, "improvement.propose", tick, project)]
  <2>1. Plan(h, P)
    BY <1>4 DEF ProposeImprovement
  <2>2. P["suites"] = {} /\ P["candidates"] = new
    BY DEF Nothing, Tables
  <2>3. \A x, y \in new : x = y
    BY <1>0
  <2>. HIDE DEF P, new
  <2>. QED
    BY <1>1, <2>1, <2>2, <2>3 DEF Catalogs
<1>. QED
  BY <1>2, <1>3, <1>4

LEMMA CatalogOfCycle ==
    ASSUME Shape, NEW w \in Cycles, NEW r \in Runs, OpenCluster(w, r)
    PROVE  Catalogs(w)
<1>. DEFINE patch(x) == Patch("cycle", x, "prompt")
            new(x) == NewCandidate(ProjectOf[r], patch(x), Nobody)
            P(x) == [Nothing EXCEPT
                        !["clusters"] = NewClusters(r, Nobody),
                        !["candidates"] = new(x),
                        !["proposals"] =
                            Proposal(x, Chosen(new(x), ProjectOf[r], patch(x)), Nobody)]
<1>1. PICK x : Transaction(w, r, P(x))
  BY DEF OpenCluster
<1>2. P(x)["suites"] = {} /\ P(x)["candidates"] = new(x)
  BY DEF Nothing, Tables
<1>3. \A y, z \in new(x) : y = z
  BY DEF NewCandidate
<1>. HIDE DEF P, new
<1>4. work'[w].plan = P(x)
  BY <1>1 DEF Transaction, Idle, Shape, Actors
<1>. QED
  BY <1>2, <1>3, <1>4 DEF Catalogs

LEMMA NextCatalogInv ==
    ASSUME Shape, CatalogInv, [Next]_vars
    PROVE  CatalogInv'
<1>0. \A p : Cardinality(Suites(p)) \in Nat
  BY NextIsNew
<1>2. ASSUME UNCHANGED work, UNCHANGED table
      PROVE  CatalogInv'
  <2>1. \A p : Suites(p)' = Suites(p)
    BY <1>2 DEF Suites
  <2>. QED
    BY <1>2, <2>1 DEF CatalogInv
<1>1. CASE UNCHANGED vars
  BY <1>1, <1>2 DEF vars, rows
<1>3. ASSUME NEW r \in Runs, CompleteRun(r)
      PROVE  CatalogInv'
  <2>1. /\ table'["suites"] = table["suites"]
        /\ table'["candidates"] = table["candidates"]
        /\ work' = work
    BY <1>3 DEF CompleteRun, Shape, Tables
  <2>. QED
    BY <2>1 DEF CatalogInv, Suites
<1>4. ASSUME NEW a \in Actors, Commit(a)
      PROVE  CatalogInv'
  <2>. DEFINE plan == work[a].plan
  <2>1. /\ table'["suites"] = table["suites"] \cup plan["suites"]
        /\ table'["candidates"] = table["candidates"] \cup plan["candidates"]
    BY <1>4 DEF Commit, Tables
  <2>2. \A b \in Actors : work'[b].plan = IF b = a THEN Nothing ELSE work[b].plan
    BY <1>4 DEF Commit, Idle, Shape
  <2>3. /\ \A x \in plan["suites"], y \in table["suites"] :
               ~(x.project = y.project /\ x.version = y.version)
        /\ \A x \in plan["candidates"], y \in table["candidates"] :
               ~(x.project = y.project /\ x.content = y.content)
    BY <1>4 DEF Commit, Conflict, Registered
  <2>4. ASSUME NEW p
        PROVE  /\ Numbered(Suites(p)')
               /\ Cardinality(Suites(p)) <= Cardinality(Suites(p)')
               /\ Cardinality(Suites(p)') \in Nat
    <3>0. Numbered(Suites(p))
      BY DEF CatalogInv
    <3>1. CASE \E x \in plan["suites"] : x.project = p
      <4>1. PICK x \in plan["suites"] : x.project = p
        BY <3>1
      <4>2. Suites(p)' = Suites(p) \cup {x}
        BY <2>1, <4>1 DEF Suites, CatalogInv
      <4>3. x \notin Suites(p)
        BY <2>3, <4>1 DEF Suites
      <4>4. /\ IsFiniteSet(Suites(p)')
            /\ Cardinality(Suites(p)') = Cardinality(Suites(p)) + 1
        BY <3>0, <4>2, <4>3, FS_AddElement DEF Numbered
      <4>5. x.version = Cardinality(Suites(p)) + 1
        <5>1. x.version \in 1 .. Cardinality(Suites(p)) + 1
          BY <4>1 DEF CatalogInv
        <5>2. x.version \notin {s.version : s \in Suites(p)}
          BY <2>3, <4>1 DEF Suites
        <5>. QED
          BY <1>0, <3>0, <5>1, <5>2 DEF Numbered
      <4>6. {s.version : s \in Suites(p)'}
                = (1 .. Cardinality(Suites(p))) \cup {Cardinality(Suites(p)) + 1}
        BY <3>0, <4>2, <4>5 DEF Numbered
      <4>7. {s.version : s \in Suites(p)'} = 1 .. Cardinality(Suites(p)')
        BY <1>0, <4>4, <4>6
      <4>. QED
        BY <1>0, <4>4, <4>7 DEF Numbered
    <3>2. CASE ~ \E x \in plan["suites"] : x.project = p
      <4>1. Suites(p)' = Suites(p)
        BY <2>1, <3>2 DEF Suites
      <4>. QED
        BY <1>0, <3>0, <4>1
    <3>. QED
      BY <3>1, <3>2
  <2>5. ASSUME NEW c \in table'["candidates"], NEW d \in table'["candidates"],
               c.project = d.project, c.content = d.content
        PROVE  c = d
    BY <2>1, <2>3, <2>5 DEF CatalogInv
  <2>6. ASSUME NEW b \in Actors
        PROVE  LET p == work'[b].plan IN
               /\ \A x, y \in p["suites"] : x = y
               /\ \A x \in p["suites"] :
                      x.version \in 1 .. Cardinality(Suites(x.project)') + 1
               /\ \A x, y \in p["candidates"] : x = y
    <3>1. CASE b = a
      BY <2>2, <3>1 DEF Nothing, Tables
    <3>2. CASE b # a
      <4>1. work'[b].plan = work[b].plan
        BY <2>2, <3>2
      <4>2. ASSUME NEW x \in work[b].plan["suites"]
            PROVE  x.version \in 1 .. Cardinality(Suites(x.project)') + 1
        <5>1. x.version \in 1 .. Cardinality(Suites(x.project)) + 1
          BY DEF CatalogInv
        <5>2. /\ Cardinality(Suites(x.project)) <= Cardinality(Suites(x.project)')
              /\ Cardinality(Suites(x.project)') \in Nat
              /\ Cardinality(Suites(x.project)) \in Nat
          BY <1>0, <2>4
        <5>. QED
          BY <5>1, <5>2
      <4>. QED
        BY <4>1, <4>2 DEF CatalogInv
    <3>. QED
      BY <3>1, <3>2
  <2>. QED
    BY <2>4, <2>5, <2>6 DEF CatalogInv
<1>5. ASSUME NEW a \in Actors, NEW T, Replans(a, T), Catalogs(a)
      PROVE  CatalogInv'
  <2>1. /\ UNCHANGED table
        /\ \A b \in Actors : b # a => work'[b] = work[b]
        /\ \A p : Suites(p)' = Suites(p)
    BY <1>5 DEF Replans, Shape, Suites
  <2>2. \A p : NextVersion(p) \in 1 .. Cardinality(Suites(p)) + 1
    BY <1>0, NextIsNew
  <2>3. \A x \in work'[a].plan["suites"] :
            x.version \in 1 .. Cardinality(Suites(x.project)) + 1
    BY <1>5, <2>2 DEF Catalogs
  <2>. QED
    BY <1>5, <2>1, <2>3 DEF CatalogInv, Catalogs
<1>6. ASSUME NEW a \in Actors, Replans(a, {"suites", "candidates"})
      PROVE  CatalogInv'
  BY <1>5, <1>6 DEF Replans, Catalogs
<1>7. ASSUME NEW h \in Handlers,
             CreateSuite(h) \/ CreateCandidate(h) \/ ProposeImprovement(h)
      PROVE  CatalogInv'
  BY <1>5, <1>7, HandlerPlans, CatalogPlans DEF Actors
<1>8. ASSUME NEW w \in Cycles, NEW r \in Runs, OpenCluster(w, r)
      PROVE  CatalogInv'
  BY <1>5, <1>8, CyclePlans, CatalogOfCycle DEF Actors
<1>. QED
  BY <1>1, <1>2, <1>3, <1>4, <1>6, <1>7, <1>8, CatalogSteps DEF RecordCase, rows

LEMMA UniqueCatalog == CatalogInv => CatalogUnique
  BY DEF CatalogInv, CatalogUnique, Numbered, Suites

\* The suites of a project are numbered without a gap or a repetition, and a
\* content is registered once, however the requests that create them overlap
\* (main.py, create_suite, create_candidate and propose_improvement).
THEOREM CatalogIsUnique == Spec => []CatalogUnique
<1>1. Init => Shape /\ CatalogInv
  BY InitShape, InitCatalogInv
<1>2. Shape /\ CatalogInv /\ [Next]_vars => (Shape /\ CatalogInv)'
  BY NextShape, NextCatalogInv
<1>. QED
  BY <1>1, <1>2, UniqueCatalog, PTL DEF Spec

-----------------------------------------------------------------------------
(* Manifests.  While no two evaluations of a run meet, at most one of its  *)
(* manifests is on its way, and that is the latest.                        *)

ManifestInv ==
    /\ \A m \in table["manifests"] : m.id \in Nat /\ m.id < tick
    /\ \A a \in Actors :
           /\ \A m \in work[a].plan["manifests"] :
                  /\ m.id \in Nat /\ m.id < tick
                  /\ m.run \in Runs /\ status[m.run] = "completed"
           /\ \A m, n \in work[a].plan["manifests"] : m = n
    /\ \A r \in Runs : <<"manifests", r>> \notin crossed =>
           /\ \A m \in table["manifests"] :
                  m.run = r => pointer[r] \in Nat /\ m.id <= pointer[r]
           /\ \A a \in Actors : \A x \in work[a].plan["manifests"] : x.run = r =>
                  /\ \A m \in table["manifests"] : m.run = r => m.id <= x.id
                  /\ \A b \in Actors : \A y \in work[b].plan["manifests"] :
                         y.run = r => b = a

LEMMA InitManifestInv == Init => ManifestInv
  BY DEF Init, ManifestInv, Nothing, Tables, Idle

\* The plan of an evaluation has one manifest, of this moment.
Builds(a) ==
    \E r \in Runs :
        /\ status[r] = "completed"
        /\ \E m : work'[a].plan["manifests"] = {m} /\ m.id = tick /\ m.run = r
        /\ tick' = tick + 1
        /\ crossed' = Crossing(a, "manifests", r)

LEMMA EvaluateBuilds ==
    ASSUME Shape, NEW h \in Handlers, EvaluateGate(h)
    PROVE  Builds(h)
<1>. DEFINE op == work[h].op
            E == Evaluation(op.run, op.verdict, By(h))
            P == [E EXCEPT !["audit"] = Event(h, "gate.evaluate", tick, ProjectOf[op.run])]
            m == [id |-> tick, run |-> op.run, decision |-> op.verdict]
<1>1. op.run \in Runs /\ status[op.run] = "completed"
  BY DEF EvaluateGate, Serves, Valid, MayEvaluate, Shape, Known, Actors
<1>2. P["manifests"] = {m}
  BY DEF Evaluation, Nothing, Tables
<1>3. Plan(h, P) /\ crossed' = Crossing(h, "manifests", op.run)
  BY DEF EvaluateGate
<1>4. m.id = tick /\ m.run = op.run
  OBVIOUS
<1>. HIDE DEF P, E, m
<1>5. work'[h].plan = P /\ tick' = tick + 1
  BY <1>3 DEF Plan, Shape, Actors
<1>. QED
  BY <1>1, <1>2, <1>3, <1>4, <1>5 DEF Builds

LEMMA JudgeBuilds ==
    ASSUME Shape, NEW w \in Cycles, NEW r \in Runs, NEW verdict, NEW promote,
           JudgeRun(w, r, verdict, promote)
    PROVE  Builds(w)
<1>. DEFINE E == Evaluation(r, verdict, Nobody)
            P == [E EXCEPT !["promotions"] =
                     IF promote
                     THEN Promotion(Decision(r, verdict, Nobody), FALSE, Nobody) ELSE {}]
            m == [id |-> tick, run |-> r, decision |-> verdict]
<1>1. Transaction(w, r, P) /\ crossed' = Crossing(w, "manifests", r)
  BY DEF JudgeRun
<1>2. P["manifests"] = {m}
  BY DEF Evaluation, Nothing, Tables
<1>3. m.id = tick /\ m.run = r
  OBVIOUS
<1>. HIDE DEF P, E, m
<1>4. work'[w].plan = P /\ tick' = tick + 1 /\ status[r] = "completed"
  BY <1>1 DEF Transaction, Idle, Shape, Actors
<1>. QED
  BY <1>1, <1>2, <1>3, <1>4 DEF Builds

\* The actions that plan manifests.
LEMMA ManifestSteps ==
    ASSUME Shape, Next
    PROVE  \/ \E r \in Runs, c \in Cases, o \in Outcomes : RecordCase(r, c, o)
           \/ \E r \in Runs : CompleteRun(r)
           \/ \E a \in Actors : Commit(a)
           \/ \E a \in Actors : Replans(a, {}) /\ Builds(a)
           \/ \E a \in Actors : Replans(a, {"manifests"})
<1>1. ASSUME NEW a \in Actors, NEW T, Replans(a, T), "manifests" \in T
      PROVE  Replans(a, {"manifests"})
  BY <1>1 DEF Replans
<1>2. /\ "manifests" \in Tables
      /\ "manifests" \in Tables \ {"suites", "audit"}
      /\ "manifests" \in Tables \ {"candidates", "audit"}
      /\ "manifests" \in Tables \ {"candidates", "proposals", "audit"}
      /\ "manifests" \in Tables \ {"keys", "audit"}
      /\ "manifests" \in Tables \ {"revoked", "audit"}
      /\ "manifests" \in Tables \ {"clusters", "audit"}
      /\ "manifests" \in Tables \ {"clusters", "candidates", "proposals"}
      /\ "manifests" \in Tables \ {"promotions", "audit"}
  BY DEF Tables
<1>3. ASSUME NEW a \in Actors, NEW T, Replans(a, T)
      PROVE  Replans(a, {})
  BY <1>3 DEF Replans
<1>4. ASSUME NEW h \in Handlers, EvaluateGate(h)
      PROVE  Replans(h, {}) /\ Builds(h)
  BY <1>3, <1>4, HandlerPlans, EvaluateBuilds DEF Actors
<1>5. ASSUME NEW w \in Cycles, NEW r \in Runs, NEW verdict, NEW promote,
             JudgeRun(w, r, verdict, promote)
      PROVE  Replans(w, {}) /\ Builds(w)
  BY <1>3, <1>5, CyclePlans, JudgeBuilds DEF Actors
<1>. QED
  BY <1>1, <1>2, <1>4, <1>5, HandlerPlans, CyclePlans, EndPlans DEF Next, Actors

LEMMA NextManifestInv ==
    ASSUME Shape, ManifestInv, [Next]_vars
    PROVE  ManifestInv'
<1>1. CASE UNCHANGED vars
  BY <1>1 DEF ManifestInv, vars, rows, runVars
<1>2. ASSUME UNCHANGED <<rows, status, work, tick, crossed>>
      PROVE  ManifestInv'
  BY <1>2 DEF ManifestInv, rows
<1>3. ASSUME NEW s \in Runs, CompleteRun(s)
      PROVE  ManifestInv'
  <2>. DEFINE new == [id |-> tick, run |-> s, decision |-> "needs_review"]
  <2>1. /\ table'["manifests"] = table["manifests"] \cup {new}
        /\ pointer' = [pointer EXCEPT ![s] = tick]
        /\ tick' = tick + 1 /\ UNCHANGED <<work, crossed>>
        /\ status[s] # "completed"
        /\ \A r \in Runs : status[r] = "completed" => status'[r] = "completed"
    BY <1>3 DEF CompleteRun, Shape, Tables
  <2>2. new.id = tick /\ new.run = s
    OBVIOUS
  <2>. HIDE DEF new
  <2>3. \A a \in Actors : \A x \in work[a].plan["manifests"] : x.run # s
    BY <2>1 DEF ManifestInv
  <2>. QED
    BY <2>1, <2>2, <2>3 DEF ManifestInv, Shape
<1>4. ASSUME NEW a \in Actors, Commit(a)
      PROVE  ManifestInv'
  <2>. DEFINE plan == work[a].plan
              built(r) == {m \in plan["manifests"] : m.run = r}
  <2>1. /\ table'["manifests"] = table["manifests"] \cup plan["manifests"]
        /\ UNCHANGED <<status, tick, crossed>>
    BY <1>4 DEF Commit, Tables, runVars
  <2>2. \A b \in Actors : work'[b].plan = IF b = a THEN Nothing ELSE work[b].plan
    BY <1>4 DEF Commit, Idle, Shape
  <2>3. \A b \in Actors : \A x \in work'[b].plan["manifests"] :
            b # a /\ x \in work[b].plan["manifests"]
    BY <2>2 DEF Nothing, Tables
  <2>4. ASSUME NEW r \in Runs, <<"manifests", r>> \notin crossed,
               NEW m \in table'["manifests"], m.run = r
        PROVE  pointer'[r] \in Nat /\ m.id <= pointer'[r]
    <3>1. CASE built(r) = {}
      <4>1. pointer'[r] = pointer[r]
        BY <1>4, <3>1 DEF Commit
      <4>2. m \in table["manifests"]
        BY <2>1, <2>4, <3>1
      <4>. QED
        BY <2>4, <4>1, <4>2 DEF ManifestInv
    <3>2. CASE built(r) # {}
      <4>. DEFINE x == CHOOSE y \in built(r) : TRUE
      <4>1. pointer'[r] = x.id
        BY <1>4, <3>2 DEF Commit
      <4>2. x \in built(r)
        BY <3>2
      <4>. HIDE DEF x
      <4>3. x \in plan["manifests"] /\ x.run = r /\ x.id \in Nat
        BY <4>2 DEF ManifestInv
      <4>4. m \in table["manifests"] \/ m = x
        BY <2>1, <4>3 DEF ManifestInv
      <4>. QED
        BY <2>4, <4>1, <4>3, <4>4 DEF ManifestInv
    <3>. QED
      BY <3>1, <3>2
  <2>5. ASSUME NEW r \in Runs, <<"manifests", r>> \notin crossed,
               NEW b \in Actors, NEW x \in work'[b].plan["manifests"], x.run = r
        PROVE  /\ \A m \in table'["manifests"] : m.run = r => m.id <= x.id
               /\ \A c \in Actors : \A y \in work'[c].plan["manifests"] :
                      y.run = r => c = b
    <3>1. b # a /\ x \in work[b].plan["manifests"]
      BY <2>3, <2>5
    <3>2. \A y \in plan["manifests"] : y.run # r
      BY <2>5, <3>1 DEF ManifestInv
    <3>. QED
      BY <2>1, <2>3, <2>5, <3>1, <3>2 DEF ManifestInv
  <2>6. \A m \in table'["manifests"] : m.id \in Nat /\ m.id < tick'
    BY <2>1 DEF ManifestInv
  <2>7. \A b \in Actors :
            /\ \A m \in work'[b].plan["manifests"] :
                   /\ m.id \in Nat /\ m.id < tick'
                   /\ m.run \in Runs /\ status'[m.run] = "completed"
            /\ \A m, n \in work'[b].plan["manifests"] : m = n
    BY <2>1, <2>3 DEF ManifestInv
  <2>. QED
    BY <2>1, <2>4, <2>5, <2>6, <2>7 DEF ManifestInv
<1>5. ASSUME NEW a \in Actors, Replans(a, {"manifests"})
      PROVE  ManifestInv'
  <2>1. /\ UNCHANGED <<table, pointer, status>>
        /\ tick' \in {tick, tick + 1} /\ crossed \subseteq crossed'
        /\ work'[a].plan["manifests"] = {}
        /\ \A b \in Actors : b # a => work'[b] = work[b]
    BY <1>5 DEF Replans, Shape
  <2>2. \A b \in Actors : \A x \in work'[b].plan["manifests"] :
            b # a /\ x \in work[b].plan["manifests"]
    BY <2>1
  <2>3. \A i \in Nat : i < tick => i < tick'
    BY <2>1 DEF Shape
  <2>. QED
    BY <2>1, <2>2, <2>3 DEF ManifestInv
<1>6. ASSUME NEW a \in Actors, Replans(a, {}), Builds(a)
      PROVE  ManifestInv'
  <2>1. /\ UNCHANGED <<table, pointer, status>>
        /\ crossed \subseteq crossed'
        /\ \A b \in Actors : b # a => work'[b] = work[b]
    BY <1>6 DEF Replans, Shape
  <2>2. PICK s \in Runs :
            /\ status[s] = "completed"
            /\ \E m : work'[a].plan["manifests"] = {m} /\ m.id = tick /\ m.run = s
            /\ tick' = tick + 1
            /\ crossed' = Crossing(a, "manifests", s)
    BY <1>6 DEF Builds
  <2>3. PICK new : work'[a].plan["manifests"] = {new} /\ new.id = tick /\ new.run = s
    BY <2>2
  <2>4. <<"manifests", s>> \notin crossed' =>
            \A b \in Actors : \A x \in work[b].plan["manifests"] : x.run = s => b = a
    BY <2>2 DEF Crossing
  <2>5. \A b \in Actors : \A x \in work'[b].plan["manifests"] :
            IF b = a THEN x = new ELSE x \in work[b].plan["manifests"]
    BY <2>1, <2>3
  <2>6. \A m \in table["manifests"] : m.id \in Nat /\ m.id < tick /\ m.id < tick'
    BY <2>2 DEF ManifestInv, Shape
  <2>7. ASSUME NEW b \in Actors
        PROVE  /\ \A m \in work'[b].plan["manifests"] :
                      /\ m.id \in Nat /\ m.id < tick'
                      /\ m.run \in Runs /\ status[m.run] = "completed"
               /\ \A m, n \in work'[b].plan["manifests"] : m = n
    <3>1. CASE b = a
      BY <2>2, <2>3, <3>1 DEF Shape
    <3>2. CASE b # a
      BY <2>1, <2>2, <3>2 DEF ManifestInv, Shape
    <3>. QED
      BY <3>1, <3>2
  <2>8. ASSUME NEW r \in Runs, <<"manifests", r>> \notin crossed',
               NEW b \in Actors, NEW x \in work'[b].plan["manifests"], x.run = r
        PROVE  /\ \A m \in table["manifests"] : m.run = r => m.id <= x.id
               /\ \A c \in Actors : \A y \in work'[c].plan["manifests"] :
                      y.run = r => c = b
    <3>1. CASE b = a
      BY <2>3, <2>4, <2>5, <2>6, <2>8, <3>1 DEF Shape
    <3>2. CASE b # a
      BY <2>1, <2>3, <2>4, <2>5, <2>8, <3>2 DEF ManifestInv
    <3>. QED
      BY <3>1, <3>2
  <2>9. ASSUME NEW r \in Runs, <<"manifests", r>> \notin crossed',
               NEW m \in table["manifests"], m.run = r
        PROVE  pointer[r] \in Nat /\ m.id <= pointer[r]
    BY <2>1, <2>9 DEF ManifestInv
  <2>. QED
    BY <2>1, <2>6, <2>7, <2>8, <2>9 DEF ManifestInv
<1>. QED
  BY <1>1, <1>2, <1>3, <1>4, <1>5, <1>6, ManifestSteps DEF RecordCase, rows

LEMMA LatestPointer == ManifestInv => PointerLatest
  BY DEF ManifestInv, PointerLatest

\* A run points to its latest manifest unless two evaluations of it met
\* (services/manifests.py, build_manifest).
THEOREM PointerIsLatest == Spec => []PointerLatest
<1>1. Init => Shape /\ ManifestInv
  BY InitShape, InitManifestInv
<1>2. Shape /\ ManifestInv /\ [Next]_vars => (Shape /\ ManifestInv)'
  BY NextShape, NextManifestInv
<1>. QED
  BY <1>1, <1>2, LatestPointer, PTL DEF Spec

-----------------------------------------------------------------------------
(* Failure clusters.  What a completed run's cases failed with does not    *)
(* change any more, and every set of clusters has an identifier of its     *)
(* own.                                                                    *)

\* The clusters have every failed case of the run exactly once.
Sorts(clusters, failures) ==
    /\ UNION {x.cases : x \in clusters} = failures
    /\ \A x, y \in clusters : x # y => x.cases \cap y.cases = {}

OfSet(i) == {y \in table["clusters"] : y.id = i}

ClusterInv ==
    /\ \A r \in Runs : status[r] = "completed" => \A c \in Cases : outcome[r][c] # None
    /\ \A x \in table["clusters"] :
           /\ x.id \in Nat /\ x.id < tick
           /\ \A y \in OfSet(x.id) : y.run = x.run
           /\ x.id \notin early =>
                  /\ x.run \in Runs /\ status[x.run] = "completed"
                  /\ Sorts(OfSet(x.id), Failures(x.run))
    /\ \A a \in Actors : \A x \in work[a].plan["clusters"] :
           /\ x.id \in Nat /\ x.id < tick /\ OfSet(x.id) = {}
           /\ \A y \in work[a].plan["clusters"] : y.id = x.id /\ y.run = x.run
           /\ \A b \in Actors : \A y \in work[b].plan["clusters"] : y.id = x.id => b = a
           /\ x.id \notin early =>
                  /\ x.run \in Runs /\ status[x.run] = "completed"
                  /\ Sorts(work[a].plan["clusters"], Failures(x.run))
    /\ \A r \in Runs : <<"clusters", r>> \notin crossed =>
           /\ \A x, y \in Mined(r) : x.id = y.id
           /\ \A a \in Actors : \A x \in work[a].plan["clusters"] : x.run = r =>
                  /\ Mined(r) = {}
                  /\ \A b \in Actors : \A y \in work[b].plan["clusters"] :
                         y.run = r => b = a

LEMMA InitClusterInv == Init => ClusterInv
  BY DEF Init, ClusterInv, Nothing, Tables, Idle, Mined

\* The clusters that mining makes of a run.
LEMMA ClustersSort ==
    ASSUME NEW r \in Runs, NEW by
    PROVE  /\ \A x \in Clusters(r, by) : x.id = tick /\ x.run = r
           /\ Sorts(Clusters(r, by), Failures(r))
<1>. DEFINE ofType(t) == {c \in Failures(r) : ClusterKey(outcome[r][c]) = t}
<1>1. \A x \in Clusters(r, by) : x.id = tick /\ x.run = r /\ x.cases = ofType(x.type)
  BY DEF Clusters
<1>2. ASSUME NEW x \in Clusters(r, by), NEW y \in Clusters(r, by), x # y
      PROVE  x.cases \cap y.cases = {}
  <2>1. x.type # y.type
    BY <1>2 DEF Clusters
  <2>. QED
    BY <1>1, <2>1
<1>3. \A x \in Clusters(r, by) : x.cases \subseteq Failures(r)
  BY <1>1
<1>4. ASSUME NEW c \in Failures(r)
      PROVE  \E x \in Clusters(r, by) : c \in x.cases
  <2>. DEFINE t == ClusterKey(outcome[r][c])
              x == [id |-> tick, run |-> r, type |-> t, by |-> by,
                    cases |-> ofType(t)]
  <2>1. x \in Clusters(r, by)
    BY DEF Clusters
  <2>2. c \in x.cases
    OBVIOUS
  <2>. QED
    BY <2>1, <2>2
<1>. QED
  BY <1>1, <1>2, <1>3, <1>4 DEF Sorts

\* Mining plans clusters of this moment for a run that has none, or nothing.
Mines(a) ==
    \E r \in Runs :
        /\ \/ work'[a].plan["clusters"] = {}
           \/ \E by : work'[a].plan["clusters"] = Clusters(r, by) /\ Mined(r) = {}
        /\ tick \in early' \/ status[r] = "completed"
        /\ tick' = tick + 1
        /\ crossed' = Crossing(a, "clusters", r)

LEMMA HandlerMines ==
    ASSUME Shape, NEW h \in Handlers, MineFailures(h)
    PROVE  Mines(h)
<1>. DEFINE r == work[h].op.run
            new == NewClusters(r, By(h))
            P == [Nothing EXCEPT
                     !["clusters"] = new,
                     !["audit"] = Event(h, "failures.mine", r, ProjectOf[r])]
<1>1. r \in Runs
  BY DEF MineFailures, Serves, Shape, Known, Actors
<1>2. P["clusters"] = new
  BY DEF Nothing, Tables
<1>3. /\ Plan(h, P) /\ crossed' = Crossing(h, "clusters", r)
      /\ early' = IF status[r] = "running" THEN early \cup {tick} ELSE early
  BY DEF MineFailures
<1>4. tick \in early' \/ status[r] = "completed"
  BY <1>1, <1>3 DEF Shape
<1>5. new = {} \/ (new = Clusters(r, By(h)) /\ Mined(r) = {})
  BY DEF NewClusters
<1>. HIDE DEF P, new
<1>6. work'[h].plan = P /\ tick' = tick + 1
  BY <1>3 DEF Plan, Shape, Actors
<1>. QED
  BY <1>1, <1>2, <1>3, <1>4, <1>5, <1>6 DEF Mines

LEMMA CycleMines ==
    ASSUME Shape, NEW w \in Cycles, NEW r \in Runs, OpenCluster(w, r)
    PROVE  Mines(w)
<1>. DEFINE mined == NewClusters(r, Nobody)
            patch(x) == Patch("cycle", x, "prompt")
            new(x) == NewCandidate(ProjectOf[r], patch(x), Nobody)
            P(x) == [Nothing EXCEPT
                        !["clusters"] = mined,
                        !["candidates"] = new(x),
                        !["proposals"] =
                            Proposal(x, Chosen(new(x), ProjectOf[r], patch(x)), Nobody)]
<1>1. PICK x : Transaction(w, r, P(x))
  BY DEF OpenCluster
<1>2. P(x)["clusters"] = mined
  BY DEF Nothing, Tables
<1>3. mined = {} \/ (mined = Clusters(r, Nobody) /\ Mined(r) = {})
  BY DEF NewClusters
<1>4. crossed' = Crossing(w, "clusters", r)
  BY DEF OpenCluster
<1>. HIDE DEF P, mined
<1>5. work'[w].plan = P(x) /\ tick' = tick + 1 /\ status[r] = "completed"
  BY <1>1 DEF Transaction, Idle, Shape, Actors
<1>. QED
  BY <1>2, <1>3, <1>4, <1>5 DEF Mines

\* The actions that plan clusters.
LEMMA ClusterSteps ==
    ASSUME Shape, Next
    PROVE  \/ \E r \in Runs, c \in Cases, o \in Outcomes : RecordCase(r, c, o)
           \/ \E r \in Runs : CompleteRun(r)
           \/ \E a \in Actors : Commit(a)
           \/ \E a \in Actors : Replans(a, {}) /\ Mines(a)
           \/ \E a \in Actors : Replans(a, {"clusters"})
<1>1. ASSUME NEW a \in Actors, NEW T, Replans(a, T), "clusters" \in T
      PROVE  Replans(a, {"clusters"})
  BY <1>1 DEF Replans
<1>2. /\ "clusters" \in Tables
      /\ "clusters" \in Tables \ {"suites", "audit"}
      /\ "clusters" \in Tables \ {"candidates", "audit"}
      /\ "clusters" \in Tables \ {"candidates", "proposals", "audit"}
      /\ "clusters" \in Tables \ {"keys", "audit"}
      /\ "clusters" \in Tables \ {"revoked", "audit"}
      /\ "clusters" \in Tables \ {"manifests", "decisions", "audit"}
      /\ "clusters" \in Tables \ {"promotions", "audit"}
      /\ "clusters" \in Tables \ {"manifests", "decisions", "promotions"}
  BY DEF Tables
<1>3. ASSUME NEW a \in Actors, NEW T, Replans(a, T)
      PROVE  Replans(a, {})
  BY <1>3 DEF Replans
<1>4. ASSUME NEW h \in Handlers, MineFailures(h)
      PROVE  Replans(h, {}) /\ Mines(h)
  BY <1>3, <1>4, HandlerPlans, HandlerMines DEF Actors
<1>5. ASSUME NEW w \in Cycles, NEW r \in Runs, OpenCluster(w, r)
      PROVE  Replans(w, {}) /\ Mines(w)
  BY <1>3, <1>5, CyclePlans, CycleMines DEF Actors
<1>. QED
  BY <1>1, <1>2, <1>4, <1>5, HandlerPlans, CyclePlans, EndPlans DEF Next, Actors

LEMMA NextClusterInv ==
    ASSUME Shape, ClusterInv, [Next]_vars
    PROVE  ClusterInv'
<1>1. CASE UNCHANGED vars
  <2>1. UNCHANGED <<table, pointer, status, outcome, work, tick, early, crossed>>
    BY <1>1 DEF vars, rows, runVars
  <2>2. \A i : OfSet(i)' = OfSet(i)
    BY <2>1 DEF OfSet
  <2>3. \A r : Mined(r)' = Mined(r) /\ Failures(r)' = Failures(r)
    BY <2>1 DEF Mined, Failures
  <2>. QED
    BY <2>1, <2>2, <2>3 DEF ClusterInv
<1>2. ASSUME NEW r \in Runs, NEW c \in Cases, NEW o \in Outcomes, RecordCase(r, c, o)
      PROVE  ClusterInv'
  <2>1. /\ UNCHANGED <<table, status, work, tick, early, crossed>>
        /\ outcome' = [outcome EXCEPT ![r][c] = o] /\ outcome[r][c] = None
    BY <1>2 DEF RecordCase, rows
  <2>2. status[r] # "completed"
    BY <2>1 DEF ClusterInv
  <2>3. \A s \in Runs : status[s] = "completed" =>
            outcome'[s] = outcome[s] /\ Failures(s)' = Failures(s)
    BY <2>1, <2>2 DEF Failures, Shape
  <2>4. \A i : OfSet(i)' = OfSet(i)
    BY <2>1 DEF OfSet
  <2>5. \A s : Mined(s)' = Mined(s)
    BY <2>1 DEF Mined
  <2>. QED
    BY SMTT(20), <2>1, <2>3, <2>4, <2>5 DEF ClusterInv
<1>3. ASSUME NEW s \in Runs, CompleteRun(s)
      PROVE  ClusterInv'
  <2>1. /\ table'["clusters"] = table["clusters"]
        /\ UNCHANGED <<outcome, work, early, crossed>>
        /\ status' = [status EXCEPT ![s] = "completed"]
        /\ \A c \in Cases : outcome[s][c] # None
        /\ tick' = tick + 1
    BY <1>3 DEF CompleteRun, Shape, Tables
  <2>2. \A r \in Runs : /\ status[r] = "completed" => status'[r] = "completed"
                       /\ status'[r] = "completed" => status[r] = "completed" \/ r = s
    BY <2>1 DEF Shape
  <2>3. \A i : OfSet(i)' = OfSet(i)
    BY <2>1 DEF OfSet
  <2>4. \A r : Mined(r)' = Mined(r) /\ Failures(r)' = Failures(r)
    BY <2>1 DEF Mined, Failures
  <2>5. \A i \in Nat : i < tick => i < tick'
    BY <2>1 DEF Shape
  <2>. QED
    BY SMTT(20), <2>1, <2>2, <2>3, <2>4, <2>5 DEF ClusterInv
<1>4. ASSUME NEW a \in Actors, Commit(a)
      PROVE  ClusterInv'
  <2>. DEFINE C == work[a].plan["clusters"]
  <2>1. /\ table'["clusters"] = table["clusters"] \cup C
        /\ UNCHANGED <<status, outcome, tick, early, crossed>>
    BY <1>4 DEF Commit, Tables, runVars
  <2>2. \A r : Failures(r)' = Failures(r)
    BY <2>1 DEF Failures
  <2>3. \A b \in Actors : work'[b].plan = IF b = a THEN Nothing ELSE work[b].plan
    BY <1>4 DEF Commit, Idle, Shape
  <2>4. \A b \in Actors : \A x \in work'[b].plan["clusters"] :
            b # a /\ x \in work[b].plan["clusters"]
    BY <2>3 DEF Nothing, Tables
  <2>5. \A b \in Actors : b # a => work'[b].plan["clusters"] = work[b].plan["clusters"]
    BY <2>3
  <2>. HIDE DEF C
  <2>6. \A x \in C : OfSet(x.id)' = C
    BY <2>1 DEF ClusterInv, OfSet, C
  <2>7. \A x \in table["clusters"] : OfSet(x.id)' = OfSet(x.id)
    <3>1. \A x \in table["clusters"], y \in C : y.id # x.id
      BY DEF ClusterInv, OfSet, C
    <3>. QED
      BY <2>1, <3>1 DEF OfSet
  <2>8. ASSUME NEW x \in table'["clusters"]
        PROVE  /\ x.id \in Nat /\ x.id < tick'
               /\ \A y \in OfSet(x.id)' : y.run = x.run
               /\ x.id \notin early' =>
                      /\ x.run \in Runs /\ status'[x.run] = "completed"
                      /\ Sorts(OfSet(x.id)', Failures(x.run)')
    <3>1. CASE x \in C
      BY <2>1, <2>2, <2>6, <3>1 DEF ClusterInv, C
    <3>2. CASE x \in table["clusters"]
      BY <2>1, <2>2, <2>7, <3>2 DEF ClusterInv
    <3>. QED
      BY <2>1, <3>1, <3>2
  <2>9. ASSUME NEW b \in Actors, NEW x \in work'[b].plan["clusters"]
        PROVE  /\ x.id \in Nat /\ x.id < tick' /\ OfSet(x.id)' = {}
               /\ \A y \in work'[b].plan["clusters"] : y.id = x.id /\ y.run = x.run
               /\ \A c \in Actors : \A y \in work'[c].plan["clusters"] :
                      y.id = x.id => c = b
               /\ x.id \notin early' =>
                      /\ x.run \in Runs /\ status'[x.run] = "completed"
                      /\ Sorts(work'[b].plan["clusters"], Failures(x.run)')
    <3>1. b # a /\ x \in work[b].plan["clusters"]
      BY <2>4
    <3>2. work'[b].plan["clusters"] = work[b].plan["clusters"]
      BY <2>5, <3>1
    <3>3. OfSet(x.id)' = {}
      <4>1. OfSet(x.id) = {} /\ \A y \in C : y.id # x.id
        BY <3>1 DEF ClusterInv, C
      <4>. QED
        BY <2>1, <4>1 DEF OfSet
    <3>. QED
      BY <2>1, <2>2, <2>4, <3>1, <3>2, <3>3 DEF ClusterInv
  <2>10. ASSUME NEW r \in Runs, <<"clusters", r>> \notin crossed
         PROVE  /\ \A x, y \in Mined(r)' : x.id = y.id
                /\ \A b \in Actors : \A x \in work'[b].plan["clusters"] : x.run = r =>
                       /\ Mined(r)' = {}
                       /\ \A c \in Actors : \A y \in work'[c].plan["clusters"] :
                              y.run = r => c = b
    <3>1. CASE \E x \in C : x.run = r
      <4>1. Mined(r) = {} /\ \A x, y \in C : x.id = y.id
        BY <2>10, <3>1 DEF ClusterInv, C
      <4>2. \A x \in Mined(r)' : x \in C
        BY <2>1, <4>1 DEF Mined
      <4>3. \A b \in Actors : \A x \in work'[b].plan["clusters"] : x.run # r
        BY <2>4, <2>10, <3>1 DEF ClusterInv, C
      <4>. QED
        BY <4>1, <4>2, <4>3
    <3>2. CASE ~ \E x \in C : x.run = r
      <4>1. Mined(r)' = Mined(r)
        BY <2>1, <3>2 DEF Mined
      <4>. QED
        BY <2>4, <2>10, <4>1 DEF ClusterInv
    <3>. QED
      BY <3>1, <3>2
  <2>. QED
    BY SMTT(20), <2>1, <2>8, <2>9, <2>10 DEF ClusterInv
<1>5. ASSUME NEW a \in Actors, Replans(a, {})
      PROVE  /\ UNCHANGED <<table, status, outcome>>
             /\ tick' \in {tick, tick + 1}
             /\ early \subseteq early' /\ crossed \subseteq crossed'
             /\ \A b \in Actors : b # a => work'[b] = work[b]
             /\ \A i \in Nat : i < tick => i < tick'
             /\ \A i : OfSet(i)' = OfSet(i)
             /\ \A r : Mined(r)' = Mined(r) /\ Failures(r)' = Failures(r)
  BY <1>5 DEF Replans, Shape, OfSet, Mined, Failures
<1>6. ASSUME NEW a \in Actors, Replans(a, {}), work'[a].plan["clusters"] = {}
      PROVE  ClusterInv'
  <2>1. \A b \in Actors : \A x \in work'[b].plan["clusters"] :
            /\ b # a /\ x \in work[b].plan["clusters"]
            /\ work'[b].plan["clusters"] = work[b].plan["clusters"]
    BY <1>5, <1>6
  <2>. QED
    BY <1>5, <1>6, <2>1 DEF ClusterInv
<1>7. ASSUME NEW a \in Actors, Replans(a, {}), Mines(a), work'[a].plan["clusters"] # {}
      PROVE  ClusterInv'
  <2>0. PICK s \in Runs : \E by :
            /\ work'[a].plan["clusters"] = Clusters(s, by) /\ Mined(s) = {}
            /\ tick \in early' \/ status[s] = "completed"
            /\ tick' = tick + 1
            /\ crossed' = Crossing(a, "clusters", s)
    BY <1>7 DEF Mines
  <2>1. PICK by :
            /\ work'[a].plan["clusters"] = Clusters(s, by) /\ Mined(s) = {}
            /\ tick \in early' \/ status[s] = "completed"
            /\ tick' = tick + 1
            /\ crossed' = Crossing(a, "clusters", s)
    BY <2>0
  <2>2. /\ \A x \in Clusters(s, by) : x.id = tick /\ x.run = s
        /\ Sorts(Clusters(s, by), Failures(s))
    BY ClustersSort
  <2>3. <<"clusters", s>> \notin crossed' =>
            \A b \in Actors : \A x \in work[b].plan["clusters"] : x.run = s => b = a
    BY <2>1 DEF Crossing
  <2>4. \A b \in Actors : b # a => work'[b].plan["clusters"] = work[b].plan["clusters"]
    BY <1>5, <1>7
  <2>5. tick \in Nat /\ tick < tick' /\ OfSet(tick) = {}
    <3>1. tick \in Nat /\ tick < tick'
      BY <2>1 DEF Shape
    <3>2. \A x \in table["clusters"] : x.id \in Nat /\ x.id < tick
      BY DEF ClusterInv
    <3>. QED
      BY <3>1, <3>2 DEF OfSet
  <2>6. \A x \in table["clusters"] :
           /\ x.id \in Nat /\ x.id < tick'
           /\ \A y \in OfSet(x.id)' : y.run = x.run
           /\ x.id \notin early' =>
                  /\ x.run \in Runs /\ status'[x.run] = "completed"
                  /\ Sorts(OfSet(x.id)', Failures(x.run)')
    BY <1>5, <1>7 DEF ClusterInv
  <2>7. ASSUME NEW b \in Actors, NEW x \in work'[b].plan["clusters"]
        PROVE  /\ x.id \in Nat /\ x.id < tick' /\ OfSet(x.id)' = {}
               /\ \A y \in work'[b].plan["clusters"] : y.id = x.id /\ y.run = x.run
               /\ \A c \in Actors : \A y \in work'[c].plan["clusters"] :
                      y.id = x.id => c = b
               /\ x.id \notin early' =>
                      /\ x.run \in Runs /\ status'[x.run] = "completed"
                      /\ Sorts(work'[b].plan["clusters"], Failures(x.run)')
    <3>0. \A c \in Actors : \A y \in work[c].plan["clusters"] : y.id # tick
      BY <2>5 DEF ClusterInv
    <3>1. CASE b = a
      <4>1. x.id = tick /\ x.run = s
        BY <2>1, <2>2, <2>7, <3>1
      <4>2. \A y \in work'[b].plan["clusters"] : y.id = x.id /\ y.run = x.run
        BY <2>1, <2>2, <3>1, <4>1
      <4>3. \A c \in Actors : \A y \in work'[c].plan["clusters"] : y.id = x.id => c = b
        BY <2>4, <3>0, <3>1, <4>1
      <4>4. Sorts(work'[b].plan["clusters"], Failures(x.run)')
        BY <1>5, <1>7, <2>1, <2>2, <3>1, <4>1
      <4>5. x.id \notin early' => status'[x.run] = "completed"
        BY <1>5, <1>7, <2>1, <4>1
      <4>6. OfSet(x.id)' = {}
        BY <1>5, <1>7, <2>5, <4>1
      <4>. QED
        BY <2>1, <2>5, <4>1, <4>2, <4>3, <4>4, <4>5, <4>6
    <3>2. CASE b # a
      <4>1. x \in work[b].plan["clusters"]
        BY <2>4, <2>7, <3>2
      <4>2. \A c \in Actors : \A y \in work'[c].plan["clusters"] : y.id = x.id => c = b
        BY <2>1, <2>2, <2>4, <3>0, <4>1 DEF ClusterInv
      <4>. QED
        BY <1>5, <1>7, <2>4, <3>2, <4>1, <4>2 DEF ClusterInv
    <3>. QED
      BY <3>1, <3>2
  <2>8. ASSUME NEW r \in Runs, <<"clusters", r>> \notin crossed'
        PROVE  /\ \A x, y \in Mined(r)' : x.id = y.id
               /\ \A b \in Actors : \A x \in work'[b].plan["clusters"] : x.run = r =>
                      /\ Mined(r)' = {}
                      /\ \A c \in Actors : \A y \in work'[c].plan["clusters"] :
                             y.run = r => c = b
    <3>1. CASE r = s
      <4>1. \A b \in Actors : \A x \in work'[b].plan["clusters"] : x.run = r => b = a
        BY <2>3, <2>4, <2>8, <3>1
      <4>. QED
        BY <1>5, <1>7, <2>1, <3>1, <4>1
    <3>2. CASE r # s
      <4>1. \A b \in Actors : \A x \in work'[b].plan["clusters"] :
                x.run = r => b # a /\ x \in work[b].plan["clusters"]
        BY <2>1, <2>2, <2>4, <3>2
      <4>2. <<"clusters", r>> \notin crossed
        BY <1>5, <1>7, <2>8
      <4>. QED
        BY <1>5, <1>7, <4>1, <4>2 DEF ClusterInv
    <3>. QED
      BY <3>1, <3>2
  <2>. QED
    BY <1>5, <1>7, <2>6, <2>7, <2>8 DEF ClusterInv
<1>8. ASSUME NEW a \in Actors, Replans(a, {"clusters"})
      PROVE  ClusterInv'
  BY <1>6, <1>8 DEF Replans
<1>. QED
  BY <1>1, <1>2, <1>3, <1>4, <1>6, <1>7, <1>8, ClusterSteps

LEMMA SoundClusters == ClusterInv => ClustersSound
<1>. SUFFICES ASSUME ClusterInv, NEW r \in Runs
              PROVE  /\ \A x, y \in Mined(r) : x.id = y.id \/ <<"clusters", r>> \in crossed
                     /\ \A x \in Mined(r) : x.id \notin early =>
                            Sorts({y \in Mined(r) : y.id = x.id}, Failures(r))
  BY DEF ClustersSound, Sorts
<1>1. \A x, y \in Mined(r) : x.id = y.id \/ <<"clusters", r>> \in crossed
  BY DEF ClusterInv
<1>2. ASSUME NEW x \in Mined(r), x.id \notin early
      PROVE  Sorts({y \in Mined(r) : y.id = x.id}, Failures(r))
  <2>1. x \in table["clusters"] /\ x.run = r
    BY DEF Mined
  <2>2. \A y \in OfSet(x.id) : y.run = x.run
    BY <2>1 DEF ClusterInv
  <2>3. {y \in Mined(r) : y.id = x.id} = OfSet(x.id)
    BY <2>1, <2>2 DEF Mined, OfSet
  <2>4. Sorts(OfSet(x.id), Failures(x.run))
    BY <1>2, <2>1 DEF ClusterInv
  <2>. QED
    BY <2>1, <2>3, <2>4
<1>. QED
  BY <1>1, <1>2

\* The clusters of a run that had ended when it was mined sort its failed cases,
\* and there is one set of them unless two miners met (services/failures.py,
\* mine_failure_clusters).
THEOREM ClustersAreSound == Spec => []ClustersSound
<1>1. Init => Shape /\ ClusterInv
  BY InitShape, InitClusterInv
<1>2. Shape /\ ClusterInv /\ [Next]_vars => (Shape /\ ClusterInv)'
  BY NextShape, NextClusterInv
<1>. QED
  BY <1>1, <1>2, SoundClusters, PTL DEF Spec

-----------------------------------------------------------------------------
(* The audit log.  Every plan tells about itself what the log tells about  *)
(* the tables, and plans tell together what they tell one by one.          *)

EntitledAll(events) == \A e \in events : Entitled(e)

AuditInv ==
    /\ Telling(table) /\ EntitledAll(table["audit"])
    /\ \A a \in Actors : Telling(work[a].plan) /\ EntitledAll(work[a].plan["audit"])

\* Two logs and what they tell of, put together.
LEMMA TogetherTells ==
    ASSUME NEW A, NEW B, NEW C, NEW action, NEW X, NEW Y, NEW Z,
           C = A \cup B, Z = X \cup Y
    PROVE  /\ Tells(A, action, X) /\ Tells(B, action, Y) => Tells(C, action, Z)
           /\ Made(A, action, X) /\ Made(B, action, Y) => Made(C, action, Z)
<1>1. Made(A, action, X) /\ Made(B, action, Y) => Made(C, action, Z)
  BY DEF Made
<1>2. Told(A, action, X) /\ Told(B, action, Y) => Told(C, action, Z)
  BY DEF Told
<1>. QED
  BY <1>1, <1>2 DEF Tells

LEMMA TogetherTelling ==
    ASSUME NEW A, NEW B, NEW C, \A t \in Tables : C[t] = A[t] \cup B[t],
           Telling(A), Telling(B)
    PROVE  Telling(C)
<1>1. /\ C["audit"] = A["audit"] \cup B["audit"]
      /\ C["suites"] = A["suites"] \cup B["suites"]
      /\ C["keys"] = A["keys"] \cup B["keys"]
      /\ C["revoked"] = A["revoked"] \cup B["revoked"]
      /\ C["proposals"] = A["proposals"] \cup B["proposals"]
      /\ C["decisions"] = A["decisions"] \cup B["decisions"]
      /\ C["promotions"] = A["promotions"] \cup B["promotions"]
      /\ C["candidates"] = A["candidates"] \cup B["candidates"]
      /\ C["clusters"] = A["clusters"] \cup B["clusters"]
  BY DEF Tables
<1>2. ASSUME NEW action, NEW t \in {"suites", "keys", "revoked"},
             Tells(A["audit"], action, A[t]), Tells(B["audit"], action, B[t])
      PROVE  Tells(C["audit"], action, C[t])
  <2>1. C[t] = A[t] \cup B[t]
    BY <1>1
  <2>. QED
    BY ZenonT(30), <1>1, <1>2, <2>1, TogetherTells
<1>3. ASSUME NEW action, NEW t \in {"proposals", "decisions", "promotions"},
             Tells(A["audit"], action, ByRun(A[t])), Tells(B["audit"], action, ByRun(B[t]))
      PROVE  Tells(C["audit"], action, ByRun(C[t]))
  <2>. DEFINE X == ByRun(A[t])
              Y == ByRun(B[t])
              Z == ByRun(C[t])
  <2>1. C[t] = A[t] \cup B[t] /\ C["audit"] = A["audit"] \cup B["audit"]
    BY <1>1
  <2>2. Z = X \cup Y
    BY <2>1 DEF ByRun
  <2>3. Tells(A["audit"], action, X) /\ Tells(B["audit"], action, Y)
    BY <1>3
  <2>. HIDE DEF X, Y, Z
  <2>4. Tells(C["audit"], action, Z)
    BY <2>1, <2>2, <2>3, TogetherTells
  <2>. QED
    BY <2>4 DEF Z
<1>4. Made(C["audit"], "candidate.create", C["candidates"])
  BY <1>1 DEF Telling, Made
<1>5. CandidatesTold(C)
  BY <1>1 DEF Telling, CandidatesTold
<1>6. MiningTold(C)
  BY <1>1 DEF Telling, MiningTold
<1>. QED
  BY <1>2, <1>3, <1>4, <1>5, <1>6 DEF Telling

\* An event tells of nothing but what its action is about.
LEMMA Silence ==
    ASSUME NEW A, NEW action, \A e \in A : e.action # action
    PROVE  /\ Tells(A, action, {}) /\ Tells(A, action, ByRun({}))
           /\ \A X : Made(A, action, X)
  BY DEF Tells, Told, Made, ByRun

LEMMA SilentTelling ==
    ASSUME NEW P, \A t \in Tables \ {"manifests"} : P[t] = {}
    PROVE  Telling(P)
<1>1. /\ P["audit"] = {} /\ P["suites"] = {} /\ P["keys"] = {} /\ P["revoked"] = {}
      /\ P["proposals"] = {} /\ P["decisions"] = {} /\ P["promotions"] = {}
      /\ P["candidates"] = {} /\ P["clusters"] = {}
  BY DEF Tables
<1>2. \A action : /\ Tells({}, action, {}) /\ Tells({}, action, ByRun({}))
                  /\ Made({}, action, {})
  BY Silence
<1>. QED
  BY <1>1, <1>2 DEF Telling, CandidatesTold, MiningTold

\* The event of one thing.
LEMMA OneTells ==
    ASSUME NEW action, NEW x, NEW k, x.by = {k}
    PROVE  Tells({Deed(action, x.id, x.project, k)}, action, {x})
  BY DEF Tells, Told, Made

\* A request names a key that there is, and a project that this key reaches.
LEMMA ServedEntitled ==
    ASSUME Shape, NEW h \in Handlers, NEW kind, Serves(h, kind),
           NEW action, NEW resource, NEW project, Reaches(work[h].key, project)
    PROVE  /\ Event(h, action, resource, project)
                  = {Deed(action, resource, project, work[h].key.id)}
           /\ Deed(action, resource, project, work[h].key.id).action = action
           /\ EntitledAll(Event(h, action, resource, project))
<1>. DEFINE e == Deed(action, resource, project, work[h].key.id)
<1>1. Event(h, action, resource, project) = {e}
  BY DEF Event
<1>2. e.action = action /\ e.actor = work[h].key.id /\ e.project = project
  BY DEF Deed
<1>3. work[h].key \in table["keys"] \cup {StaticKey}
  BY DEF Shape, Known, Serves, Actors
<1>. HIDE DEF e
<1>4. Entitled(e)
  BY <1>2, <1>3 DEF Entitled
<1>. QED
  BY <1>1, <1>2, <1>4 DEF EntitledAll, e

\* A plan of one event that is not about candidates or mining.
LEMMA PlainTelling ==
    ASSUME NEW P, NEW e, P["audit"] = {e}, P["candidates"] = {}, P["clusters"] = {},
           e.action \notin {"candidate.create", "failures.mine"},
           \/ P["suites"] = {} /\ e.action # "suite.create"
           \/ Tells({e}, "suite.create", P["suites"]),
           \/ P["keys"] = {} /\ e.action # "api_key.create"
           \/ Tells({e}, "api_key.create", P["keys"]),
           \/ P["revoked"] = {} /\ e.action # "api_key.revoke"
           \/ Tells({e}, "api_key.revoke", P["revoked"]),
           \/ P["proposals"] = {} /\ e.action # "improvement.propose"
           \/ Tells({e}, "improvement.propose", ByRun(P["proposals"])),
           \/ P["decisions"] = {} /\ e.action # "gate.evaluate"
           \/ Tells({e}, "gate.evaluate", ByRun(P["decisions"])),
           \/ P["promotions"] = {} /\ e.action # "promotion.create"
           \/ Tells({e}, "promotion.create", ByRun(P["promotions"]))
    PROVE  Telling(P)
<1>1. ASSUME NEW action, e.action # action
      PROVE  /\ Tells({e}, action, {}) /\ Tells({e}, action, ByRun({}))
             /\ Made({e}, action, {})
  BY <1>1, Silence
<1>2. CandidatesTold(P) /\ MiningTold(P)
  BY DEF CandidatesTold, MiningTold
<1>3. Made({e}, "candidate.create", {})
  BY <1>1
<1>. QED
  BY <1>1, <1>2, <1>3 DEF Telling

PlanTells(a) == Telling(work'[a].plan) /\ EntitledAll(work'[a].plan["audit"])

LEMMA PlansTell ==
    ASSUME Shape, NEW h \in Handlers
    PROVE  /\ CreateSuite(h) => PlanTells(h)
           /\ CreateCandidate(h) => PlanTells(h)
           /\ CreateKey(h) => PlanTells(h)
           /\ RevokeKey(h) => PlanTells(h)
           /\ MineFailures(h) => PlanTells(h)
           /\ ProposeImprovement(h) => PlanTells(h)
           /\ EvaluateGate(h) => PlanTells(h)
           /\ CreatePromotion(h) => PlanTells(h)
<1>. DEFINE key == work[h].key
            op == work[h].op
<1>1. ASSUME NEW P, Plan(h, P), Telling(P), EntitledAll(P["audit"])
      PROVE  PlanTells(h)
  <2>1. work'[h].plan = P
    BY <1>1 DEF Plan, Shape, Actors
  <2>. QED
    BY <1>1, <2>1 DEF PlanTells
<1>3. ASSUME CreateSuite(h)
      PROVE  PlanTells(h)
  <2>. DEFINE project == Resolved(key, op.project)
              x == [id |-> tick, project |-> project, by |-> By(h),
                    version |-> NextVersion(project)]
              e == Deed("suite.create", tick, project, key.id)
              E == Event(h, "suite.create", tick, project)
              P == [Nothing EXCEPT !["suites"] = {x}, !["audit"] = E]
  <2>1. Plan(h, P) /\ Serves(h, "suite")
    BY <1>3 DEF CreateSuite
  <2>2. Reaches(key, project)
    BY <2>1 DEF Serves, Valid, MayCreate
  <2>3. E = {e} /\ e.action = "suite.create" /\ EntitledAll(E)
    BY <2>1, <2>2, ServedEntitled
  <2>4. /\ P["suites"] = {x} /\ P["candidates"] = {} /\ P["proposals"] = {}
        /\ P["keys"] = {} /\ P["revoked"] = {} /\ P["decisions"] = {}
        /\ P["promotions"] = {} /\ P["clusters"] = {}
        /\ P["audit"] = E
    BY DEF Nothing, Tables
  <2>5. x.id = tick /\ x.project = project /\ x.by = {key.id}
    BY DEF By
  <2>. HIDE DEF P, E, x, project
  <2>6. Tells({e}, "suite.create", {x})
    BY <2>5, OneTells
  <2>. HIDE DEF e
  <2>7. Telling(P)
    BY <2>3, <2>4, <2>6, PlainTelling
  <2>. QED
    BY <1>1, <2>1, <2>3, <2>4, <2>7
<1>4. ASSUME CreateCandidate(h)
      PROVE  PlanTells(h)
  <2>. DEFINE project == Resolved(key, op.project)
              new == NewCandidate(project, op.content, By(h))
              e == Deed("candidate.create", tick, project, key.id)
              E == IF new = {} THEN {} ELSE Event(h, "candidate.create", tick, project)
              P == [Nothing EXCEPT !["candidates"] = new, !["audit"] = E]
  <2>1. Plan(h, P) /\ Serves(h, "candidate")
    BY <1>4 DEF CreateCandidate
  <2>2. Reaches(key, project)
    BY <2>1 DEF Serves, Valid, MayCreate
  <2>3. /\ Event(h, "candidate.create", tick, project) = {e}
        /\ e.action = "candidate.create"
        /\ EntitledAll(Event(h, "candidate.create", tick, project))
    BY <2>1, <2>2, ServedEntitled
  <2>4. /\ P["suites"] = {} /\ P["candidates"] = new /\ P["proposals"] = {}
        /\ P["keys"] = {} /\ P["revoked"] = {} /\ P["decisions"] = {}
        /\ P["promotions"] = {} /\ P["clusters"] = {}
        /\ P["audit"] = E
    BY DEF Nothing, Tables
  <2>5. CASE new = {}
    <3>1. E = {} /\ EntitledAll(E)
      BY <2>5 DEF EntitledAll
    <3>2. \A t \in Tables \ {"manifests"} : P[t] = {}
      BY <2>5, <3>1 DEF Nothing
    <3>. HIDE DEF P, E
    <3>. QED
      BY <1>1, <2>1, <2>4, <3>1, <3>2, SilentTelling
  <2>6. CASE new # {}
    <3>. DEFINE x == [id |-> tick, project |-> project, content |-> op.content,
                      by |-> By(h)]
    <3>1. new = {x} /\ E = {e} /\ EntitledAll(E)
      BY <2>3, <2>6 DEF NewCandidate
    <3>2. x.id = tick /\ x.project = project /\ x.by = {key.id}
      BY DEF By
    <3>. HIDE DEF x, new, E, P, project
    <3>3. Tells({e}, "candidate.create", {x})
      BY <3>2, OneTells
    <3>. HIDE DEF e
    <3>4. \A action : action # "candidate.create" =>
              Tells({e}, action, {}) /\ Tells({e}, action, ByRun({}))
      BY <2>3, Silence
    <3>5. CandidatesTold(P) /\ MiningTold(P)
      BY <2>3, <2>4, <3>1, <3>3 DEF CandidatesTold, MiningTold, Tells, Told
    <3>6. Telling(P)
      BY <2>4, <3>1, <3>3, <3>4, <3>5 DEF Telling, Tells
    <3>. QED
      BY <1>1, <2>1, <2>4, <3>1, <3>6
  <2>. QED
    BY <2>5, <2>6
<1>5. ASSUME CreateKey(h)
      PROVE  PlanTells(h)
  <2>. DEFINE project == Resolved(key, op.project)
              x == [id |-> tick, project |-> project, by |-> By(h), scopes |-> op.scopes]
              e == Deed("api_key.create", tick, project, key.id)
              E == Event(h, "api_key.create", tick, project)
              P == [Nothing EXCEPT !["keys"] = {x}, !["audit"] = E]
  <2>1. Plan(h, P) /\ Serves(h, "key")
    BY <1>5 DEF CreateKey
  <2>2. Reaches(key, project)
    BY <2>1 DEF Serves, Valid, MayCreate
  <2>3. E = {e} /\ e.action = "api_key.create" /\ EntitledAll(E)
    BY <2>1, <2>2, ServedEntitled
  <2>4. /\ P["suites"] = {} /\ P["candidates"] = {} /\ P["proposals"] = {}
        /\ P["keys"] = {x} /\ P["revoked"] = {} /\ P["decisions"] = {}
        /\ P["promotions"] = {} /\ P["clusters"] = {}
        /\ P["audit"] = E
    BY DEF Nothing, Tables
  <2>5. x.id = tick /\ x.project = project /\ x.by = {key.id}
    BY DEF By
  <2>. HIDE DEF P, E, x, project
  <2>6. Tells({e}, "api_key.create", {x})
    BY <2>5, OneTells
  <2>. HIDE DEF e
  <2>7. Telling(P)
    BY <2>3, <2>4, <2>6, PlainTelling
  <2>. QED
    BY <1>1, <2>1, <2>3, <2>4, <2>7
<1>6. ASSUME RevokeKey(h)
      PROVE  PlanTells(h)
  <2>1. PICK k \in table["keys"] :
            /\ Serves(h, "revoke") /\ MayRevoke(key, op, k)
            /\ Plan(h, [Nothing EXCEPT
                   !["revoked"] = {[id |-> k.id, project |-> k.project, by |-> By(h)]},
                   !["audit"] = Event(h, "api_key.revoke", k.id, k.project)])
    BY <1>6 DEF RevokeKey
  <2>. DEFINE x == [id |-> k.id, project |-> k.project, by |-> By(h)]
              e == Deed("api_key.revoke", k.id, k.project, key.id)
              E == Event(h, "api_key.revoke", k.id, k.project)
              P == [Nothing EXCEPT !["revoked"] = {x}, !["audit"] = E]
  <2>2. Plan(h, P)
    BY <2>1
  <2>3. E = {e} /\ e.action = "api_key.revoke" /\ EntitledAll(E)
    BY <2>1, ServedEntitled DEF MayRevoke
  <2>4. /\ P["suites"] = {} /\ P["candidates"] = {} /\ P["proposals"] = {}
        /\ P["keys"] = {} /\ P["revoked"] = {x} /\ P["decisions"] = {}
        /\ P["promotions"] = {} /\ P["clusters"] = {}
        /\ P["audit"] = E
    BY DEF Nothing, Tables
  <2>5. x.id = k.id /\ x.project = k.project /\ x.by = {key.id}
    BY DEF By
  <2>. HIDE DEF P, E, x
  <2>6. Tells({e}, "api_key.revoke", {x})
    BY <2>5, OneTells
  <2>. HIDE DEF e
  <2>7. Telling(P)
    BY <2>3, <2>4, <2>6, PlainTelling
  <2>. QED
    BY <1>1, <2>2, <2>3, <2>4, <2>7
<1>7. ASSUME MineFailures(h)
      PROVE  PlanTells(h)
  <2>. DEFINE r == op.run
              e == Deed("failures.mine", r, ProjectOf[r], key.id)
              E == Event(h, "failures.mine", r, ProjectOf[r])
              new == NewClusters(r, By(h))
              P == [Nothing EXCEPT !["clusters"] = new, !["audit"] = E]
  <2>1. Plan(h, P) /\ Serves(h, "mine")
    BY <1>7 DEF MineFailures
  <2>2. Reaches(key, ProjectOf[r]) /\ r \in Runs
    BY <2>1 DEF Serves, Valid, MayMine, Shape, Known, Actors
  <2>3. E = {e} /\ e.action = "failures.mine" /\ EntitledAll(E)
    BY <2>1, <2>2, ServedEntitled
  <2>4. /\ P["suites"] = {} /\ P["candidates"] = {} /\ P["proposals"] = {}
        /\ P["keys"] = {} /\ P["revoked"] = {} /\ P["decisions"] = {}
        /\ P["promotions"] = {} /\ P["clusters"] = new
        /\ P["audit"] = E
    BY DEF Nothing, Tables
  <2>5. \A x \in new : x.run = r /\ x.by = {key.id}
    BY DEF NewClusters, Clusters, By
  <2>6. e.resource = r /\ e.project = ProjectOf[r]
    BY DEF Deed
  <2>. HIDE DEF P, E, new
  <2>7. MiningTold(P)
    BY <2>2, <2>3, <2>4, <2>5, <2>6 DEF MiningTold
  <2>. HIDE DEF e, r
  <2>8. \A action : action # "failures.mine" =>
            /\ Tells({e}, action, {}) /\ Tells({e}, action, ByRun({}))
            /\ Made({e}, action, {})
    BY <2>3, Silence
  <2>9. CandidatesTold(P)
    BY <2>4 DEF CandidatesTold
  <2>10. Telling(P)
    BY <2>3, <2>4, <2>7, <2>8, <2>9 DEF Telling
  <2>. QED
    BY <1>1, <2>1, <2>3, <2>4, <2>10
<1>8. ASSUME ProposeImprovement(h)
      PROVE  PlanTells(h)
  <2>. DEFINE r == op.cluster.run
              project == ProjectOf[r]
              patch == Patch("request", op.cluster, op.target)
              new == IF op.create THEN NewCandidate(project, patch, By(h)) ELSE {}
              chosen == IF op.create THEN Chosen(new, project, patch) ELSE None
              x == [id |-> tick, cluster |-> op.cluster.id, run |-> r,
                    candidate |-> chosen, by |-> By(h)]
              N == Proposal(op.cluster, chosen, By(h))
              e == Deed("improvement.propose", tick, project, key.id)
              E == Event(h, "improvement.propose", tick, project)
              P == [Nothing EXCEPT !["candidates"] = new, !["proposals"] = N, !["audit"] = E]
  <2>1. Plan(h, P) /\ Serves(h, "propose")
    BY <1>8 DEF ProposeImprovement
  <2>2. Reaches(key, project)
    BY <2>1 DEF Serves, Valid, MayPropose
  <2>3. E = {e} /\ e.action = "improvement.propose" /\ EntitledAll(E)
    <3>. HIDE DEF project
    <3>. QED
      BY <2>1, <2>2, ServedEntitled
  <2>4. /\ P["suites"] = {} /\ P["candidates"] = new /\ P["proposals"] = N
        /\ P["keys"] = {} /\ P["revoked"] = {} /\ P["decisions"] = {}
        /\ P["promotions"] = {} /\ P["clusters"] = {}
        /\ P["audit"] = E
    BY DEF Nothing, Tables
  <2>5. N = {x}
    BY DEF Proposal
  <2>6. x.id = tick /\ x.run = r /\ x.candidate = chosen /\ x.by = {key.id}
    BY DEF By
  <2>7. \A c \in new : c.id = chosen /\ c.by = {key.id}
    <3>1. CASE new # {}
      <4>. DEFINE c == [id |-> tick, project |-> project, content |-> patch, by |-> By(h)]
      <4>1. op.create /\ new = {c} /\ Registered(project, patch) = {}
        BY <3>1 DEF NewCandidate
      <4>2. c.id = tick /\ c.by = {key.id}
        BY DEF By
      <4>. HIDE DEF c, new, patch
      <4>3. Chosen(new, project, patch) = c.id
        BY <4>1 DEF Chosen
      <4>. QED
        BY <4>1, <4>2, <4>3
    <3>. QED
      BY <3>1
  <2>. HIDE DEF P, E, N, new, chosen, x, patch
  <2>8. ByRun(N) = {[id |-> tick, project |-> project, by |-> {key.id}]}
    BY <2>5, <2>6 DEF ByRun
  <2>9. Tells({e}, "improvement.propose", ByRun(N))
    <3>. DEFINE y == [id |-> tick, project |-> project, by |-> {key.id}]
    <3>1. y.id = tick /\ y.project = project /\ y.by = {key.id}
      OBVIOUS
    <3>. HIDE DEF y, project
    <3>2. Tells({e}, "improvement.propose", {y})
      BY <3>1, OneTells
    <3>. QED
      BY <2>8, <3>2 DEF y
  <2>. HIDE DEF e, r
  <2>10. \A action : action # "improvement.propose" =>
             Tells({e}, action, {}) /\ Tells({e}, action, ByRun({}))
    BY <2>3, Silence
  <2>11. CandidatesTold(P)
    BY <2>4, <2>5, <2>6, <2>7 DEF CandidatesTold
  <2>12. Made({e}, "candidate.create", new)
    BY <2>3 DEF Made
  <2>13. MiningTold(P)
    BY <2>3, <2>4 DEF MiningTold
  <2>14. Telling(P)
    BY <2>3, <2>4, <2>9, <2>10, <2>11, <2>12, <2>13 DEF Telling
  <2>. QED
    BY <1>1, <2>1, <2>3, <2>4, <2>14
<1>9. ASSUME EvaluateGate(h)
      PROVE  PlanTells(h)
  <2>. DEFINE r == op.run
              project == ProjectOf[r]
              x == Decision(r, op.verdict, By(h))
              e == Deed("gate.evaluate", tick, project, key.id)
              E == Event(h, "gate.evaluate", tick, project)
              P == [Evaluation(r, op.verdict, By(h)) EXCEPT !["audit"] = E]
  <2>1. Plan(h, P) /\ Serves(h, "evaluate")
    BY <1>9 DEF EvaluateGate
  <2>2. Reaches(key, project)
    BY <2>1 DEF Serves, Valid, MayEvaluate
  <2>3. E = {e} /\ e.action = "gate.evaluate" /\ EntitledAll(E)
    BY <2>1, <2>2, ServedEntitled
  <2>4. /\ P["suites"] = {} /\ P["candidates"] = {} /\ P["proposals"] = {}
        /\ P["keys"] = {} /\ P["revoked"] = {} /\ P["decisions"] = {x}
        /\ P["promotions"] = {} /\ P["clusters"] = {}
        /\ P["audit"] = E
    BY DEF Nothing, Tables, Evaluation
  <2>5. x.id = tick /\ x.run = r /\ x.by = {key.id}
    BY DEF Decision, By
  <2>. HIDE DEF P, E, x
  <2>6. Tells({e}, "gate.evaluate", ByRun({x}))
    <3>. DEFINE y == [id |-> tick, project |-> project, by |-> {key.id}]
    <3>1. y.id = tick /\ y.project = project /\ y.by = {key.id}
      OBVIOUS
    <3>2. ByRun({x}) = {y}
      BY <2>5 DEF ByRun
    <3>. HIDE DEF y, project
    <3>3. Tells({e}, "gate.evaluate", {y})
      BY <3>1, OneTells
    <3>. QED
      BY <3>2, <3>3
  <2>. HIDE DEF e
  <2>7. Telling(P)
    BY <2>3, <2>4, <2>6, PlainTelling
  <2>. QED
    BY <1>1, <2>1, <2>3, <2>4, <2>7
<1>10. ASSUME CreatePromotion(h)
       PROVE  PlanTells(h)
  <2>1. PICK d \in table["decisions"] :
            /\ Serves(h, "promote") /\ MayPromote(key, op, d)
            /\ Plan(h, [Nothing EXCEPT
                   !["promotions"] = Promotion(d, op.override, By(h)),
                   !["audit"] = Event(h, "promotion.create", tick, ProjectOf[d.run])])
    BY <1>10 DEF CreatePromotion
  <2>. DEFINE project == ProjectOf[d.run]
              N == Promotion(d, op.override, By(h))
              e == Deed("promotion.create", tick, project, key.id)
              E == Event(h, "promotion.create", tick, project)
              P == [Nothing EXCEPT !["promotions"] = N, !["audit"] = E]
  <2>2. Plan(h, P)
    BY <2>1
  <2>3. E = {e} /\ e.action = "promotion.create" /\ EntitledAll(E)
    BY <2>1, ServedEntitled DEF MayPromote
  <2>4. /\ P["suites"] = {} /\ P["candidates"] = {} /\ P["proposals"] = {}
        /\ P["keys"] = {} /\ P["revoked"] = {} /\ P["decisions"] = {}
        /\ P["promotions"] = N /\ P["clusters"] = {}
        /\ P["audit"] = E
    BY DEF Nothing, Tables
  <2>5. \E x : N = {x} /\ x.id = tick /\ x.run = d.run /\ x.by = {key.id}
    <3>. DEFINE x == [id |-> tick, decision |-> d.id, run |-> d.run,
                      candidate |-> d.candidate, manifest |-> d.manifest,
                      override |-> op.override, by |-> By(h)]
    <3>1. N = {x}
      BY DEF Promotion
    <3>2. x.id = tick /\ x.run = d.run /\ x.by = {key.id}
      BY DEF By
    <3>. HIDE DEF x, N
    <3>. QED
      BY <3>1, <3>2
  <2>. HIDE DEF P, E, N
  <2>6. Tells({e}, "promotion.create", ByRun(N))
    <3>. DEFINE y == [id |-> tick, project |-> project, by |-> {key.id}]
    <3>1. y.id = tick /\ y.project = project /\ y.by = {key.id}
      OBVIOUS
    <3>2. ByRun(N) = {y}
      BY <2>5 DEF ByRun
    <3>. HIDE DEF y, project
    <3>3. Tells({e}, "promotion.create", {y})
      BY <3>1, OneTells
    <3>. QED
      BY <3>2, <3>3
  <2>. HIDE DEF e
  <2>7. Telling(P)
    BY <2>3, <2>4, <2>6, PlainTelling
  <2>. QED
    BY <1>1, <2>2, <2>3, <2>4, <2>7
<1>. QED
  BY <1>3, <1>4, <1>5, <1>6, <1>7, <1>8, <1>9, <1>10

\* Cycles write no events, and nothing in a client's name.
LEMMA CyclePlansTell ==
    ASSUME Shape, NEW w \in Cycles, NEW r \in Runs, NEW verdict, NEW promote
    PROVE  /\ OpenCluster(w, r) => PlanTells(w)
           /\ JudgeRun(w, r, verdict, promote) => PlanTells(w)
<1>. w \in Actors
  BY DEF Actors
<1>1. ASSUME NEW P, Transaction(w, r, P),
             \A t \in {"audit", "suites", "keys", "revoked"} : P[t] = {},
             \A t \in {"proposals", "decisions", "promotions", "candidates", "clusters"} :
                 \A x \in P[t] : x.by = {}
      PROVE  PlanTells(w)
  <2>1. work'[w].plan = P
    BY <1>1 DEF Transaction, Idle, Shape
  <2>2. /\ P["audit"] = {} /\ P["suites"] = {} /\ P["keys"] = {} /\ P["revoked"] = {}
    BY <1>1
  <2>3. \A action : Tells({}, action, {}) /\ \A X : Made({}, action, X)
    BY Silence
  <2>4. ASSUME NEW action, NEW t \in {"proposals", "decisions", "promotions"}
        PROVE  Tells({}, action, ByRun(P[t]))
    <3>1. \A y \in ByRun(P[t]) : y.by = {}
      BY <1>1 DEF ByRun
    <3>. QED
      BY <2>3, <3>1 DEF Tells, Told
  <2>5. CandidatesTold(P)
    BY <1>1 DEF CandidatesTold
  <2>6. MiningTold(P)
    BY <1>1, <2>2 DEF MiningTold
  <2>7. Telling(P)
    BY <2>2, <2>3, <2>4, <2>5, <2>6 DEF Telling
  <2>. QED
    BY <2>1, <2>2, <2>7 DEF PlanTells, EntitledAll
<1>2. ASSUME OpenCluster(w, r)
      PROVE  PlanTells(w)
  <2>1. PICK x : LET patch == Patch("cycle", x, "prompt")
                     new == NewCandidate(ProjectOf[r], patch, Nobody)
                 IN  Transaction(w, r, [Nothing EXCEPT
                         !["clusters"] = NewClusters(r, Nobody),
                         !["candidates"] = new,
                         !["proposals"] =
                             Proposal(x, Chosen(new, ProjectOf[r], patch), Nobody)])
    BY <1>2 DEF OpenCluster
  <2>. DEFINE patch == Patch("cycle", x, "prompt")
              C == NewClusters(r, Nobody)
              new == NewCandidate(ProjectOf[r], patch, Nobody)
              N == Proposal(x, Chosen(new, ProjectOf[r], patch), Nobody)
              P == [Nothing EXCEPT !["clusters"] = C, !["candidates"] = new,
                                   !["proposals"] = N]
  <2>2. Transaction(w, r, P)
    BY <2>1
  <2>3. /\ P["audit"] = {} /\ P["suites"] = {} /\ P["keys"] = {} /\ P["revoked"] = {}
        /\ P["decisions"] = {} /\ P["promotions"] = {}
        /\ P["clusters"] = C /\ P["candidates"] = new /\ P["proposals"] = N
    BY DEF Nothing, Tables
  <2>4. \A y \in C : y.by = {}
    BY DEF NewClusters, Clusters, Nobody
  <2>5. \A y \in new : y.by = {}
    BY DEF NewCandidate, Nobody
  <2>6. \A y \in N : y.by = {}
    BY DEF Proposal, Nobody
  <2>. HIDE DEF P, C, new, N
  <2>. QED
    BY <1>1, <2>2, <2>3, <2>4, <2>5, <2>6
<1>3. ASSUME JudgeRun(w, r, verdict, promote)
      PROVE  PlanTells(w)
  <2>. DEFINE D == Decision(r, verdict, Nobody)
              N == IF promote THEN Promotion(D, FALSE, Nobody) ELSE {}
              P == [Evaluation(r, verdict, Nobody) EXCEPT !["promotions"] = N]
  <2>1. Transaction(w, r, P)
    BY <1>3 DEF JudgeRun
  <2>2. /\ P["audit"] = {} /\ P["suites"] = {} /\ P["keys"] = {} /\ P["revoked"] = {}
        /\ P["decisions"] = {D} /\ P["promotions"] = N
        /\ P["clusters"] = {} /\ P["candidates"] = {} /\ P["proposals"] = {}
    BY DEF Nothing, Tables, Evaluation
  <2>3. D.by = {}
    BY DEF Decision, Nobody
  <2>4. \A y \in N : y.by = {}
    BY DEF Promotion, Nobody
  <2>. HIDE DEF P, D, N
  <2>. QED
    BY <1>1, <2>1, <2>2, <2>3, <2>4
<1>. QED
  BY <1>2, <1>3

\* Every step that plans anything plans what tells about itself.
LEMMA AuditSteps ==
    ASSUME Shape, Next
    PROVE  \/ \E r \in Runs, c \in Cases, o \in Outcomes : RecordCase(r, c, o)
           \/ \E r \in Runs : CompleteRun(r)
           \/ \E a \in Actors : Commit(a)
           \/ \E a \in Actors : Replans(a, {}) /\ PlanTells(a)
<1>1. ASSUME NEW a \in Actors, Replans(a, Tables)
      PROVE  PlanTells(a)
  BY <1>1, SilentTelling DEF Replans, PlanTells, EntitledAll, Tables
<1>2. ASSUME NEW a \in Actors, NEW T, Replans(a, T)
      PROVE  Replans(a, {})
  BY <1>2 DEF Replans
<1>. QED
  BY <1>1, <1>2, HandlerPlans, CyclePlans, EndPlans, PlansTell, CyclePlansTell
     DEF Next, Actors

LEMMA InitAuditInv == Init => AuditInv
<1>. SUFFICES ASSUME Init
              PROVE  AuditInv
  OBVIOUS
<1>1. \A t \in Tables : table[t] = {} /\ \A a \in Actors : work[a].plan[t] = {}
  BY DEF Init, Nothing, Idle
<1>. QED
  BY <1>1, SilentTelling DEF AuditInv, EntitledAll, Tables

LEMMA NextAuditInv ==
    ASSUME Shape, AuditInv, [Next]_vars
    PROVE  AuditInv'
<1>1. \A e : Entitled(e) => Entitled(e)'
  BY Monotone DEF Entitled, Reaches, Tables
<1>2. ASSUME UNCHANGED <<table, work>>
      PROVE  AuditInv'
  <2>1. Telling(table)' /\ EntitledAll(table["audit"])'
    BY <1>2 DEF AuditInv, EntitledAll, Entitled
  <2>2. \A a \in Actors : Telling(work[a].plan)' /\ EntitledAll(work[a].plan["audit"])'
    BY <1>2 DEF AuditInv, EntitledAll, Entitled
  <2>. QED
    BY <2>1, <2>2 DEF AuditInv
<1>3. ASSUME NEW r \in Runs, CompleteRun(r)
      PROVE  AuditInv'
  <2>1. /\ \A t \in Tables \ {"manifests"} : table'[t] = table[t]
        /\ work' = work
    BY <1>3 DEF CompleteRun, Shape
  <2>2. Telling(table')
    BY <2>1 DEF AuditInv, Telling, CandidatesTold, MiningTold, Tables
  <2>4. EntitledAll(table["audit"])'
    BY <2>1, <1>1 DEF AuditInv, EntitledAll, Tables
  <2>5. \A a \in Actors : Telling(work[a].plan)' /\ EntitledAll(work[a].plan["audit"])'
    BY <2>1, <1>1 DEF AuditInv, EntitledAll
  <2>. QED
    BY <2>2, <2>4, <2>5 DEF AuditInv
<1>4. ASSUME NEW a \in Actors, Commit(a)
      PROVE  AuditInv'
  <2>. DEFINE plan == work[a].plan
  <2>1. \A t \in Tables : table'[t] = table[t] \cup plan[t]
    BY <1>4 DEF Commit
  <2>2. \A b \in Actors : work'[b].plan = IF b = a THEN Nothing ELSE work[b].plan
    BY <1>4 DEF Commit, Idle, Shape
  <2>. HIDE DEF plan
  <2>3. Telling(table) /\ Telling(plan)
    BY DEF AuditInv, plan
  <2>4. Telling(table')
    BY <2>1, <2>3, TogetherTelling
  <2>5. EntitledAll(table["audit"]) /\ EntitledAll(plan["audit"])
    BY DEF AuditInv, plan
  <2>7. EntitledAll(table["audit"])'
    BY <2>1, <2>5, <1>1 DEF EntitledAll, Tables
  <2>8. Telling(Nothing) /\ Nothing["audit"] = {}
    BY SilentTelling DEF Nothing, Tables
  <2>9. ASSUME NEW b \in Actors
        PROVE  Telling(work'[b].plan) /\ EntitledAll(work[b].plan["audit"])'
    <3>1. CASE b = a
      BY <2>2, <2>8, <3>1 DEF EntitledAll
    <3>2. CASE b # a
      <4>1. work'[b].plan = work[b].plan
        BY <2>2, <3>2
      <4>2. Telling(work[b].plan) /\ EntitledAll(work[b].plan["audit"])
        BY DEF AuditInv
      <4>. QED
        BY <1>1, <4>1, <4>2 DEF EntitledAll
    <3>. QED
      BY <3>1, <3>2
  <2>. QED
    BY <2>4, <2>7, <2>9 DEF AuditInv
<1>5. ASSUME NEW a \in Actors, Replans(a, {}), PlanTells(a)
      PROVE  AuditInv'
  <2>1. /\ UNCHANGED table
        /\ \A b \in Actors : b # a => work'[b] = work[b]
    BY <1>5 DEF Replans, Shape
  <2>3. Telling(table)' /\ EntitledAll(table["audit"])'
    BY <2>1, <1>1 DEF AuditInv, EntitledAll
  <2>4. ASSUME NEW b \in Actors
        PROVE  Telling(work'[b].plan) /\ EntitledAll(work[b].plan["audit"])'
    <3>1. CASE b = a
      BY <1>5, <1>1, <3>1 DEF PlanTells, EntitledAll
    <3>2. CASE b # a
      BY <2>1, <1>1, <3>2 DEF AuditInv, EntitledAll
    <3>. QED
      BY <3>1, <3>2
  <2>. QED
    BY <2>3, <2>4 DEF AuditInv
<1>. QED
  BY <1>2, <1>3, <1>4, <1>5, AuditSteps DEF RecordCase, vars, rows

LEMMA TellingAudit == AuditInv => AuditTells
  BY DEF AuditInv, AuditTells, EntitledAll

\* The log tells what clients did and nothing else: every thing a request made has
\* the event with its project and its key, every event has its thing, and no key
\* is named in a project it does not reach (main.py, record_audit_event).
THEOREM AuditIsTelling == Spec => []AuditTells
<1>1. Init => Shape /\ AuditInv
  BY InitShape, InitAuditInv
<1>2. Shape /\ AuditInv /\ [Next]_vars => (Shape /\ AuditInv)'
  BY NextShape, NextAuditInv
<1>. QED
  BY <1>1, <1>2, TellingAudit, PTL DEF Spec

=============================================================================
