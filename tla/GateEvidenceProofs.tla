------------------------- MODULE GateEvidenceProofs -------------------------
(***************************************************************************)
(* Theorems about GateEvidence for any number of cases, repeats and        *)
(* crashes, any outcomes of the replays and any policies.                  *)
(***************************************************************************)
EXTENDS GateEvidence, FiniteSetTheorems, WellFoundedInduction, TLAPS

Recorded == {"passed", "failed", "flaky", "error"}

\* The repeats of a case whose replay has ended: all of them, or up to the
\* first that raised.
Ended(t) ==
    /\ t \in Seq(Outcomes) /\ t # <<>> /\ Len(t) <= Repeats
    /\ Len(t) = Repeats \/ IsRaised(t)
    /\ \A i \in 1 .. Len(t) - 1 : t[i].output # NoOutput

\* What the verdict v says of the repeats t.
Honest(v, t) ==
    /\ v = "passed" => ~SomeRaised(t) /\ AllPassedAlike(t)
    /\ v = "failed" => ~SomeRaised(t) /\ AllFailedAlike(t)
    /\ v = "flaky" => ~SomeRaised(t) /\ Disagree(t) /\ Len(t) = Repeats
    /\ v = "error" => SomeRaised(t)

\* What a repeat may be.
LEMMA OutcomeType ==
    ASSUME NEW o \in Outcomes
    PROVE  /\ o.passed \in BOOLEAN
           /\ o.labels \in SUBSET (Labels \cup ErrorLabels)
           /\ o.output = NoOutput => o.labels = ErrorLabels
<1>1. CASE o \in Replays
  BY <1>1, EvidenceConstantsOK DEF Replays
<1>2. CASE o = Raised
  BY <1>2 DEF Raised
<1>. QED
  BY <1>1, <1>2, EvidenceConstantsOK

\* Few outputs leave no room for a difference, and many have one.
LEMMA VariantsAlike ==
    ASSUME NEW t \in Seq(Outcomes), \A i \in DOMAIN t : t[i].output # NoOutput
    PROVE  /\ (Cardinality(Variants(t)) > 1) =>
                 \E i, j \in DOMAIN t : t[i].output # t[j].output
           /\ ~(Cardinality(Variants(t)) > 1) =>
                 \A i, j \in DOMAIN t : t[i].output = t[j].output
<1>. DEFINE f == [i \in DOMAIN t |-> t[i].output]
            V == Variants(t)
<1>1. V = {t[i].output : i \in DOMAIN t}
  BY DEF Variants
<1>2. f \in Surjection(DOMAIN t, V)
  BY <1>1, Zenon DEF Surjection
<1>3. IsFiniteSet(DOMAIN t)
  <2>1. DOMAIN t = 1 .. Len(t) /\ Len(t) \in Nat
    OBVIOUS
  <2>. QED
    BY <2>1, FS_Interval
<1>4. IsFiniteSet(V)
  BY <1>2, <1>3, FS_Surjection
<1>5. Cardinality(V) \in Nat
  BY <1>4, FS_CardinalityType
<1>6. ASSUME Cardinality(V) > 1 PROVE \E i, j \in DOMAIN t : t[i].output # t[j].output
  <2>1. V # {}
    BY <1>6, <1>4, FS_EmptySet
  <2>2. PICK i \in DOMAIN t : TRUE
    BY <2>1, <1>1
  <2>3. SUFFICES ASSUME \A j \in DOMAIN t : t[j].output = t[i].output PROVE FALSE
    BY <2>2
  <2>4. V = {t[i].output}
    BY <2>3, <2>2, <1>1
  <2>5. Cardinality(V) = 1
    BY <2>4, FS_Singleton
  <2>. QED
    BY <2>5, <1>6
<1>7. ASSUME ~(Cardinality(V) > 1), NEW i \in DOMAIN t, NEW j \in DOMAIN t
      PROVE  t[i].output = t[j].output
  <2>1. t[i].output \in V /\ t[j].output \in V
    BY <1>1
  <2>2. Cardinality(V) # 0
    BY <2>1, <1>4, FS_EmptySet
  <2>3. Cardinality(V) = 1
    BY <2>2, <1>5, <1>7
  <2>4. PICK x : V = {x}
    BY <2>3, <1>4, FS_Singleton
  <2>. QED
    BY <2>1, <2>4
<1>. QED
  BY <1>6, <1>7

\* The verdict of an ended replay is honest, and the labels it keeps are those
\* of the repeat that raised if one did.
LEMMA VerdictRight ==
    ASSUME NEW t, Ended(t)
    PROVE  /\ Verdict(t) \in Recorded
           /\ Honest(Verdict(t), t)
           /\ SomeRaised(t) => Evidence(t) = ErrorLabels
           /\ Evidence(t) \in SUBSET (Labels \cup ErrorLabels)
<1>1. /\ t \in Seq(Outcomes) /\ Len(t) \in Nat /\ Len(t) >= 1 /\ DOMAIN t = 1 .. Len(t)
      /\ \A i \in DOMAIN t : t[i] \in Outcomes
  BY DEF Ended
<1>2. Last(t) \in Outcomes /\ Last(t) = t[Len(t)]
  BY <1>1 DEF Last
<1>3. SomeRaised(t) <=> IsRaised(t)
  BY <1>1 DEF SomeRaised, IsRaised, Ended, Last
<1>4. \A o \in Outcomes :
         /\ o.passed \in BOOLEAN
         /\ o.labels \in SUBSET (Labels \cup ErrorLabels)
         /\ o.output = NoOutput => o.labels = ErrorLabels
  BY OutcomeType
<1>5. CASE IsRaised(t)
  BY <1>2, <1>3, <1>4, <1>5 DEF Verdict, Recorded, Honest, Evidence, IsRaised
<1>6. CASE ~IsRaised(t)
  <2>1. Len(t) = Repeats /\ \A i \in DOMAIN t : t[i].output # NoOutput
    BY <1>6, <1>3 DEF Ended, SomeRaised
  <2>2. /\ (Cardinality(Variants(t)) > 1) =>
              \E i, j \in DOMAIN t : t[i].output # t[j].output
        /\ ~(Cardinality(Variants(t)) > 1) =>
              \A i, j \in DOMAIN t : t[i].output = t[j].output
    BY <1>1, <2>1, VariantsAlike
  <2>3. CASE IsFlaky(t)
    <3>1. Verdict(t) = "flaky"
      BY <1>6, <2>3 DEF Verdict
    <3>2. Disagree(t)
      <4>1. CASE Passes(t) # {} /\ Passes(t) # DOMAIN t
        BY <4>1 DEF Passes, Disagree
      <4>2. CASE Cardinality(Variants(t)) > 1
        BY <4>2, <2>2 DEF Disagree
      <4>. QED
        BY <4>1, <4>2, <2>3 DEF IsFlaky
    <3>. QED
      BY <3>1, <3>2, <2>1, <1>2, <1>3, <1>4, <1>6 DEF Recorded, Honest, Evidence
  <2>4. CASE ~IsFlaky(t)
    <3>1. \A i, j \in DOMAIN t : t[i].output = t[j].output
      <4>1. CASE Repeats > 1
        BY <4>1, <2>2, <2>4 DEF IsFlaky
      <4>2. CASE ~(Repeats > 1)
        <5>1. \A i \in DOMAIN t : i = 1
          BY <4>2, <2>1, <1>1, EvidenceConstantsOK
        <5>. QED
          BY <5>1
      <4>. QED
        BY <4>1, <4>2
    <3>2. Passes(t) = {} \/ Passes(t) = DOMAIN t
      <4>1. CASE Repeats > 1
        BY <4>1, <2>4 DEF IsFlaky
      <4>2. CASE ~(Repeats > 1)
        <5>1. \A i \in DOMAIN t : i = 1
          BY <4>2, <2>1, <1>1, EvidenceConstantsOK
        <5>. QED
          BY <5>1 DEF Passes
      <4>. QED
        BY <4>1, <4>2
    <3>3. CASE Passes(t) = DOMAIN t
      <4>1. Verdict(t) = "passed"
        BY <1>6, <2>4, <3>3 DEF Verdict
      <4>2. \A i \in DOMAIN t : t[i].passed
        BY <3>3 DEF Passes
      <4>3. AllPassedAlike(t)
        BY <4>2, <3>1, <2>1, <1>1 DEF AllPassedAlike
      <4>. QED
        BY <4>1, <4>3, <1>2, <1>3, <1>4, <1>6 DEF Recorded, Honest, Evidence
    <3>4. CASE Passes(t) = {}
      <4>1. Passes(t) # DOMAIN t
        BY <3>4, <1>1
      <4>2. Verdict(t) = "failed"
        BY <1>6, <2>4, <4>1 DEF Verdict
      <4>3. \A i \in DOMAIN t : ~t[i].passed
        BY <3>4 DEF Passes
      <4>4. AllFailedAlike(t)
        BY <4>3, <3>1, <2>1, <1>1 DEF AllFailedAlike
      <4>. QED
        BY <4>2, <4>4, <1>2, <1>3, <1>4, <1>6 DEF Recorded, Honest, Evidence
    <3>. QED
      BY <3>2, <3>3, <3>4
  <2>. QED
    BY <2>3, <2>4
<1>. QED
  BY <1>5, <1>6

-----------------------------------------------------------------------------
(* Order statistics.                                                       *)

\* A set of numbers has a least element.
LEMMA LeastNumber ==
    ASSUME NEW T, T \subseteq Nat, T # {}
    PROVE  \E m \in T : \A n \in T : m <= n
<1>1. PICK m \in T : \A n \in T : <<n, m>> \notin OpToRel(<, Nat)
  BY NatLessThanWellFounded, WFMin
<1>2. \A n \in T : ~(n < m)
  BY <1>1 DEF OpToRel
<1>. QED
  BY <1>2

\* A bounded one has a greatest.
LEMMA GreatestNumber ==
    ASSUME NEW T, T \subseteq Nat, T # {}, NEW b \in Nat, \A n \in T : n <= b
    PROVE  \E m \in T : \A n \in T : n <= m
<1>. DEFINE D == {b - n : n \in T}
<1>0. \A n \in T : b - n \in Nat
  OBVIOUS
<1>1. D \subseteq Nat /\ D # {}
  BY <1>0
<1>2. PICK d \in D : \A e \in D : d <= e
  BY <1>1, LeastNumber
<1>3. PICK m \in T : d = b - m
  OBVIOUS
<1>4. \A n \in T : b - m <= b - n
  BY <1>2, <1>3
<1>. QED
  BY <1>3, <1>4

\* Sets of cases are finite and can be counted.
LEMMA CasesFinite ==
    ASSUME NEW C \in SUBSET Cases
    PROVE  /\ IsFiniteSet(C) /\ Cardinality(C) \in Nat
           /\ \A B \in SUBSET C : Cardinality(B) <= Cardinality(C)
           /\ \A B \in SUBSET C : Cardinality(B) = Cardinality(C) => B = C
<1>1. IsFiniteSet(Cases)
  BY FS_Interval, EvidenceConstantsOK DEF Cases
<1>2. IsFiniteSet(C)
  BY <1>1, FS_Subset
<1>. QED
  BY <1>2, FS_Subset, FS_CardinalityType

LEMMA CasesCount == Cardinality(Cases) = NumCases
  BY FS_Interval, EvidenceConstantsOK DEF Cases

AtMost(C, v) == {c \in C : latency[c] <= v}
Below(C, v) == {c \in C : latency[c] < v}

\* Of finitely many cases one is the slowest.
LEMMA SlowestCase ==
    ASSUME latency \in [Cases -> Nat], NEW C \in SUBSET Cases, C # {}
    PROVE  \E s \in C : AtMost(C, latency[s]) = C
<1>. DEFINE T == {Cardinality(AtMost(C, latency[s])) : s \in C}
<1>1. \A s \in C : /\ AtMost(C, latency[s]) \in SUBSET C
                   /\ AtMost(C, latency[s]) \in SUBSET Cases
  BY DEF AtMost
<1>2. T \subseteq Nat /\ T # {} /\ \A n \in T : n <= Cardinality(C)
  BY <1>1, CasesFinite
<1>3. Cardinality(C) \in Nat
  BY CasesFinite
<1>4. PICK m \in T : \A n \in T : n <= m
  BY <1>2, <1>3, GreatestNumber
<1>5. PICK s \in C : m = Cardinality(AtMost(C, latency[s]))
  OBVIOUS
<1>6. \A d \in C : latency[d] <= latency[s]
  <2>1. SUFFICES ASSUME NEW d \in C, ~(latency[d] <= latency[s]) PROVE FALSE
    OBVIOUS
  <2>2. AtMost(C, latency[s]) \in SUBSET AtMost(C, latency[d])
    BY <2>1 DEF AtMost
  <2>3. d \in AtMost(C, latency[d]) /\ d \notin AtMost(C, latency[s])
    BY <2>1 DEF AtMost
  <2>4. /\ Cardinality(AtMost(C, latency[d])) <= Cardinality(AtMost(C, latency[s]))
        /\ Cardinality(AtMost(C, latency[s])) <= Cardinality(AtMost(C, latency[d]))
    BY <1>1, <1>4, <1>5, <2>2, CasesFinite
  <2>5. Cardinality(AtMost(C, latency[s])) = Cardinality(AtMost(C, latency[d]))
    BY <1>1, <2>4, CasesFinite
  <2>. QED
    BY <1>1, <2>2, <2>3, <2>5, CasesFinite
<1>. QED
  BY <1>6 DEF AtMost

\* The latency at every position of the sorted list exists, so Ordered is it.
LEMMA OrderStatistic ==
    ASSUME latency \in [Cases -> Nat], NEW C \in SUBSET Cases,
           NEW k \in Nat, 1 <= k, k <= Cardinality(C)
    PROVE  /\ Ordered(C, k) \in Nat
           /\ Cardinality(Below(C, Ordered(C, k))) < k
           /\ k <= Cardinality(AtMost(C, Ordered(C, k)))
<1>. DEFINE L == {latency[c] : c \in C}
            T == {v \in L : k <= Cardinality(AtMost(C, v))}
<1>1. C # {}
  BY FS_EmptySet
<1>2. L \subseteq Nat
  OBVIOUS
<1>3. T # {} /\ T \subseteq Nat
  <2>1. PICK s \in C : AtMost(C, latency[s]) = C
    BY <1>1, SlowestCase
  <2>2. latency[s] \in T
    BY <2>1
  <2>. QED
    BY <2>2, <1>2
<1>4. PICK v \in T : \A u \in T : v <= u
  BY <1>3, LeastNumber
<1>5. Cardinality(Below(C, v)) < k
  <2>. DEFINE B == Below(C, v)
  <2>1. B \in SUBSET Cases /\ B \in SUBSET C
    BY DEF Below
  <2>2. SUFFICES ASSUME k <= Cardinality(B) PROVE FALSE
    BY <2>1, CasesFinite
  <2>3. B # {}
    BY <2>2, FS_EmptySet
  <2>4. PICK s \in B : AtMost(B, latency[s]) = B
    BY <2>1, <2>3, SlowestCase
  <2>5. B \in SUBSET AtMost(C, latency[s]) /\ AtMost(C, latency[s]) \in SUBSET Cases
    BY <2>1, <2>4 DEF AtMost
  <2>6. k <= Cardinality(AtMost(C, latency[s]))
    BY <2>1, <2>2, <2>5, CasesFinite
  <2>7. latency[s] \in T /\ latency[s] < v
    BY <2>1, <2>6 DEF Below
  <2>. QED
    BY <2>7, <1>3, <1>4
<1>6. /\ v \in L /\ v \in Nat
      /\ Cardinality({c \in C : latency[c] < v}) < k
      /\ k <= Cardinality({c \in C : latency[c] <= v})
  BY <1>3, <1>5 DEF Below, AtMost
<1>7. /\ Ordered(C, k) \in L
      /\ Cardinality({c \in C : latency[c] < Ordered(C, k)}) < k
      /\ k <= Cardinality({c \in C : latency[c] <= Ordered(C, k)})
  BY <1>6 DEF Ordered
<1>. QED
  BY <1>2, <1>7 DEF Below, AtMost

\* The position that p95 is read from is in the list.
LEMMA P95Position ==
    ASSUME NEW n \in Nat, n >= 1
    PROVE  LET k == (95 * n + 99) \div 100 IN
           /\ k \in Nat /\ 1 <= k /\ k <= n
           /\ 100 * k >= 95 * n /\ 100 * k < 95 * n + 100
  OBVIOUS

\* p95 is a number.
LEMMA P95Type ==
    ASSUME latency \in [Cases -> Nat], NEW C \in SUBSET Cases
    PROVE  P95(C) \in Nat
<1>1. CASE C = {}
  BY <1>1 DEF P95
<1>2. CASE C # {}
  <2>1. Cardinality(C) \in Nat /\ Cardinality(C) >= 1
    BY <1>2, CasesFinite, FS_EmptySet
  <2>2. Ordered(C, (95 * Cardinality(C) + 99) \div 100) \in Nat
    BY <2>1, P95Position, OrderStatistic
  <2>. QED
    BY <1>2, <2>2 DEF P95
<1>. QED
  BY <1>1, <1>2

\* p95 exceeds m exactly when more than one case in twenty does.
LEMMA P95Exact ==
    ASSUME latency \in [Cases -> Nat], NumCases > 0, NEW m \in Nat
    PROVE  (P95(Cases) > m) <=>
               20 * Cardinality({c \in Cases : latency[c] > m}) > NumCases
<1>. DEFINE k == (95 * NumCases + 99) \div 100
            v == P95(Cases)
            slow == {c \in Cases : latency[c] > m}
            fine == AtMost(Cases, m)
<1>1. NumCases \in Nat /\ NumCases >= 1 /\ Cases # {} /\ Cases \in SUBSET Cases
  BY EvidenceConstantsOK DEF Cases
<1>2. /\ k \in Nat /\ 1 <= k /\ k <= NumCases
      /\ 100 * k >= 95 * NumCases /\ 100 * k < 95 * NumCases + 100
  BY <1>1, P95Position
<1>3. v = Ordered(Cases, k)
  BY <1>1, CasesCount DEF P95
<1>4. v \in Nat /\ Cardinality(Below(Cases, v)) < k /\ k <= Cardinality(AtMost(Cases, v))
  BY <1>1, <1>2, <1>3, CasesCount, OrderStatistic
<1>5. /\ Cardinality(slow) \in Nat /\ Cardinality(fine) \in Nat
      /\ Cardinality(slow) + Cardinality(fine) = NumCases
  <2>1. slow \in SUBSET Cases /\ fine \in SUBSET Cases /\ slow \cap fine = {}
        /\ slow \cup fine = Cases
    BY DEF AtMost
  <2>2. IsFiniteSet(slow) /\ IsFiniteSet(fine)
        /\ Cardinality(slow) \in Nat /\ Cardinality(fine) \in Nat
    BY <2>1, CasesFinite
  <2>3. Cardinality(slow \cup fine) =
            Cardinality(slow) + Cardinality(fine) - Cardinality(slow \cap fine)
    BY <2>2, FS_Union
  <2>4. NumCases = Cardinality(slow) + Cardinality(fine) - 0
    BY <2>1, <2>3, FS_EmptySet, CasesCount
  <2>5. QED
    <3>. HIDE DEF slow, fine
    <3>. QED
      BY <2>2, <2>4
<1>6. (v > m) <=> Cardinality(fine) < k
  <2>1. CASE v > m
    <3>1. fine \in SUBSET Below(Cases, v) /\ Below(Cases, v) \in SUBSET Cases
      BY <2>1, <1>4 DEF AtMost, Below
    <3>. QED
      BY <3>1, <2>1, <1>2, <1>4, <1>5, CasesFinite
  <2>2. CASE ~(v > m)
    <3>1. AtMost(Cases, v) \in SUBSET fine /\ fine \in SUBSET Cases
      BY <2>2, <1>4 DEF AtMost
    <3>2. /\ Cardinality(AtMost(Cases, v)) <= Cardinality(fine)
          /\ Cardinality(AtMost(Cases, v)) \in Nat
      BY <3>1, CasesFinite
    <3>. QED
      BY <3>2, <2>2, <1>2, <1>4, <1>5
  <2>. QED
    BY <2>1, <2>2
<1>. HIDE DEF v, slow, fine, k
<1>7. (Cardinality(fine) < k) <=> (20 * Cardinality(slow) > NumCases)
  BY <1>1, <1>2, <1>5
<1>8. (v > m) <=> (20 * Cardinality(slow) > NumCases)
  BY <1>6, <1>7
<1>. QED
  BY <1>8 DEF v, slow

-----------------------------------------------------------------------------
(* The inductive invariant.                                                *)

\* Each recorded verdict is honest, and a replay that raised left its labels.
RowsOK ==
    \A c \in Cases : verdict[c] \in Recorded =>
        /\ Honest(verdict[c], replays[c])
        /\ SomeRaised(replays[c]) => evidence[c] = ErrorLabels

\* Where the executor is in the loop.
LoopOK ==
    /\ status = "running" <=> pc \in {"next", "replay"}
    /\ pc = "replay" =>
          /\ cursor \in Cases
          /\ \A i \in 1 .. Len(tries) - 1 : tries[i].output # NoOutput
    /\ pc \in {"next", "replay"} =>
          \A c \in Cases : c < cursor => verdict[c] \in Recorded

\* In the first attempt of a run the lists grow with the loop.
FirstAttemptOK ==
    (crashes = 0 /\ pc \in {"next", "replay"}) =>
        /\ measured = 1 .. cursor - 1
        /\ \A c \in Cases : c >= cursor => verdict[c] \notin Settled

\* What a run has summed up once it is completed, or failed soon after.
CompletedOK ==
    /\ status = "running" => aggregate = NoAggregate
    /\ (status = "completed" \/ aggregate # NoAggregate) =>
          /\ \A c \in Cases : verdict[c] \in Recorded
          /\ aggregate.passed = Cardinality({c \in Cases : verdict[c] = "passed"})
          /\ aggregate.flaky = Cardinality({c \in Cases : verdict[c] = "flaky"})
          /\ aggregate.total = NumCases
          /\ crashes = 0 => aggregate.p95 = P95(Cases)

\* A decision is what the policy makes of the run as it still is.
DecisionsOK ==
    \A d \in decisions :
        status = "completed" /\ (d.decision = "approved" <=> Approves(d.policy))

EvidenceInv == TypeOK /\ RowsOK /\ LoopOK /\ FirstAttemptOK /\ CompletedOK /\ DecisionsOK

LEMMA InitEvidenceInv == Init => EvidenceInv
  BY EvidenceConstantsOK
     DEF Init, EvidenceInv, TypeOK, RowsOK, LoopOK, FirstAttemptOK, CompletedOK,
         DecisionsOK, Cases, Recorded, Settled, NoAggregate, Aggregates

\* What the case loop must keep of the rows while no aggregate is there.
LEMMA AggregateType ==
    ASSUME TypeOK
    PROVE  AggregateNow \in Aggregates
<1>1. /\ {c \in Cases : verdict[c] = "passed"} \in SUBSET Cases
      /\ {c \in Cases : verdict[c] = "flaky"} \in SUBSET Cases
  OBVIOUS
<1>2. P95(measured) \in Nat
  BY P95Type DEF TypeOK
<1>. QED
  BY <1>1, <1>2, CasesFinite, EvidenceConstantsOK DEF AggregateNow, Aggregates

\* After the loop the aggregate sums up all cases, and in a first attempt p95 is
\* that of all of them.
LEMMA SumsUp ==
    ASSUME EvidenceInv, pc = "next", cursor > NumCases, aggregate' = AggregateNow,
           status' \in {"completed", "failed"}, UNCHANGED <<verdict, latency, crashes>>
    PROVE  CompletedOK'
<1>1. \A c \in Cases : verdict[c] \in Recorded
  BY EvidenceConstantsOK DEF EvidenceInv, TypeOK, LoopOK, Cases
<1>2. crashes = 0 => measured = Cases
  BY EvidenceConstantsOK DEF EvidenceInv, TypeOK, FirstAttemptOK, Cases
<1>3. P95(Cases)' = P95(Cases)
  BY DEF P95, Ordered
<1>. QED
  BY <1>1, <1>2, <1>3 DEF CompletedOK, AggregateNow

LEMMA NextEvidenceInv == EvidenceInv /\ [Next]_vars => EvidenceInv'
<1>. SUFFICES ASSUME EvidenceInv, [Next]_vars PROVE EvidenceInv'
  OBVIOUS
<1>. USE EvidenceConstantsOK
<1>1. CASE BeginCase
  <2>1. TypeOK'
    <3>1. tries' \in Seq(Outcomes) /\ Len(tries') <= Repeats
      BY <1>1 DEF BeginCase
    <3>2. verdict' \in [Cases -> {"pending", "running", "passed", "failed", "flaky", "error"}]
      BY <1>1 DEF EvidenceInv, TypeOK, BeginCase
    <3>. QED
      BY <1>1, <3>1, <3>2 DEF EvidenceInv, TypeOK, BeginCase
  <2>2. RowsOK'
    BY <1>1 DEF EvidenceInv, TypeOK, RowsOK, BeginCase, Recorded
  <2>3. LoopOK' /\ FirstAttemptOK'
    <3>1. cursor \in Cases /\ Len(<<>>) = 0
      BY <1>1 DEF EvidenceInv, TypeOK, BeginCase, Cases
    <3>2. status = "running" /\ pc = "next" /\ pc' = "replay" /\ tries' = <<>>
          /\ cursor' = cursor /\ measured' = measured /\ crashes' = crashes /\ status' = status
      BY <1>1 DEF EvidenceInv, LoopOK, BeginCase
    <3>3. \A c \in Cases : c # cursor => verdict'[c] = verdict[c]
      BY <1>1 DEF EvidenceInv, TypeOK, BeginCase
    <3>4. verdict'[cursor] = "running"
      BY <1>1, <3>1 DEF EvidenceInv, TypeOK, BeginCase
    <3>5. cursor \in Nat
      BY DEF EvidenceInv, TypeOK
    <3>6. LoopOK'
      BY <3>1, <3>2, <3>3, <3>5 DEF EvidenceInv, LoopOK
    <3>7. FirstAttemptOK'
      BY <3>2, <3>3, <3>4 DEF EvidenceInv, FirstAttemptOK, Settled
    <3>. QED
      BY <3>6, <3>7
  <2>4. CompletedOK' /\ DecisionsOK'
    BY <1>1 DEF EvidenceInv, LoopOK, CompletedOK, DecisionsOK, BeginCase
  <2>. QED
    BY <2>1, <2>2, <2>3, <2>4 DEF EvidenceInv
<1>2. CASE SkipSettled
  <2>1. TypeOK'
    BY <1>2 DEF EvidenceInv, TypeOK, SkipSettled, row
  <2>2. RowsOK'
    BY <1>2 DEF EvidenceInv, RowsOK, SkipSettled, row
  <2>3. LoopOK' /\ FirstAttemptOK'
    <3>1. cursor \in Cases
      BY <1>2 DEF EvidenceInv, TypeOK, SkipSettled, Cases
    <3>2. LoopOK'
      <4>1. verdict[cursor] \in Recorded
        BY <1>2, <3>1 DEF EvidenceInv, TypeOK, SkipSettled, Settled, Recorded
      <4>2. \A c \in Cases : c < cursor + 1 => (c < cursor \/ c = cursor)
        BY <3>1 DEF Cases
      <4>. QED
        BY <1>2, <4>1, <4>2 DEF EvidenceInv, LoopOK, SkipSettled, row
    <3>3. crashes # 0
      <4>1. cursor >= cursor
        BY <3>1 DEF Cases
      <4>. QED
        BY <1>2, <3>1, <4>1 DEF EvidenceInv, FirstAttemptOK, SkipSettled
    <3>. QED
      BY <1>2, <3>2, <3>3 DEF FirstAttemptOK, SkipSettled
  <2>4. CompletedOK' /\ DecisionsOK'
    BY <1>2 DEF EvidenceInv, LoopOK, CompletedOK, DecisionsOK, SkipSettled, row
  <2>. QED
    BY <2>1, <2>2, <2>3, <2>4 DEF EvidenceInv
<1>3. ASSUME NEW o \in Outcomes, Replay(o) PROVE EvidenceInv'
  <2>1. /\ tries' \in Seq(Outcomes) /\ Len(tries') = Len(tries) + 1
        /\ \A i \in 1 .. Len(tries) : tries'[i] = tries[i]
    BY <1>3 DEF EvidenceInv, TypeOK, Replay
  <2>2. \A i \in 1 .. Len(tries) : tries[i].output # NoOutput
    <3>1. \A i \in 1 .. Len(tries) - 1 : tries[i].output # NoOutput
      BY <1>3 DEF EvidenceInv, LoopOK, Replay
    <3>2. tries # <<>> => tries[Len(tries)].output # NoOutput
      BY <1>3 DEF Replay, IsRaised, Last
    <3>3. tries \in Seq(Outcomes) /\ Len(tries) \in Nat
      BY DEF EvidenceInv, TypeOK
    <3>. QED
      BY <3>1, <3>2, <3>3
  <2>3. TypeOK'
    BY <1>3, <2>1 DEF EvidenceInv, TypeOK, Replay, row
  <2>4. RowsOK'
    BY <1>3 DEF EvidenceInv, RowsOK, Replay, row
  <2>5. LoopOK' /\ FirstAttemptOK'
    BY <1>3, <2>1, <2>2 DEF EvidenceInv, TypeOK, LoopOK, FirstAttemptOK, Replay, row
  <2>6. CompletedOK' /\ DecisionsOK'
    BY <1>3 DEF EvidenceInv, LoopOK, CompletedOK, DecisionsOK, Replay, row
  <2>. QED
    BY <2>3, <2>4, <2>5, <2>6 DEF EvidenceInv
<1>4. CASE RecordCase
  <2>1. Ended(tries)
    BY <1>4 DEF EvidenceInv, TypeOK, LoopOK, RecordCase, Ended, IsRaised
  <2>2. /\ Verdict(tries) \in Recorded
        /\ Honest(Verdict(tries), tries)
        /\ SomeRaised(tries) => Evidence(tries) = ErrorLabels
        /\ Evidence(tries) \in SUBSET (Labels \cup ErrorLabels)
    BY <2>1, VerdictRight
  <2>3. TypeOK'
    <3>1. cursor \in Cases
      BY <1>4 DEF EvidenceInv, LoopOK, RecordCase
    <3>2. <<>> \in Seq(Outcomes) /\ Len(<<>>) = 0
      OBVIOUS
    <3>. QED
      BY <1>4, <2>2, <3>1, <3>2 DEF EvidenceInv, TypeOK, RecordCase, Cases, Recorded
  <2>4. RowsOK'
    <3>1. SUFFICES ASSUME NEW c \in Cases, verdict'[c] \in Recorded
                   PROVE  /\ Honest(verdict'[c], replays'[c])
                          /\ SomeRaised(replays'[c]) => evidence'[c] = ErrorLabels
      BY DEF RowsOK, Honest, SomeRaised, AllPassedAlike, AllFailedAlike, Disagree
    <3>2. CASE c = cursor
      BY <1>4, <2>2, <3>2 DEF EvidenceInv, TypeOK, RecordCase
    <3>3. CASE c # cursor
      BY <1>4, <3>1, <3>3 DEF EvidenceInv, TypeOK, RowsOK, RecordCase
    <3>. QED
      BY <3>2, <3>3
  <2>5. LoopOK' /\ FirstAttemptOK'
    BY SMTT(20), <1>4, <2>2 DEF EvidenceInv, TypeOK, LoopOK, FirstAttemptOK, RecordCase, Cases
  <2>6. CompletedOK' /\ DecisionsOK'
    BY <1>4 DEF EvidenceInv, LoopOK, CompletedOK, DecisionsOK, RecordCase
  <2>. QED
    BY <2>3, <2>4, <2>5, <2>6 DEF EvidenceInv
<1>5. CASE CompleteRun
  <2>1. TypeOK'
    BY <1>5, AggregateType DEF EvidenceInv, TypeOK, CompleteRun
  <2>2. RowsOK'
    BY <1>5 DEF EvidenceInv, RowsOK, CompleteRun
  <2>3. LoopOK' /\ FirstAttemptOK'
    BY <1>5 DEF EvidenceInv, LoopOK, FirstAttemptOK, CompleteRun
  <2>4. CompletedOK'
    BY <1>5, SumsUp DEF CompleteRun
  <2>5. DecisionsOK'
    BY <1>5 DEF EvidenceInv, LoopOK, DecisionsOK, CompleteRun
  <2>. QED
    BY <2>1, <2>2, <2>3, <2>4, <2>5 DEF EvidenceInv
<1>6. CASE FailRun
  <2>1. TypeOK'
    BY <1>6, AggregateType DEF EvidenceInv, TypeOK, FailRun
  <2>2. RowsOK'
    BY <1>6 DEF EvidenceInv, RowsOK, FailRun
  <2>3. LoopOK' /\ FirstAttemptOK'
    BY <1>6 DEF EvidenceInv, LoopOK, FirstAttemptOK, FailRun
  <2>4. CompletedOK'
    <3>1. CASE aggregate' = aggregate
      <4>1. aggregate = NoAggregate
        BY <1>6 DEF EvidenceInv, LoopOK, CompletedOK, FailRun
      <4>. QED
        BY <1>6, <3>1, <4>1 DEF CompletedOK, FailRun
    <3>2. CASE cursor > NumCases /\ aggregate' = AggregateNow
      BY <1>6, <3>2, SumsUp DEF FailRun
    <3>. QED
      BY <1>6, <3>1, <3>2 DEF FailRun
  <2>5. DecisionsOK'
    BY <1>6 DEF EvidenceInv, LoopOK, DecisionsOK, FailRun
  <2>. QED
    BY <2>1, <2>2, <2>3, <2>4, <2>5 DEF EvidenceInv
<1>7. CASE TakeOver
  <2>1. TypeOK'
    <3>1. <<>> \in Seq(Outcomes) /\ Len(<<>>) = 0
      OBVIOUS
    <3>. QED
      BY <1>7, <3>1 DEF EvidenceInv, TypeOK, TakeOver, row
  <2>2. RowsOK'
    BY <1>7 DEF EvidenceInv, RowsOK, TakeOver, row
  <2>3. LoopOK' /\ FirstAttemptOK'
    BY <1>7 DEF EvidenceInv, TypeOK, LoopOK, FirstAttemptOK, TakeOver, row, Cases
  <2>4. CompletedOK' /\ DecisionsOK'
    BY <1>7 DEF EvidenceInv, LoopOK, CompletedOK, DecisionsOK, TakeOver, row
  <2>. QED
    BY <2>1, <2>2, <2>3, <2>4 DEF EvidenceInv
<1>8. ASSUME NEW p \in Policies, EvaluateGate(p) PROVE EvidenceInv'
  <2>1. TypeOK'
    BY <1>8 DEF EvidenceInv, TypeOK, EvaluateGate, Decisions, locals
  <2>2. RowsOK' /\ LoopOK' /\ FirstAttemptOK'
    BY <1>8 DEF EvidenceInv, RowsOK, LoopOK, FirstAttemptOK, EvaluateGate, locals
  <2>3. \A q : Approves(q)' <=> Approves(q)
    BY <1>8 DEF EvaluateGate, Approves, PassRateLow, FlakyRateHigh, TooSlow, Blocking
  <2>4. CompletedOK'
    <3>1. P95(Cases)' = P95(Cases)
      BY <1>8 DEF EvaluateGate, P95, Ordered
    <3>. QED
      BY <1>8, <3>1 DEF EvidenceInv, CompletedOK, EvaluateGate
  <2>5. DecisionsOK'
    BY <1>8, <2>3 DEF EvidenceInv, DecisionsOK, EvaluateGate, Gateable
  <2>. QED
    BY <2>1, <2>2, <2>4, <2>5 DEF EvidenceInv
<1>9. CASE UNCHANGED vars
  <2>1. TypeOK' /\ RowsOK' /\ LoopOK' /\ FirstAttemptOK'
    BY <1>9 DEF EvidenceInv, TypeOK, RowsOK, LoopOK, FirstAttemptOK, vars, row, locals
  <2>2. P95(Cases)' = P95(Cases) /\ \A q : Approves(q)' <=> Approves(q)
    BY <1>9 DEF vars, row, P95, Ordered, Approves, PassRateLow, FlakyRateHigh, TooSlow, Blocking
  <2>3. CompletedOK' /\ DecisionsOK'
    BY <1>9, <2>2 DEF EvidenceInv, CompletedOK, DecisionsOK, vars, row
  <2>. QED
    BY <2>1, <2>3 DEF EvidenceInv
<1>. QED
  BY <1>1, <1>2, <1>3, <1>4, <1>5, <1>6, <1>7, <1>8, <1>9 DEF Next

LEMMA EvidenceInvariant == Spec => []EvidenceInv
  BY InitEvidenceInv, NextEvidenceInv, PTL DEF Spec

-----------------------------------------------------------------------------
(* The theorems.                                                           *)

\* The rows and locals of a run keep their types; above all p95 is a number
\* whatever cases it was computed from.
THEOREM EvidenceTypeCorrect == Spec => []TypeOK
<1>1. EvidenceInv => TypeOK
  BY DEF EvidenceInv
<1>. QED
  BY <1>1, EvidenceInvariant, PTL

\* A recorded verdict is what all repeats of the case say together, for any
\* number of repeats and after any number of attempts that died.
THEOREM VerdictsAreHonest == Spec => []VerdictsHonest
<1>1. EvidenceInv => VerdictsHonest
  BY DEF EvidenceInv, RowsOK, VerdictsHonest, Honest, Recorded
<1>. QED
  BY <1>1, EvidenceInvariant, PTL

\* What the counts of a completed run say of the replays.
LEMMA CountsCoverReplays ==
    ASSUME EvidenceInv, status = "completed"
    PROVE  LET P == Cardinality({c \in Cases : AllPassedAlike(replays[c])})
               D == Cardinality({c \in Cases : Disagree(replays[c]) /\ ~SomeRaised(replays[c])})
           IN  /\ P \in Nat /\ D \in Nat
               /\ aggregate.passed \in Nat /\ aggregate.passed <= P
               /\ aggregate.flaky \in Nat /\ D <= aggregate.flaky
               /\ aggregate.total = NumCases
<1>. DEFINE PS == {c \in Cases : AllPassedAlike(replays[c])}
            DS == {c \in Cases : Disagree(replays[c]) /\ ~SomeRaised(replays[c])}
            passed == {c \in Cases : verdict[c] = "passed"}
            flaky == {c \in Cases : verdict[c] = "flaky"}
<1>1. \A c \in Cases : verdict[c] \in Recorded /\ Honest(verdict[c], replays[c])
  BY DEF EvidenceInv, RowsOK, CompletedOK
<1>2. passed \in SUBSET PS /\ PS \in SUBSET Cases
  BY <1>1 DEF Honest
<1>3. ASSUME NEW t \in Seq(Outcomes), AllPassedAlike(t) \/ AllFailedAlike(t)
      PROVE  ~Disagree(t)
  <2>1. \A i, j \in DOMAIN t : t[i].output = t[j].output
    BY <1>3 DEF AllPassedAlike, AllFailedAlike
  <2>2. \A i \in DOMAIN t : t[i] \in Outcomes /\ t[i].passed \in BOOLEAN
    BY OutcomeType
  <2>3. (\A i \in DOMAIN t : t[i].passed) \/ (\A i \in DOMAIN t : ~t[i].passed)
    BY <1>3 DEF AllPassedAlike, AllFailedAlike
  <2>. QED
    BY <2>1, <2>2, <2>3 DEF Disagree
<1>4. DS \in SUBSET flaky /\ flaky \in SUBSET Cases
  <2>1. SUFFICES ASSUME NEW c \in DS PROVE verdict[c] = "flaky"
    OBVIOUS
  <2>2. replays[c] \in Seq(Outcomes)
    BY DEF EvidenceInv, TypeOK
  <2>. QED
    BY <1>1, <1>3, <2>2 DEF Honest, Recorded
<1>5. /\ Cardinality(PS) \in Nat /\ Cardinality(DS) \in Nat
      /\ Cardinality(passed) \in Nat /\ Cardinality(flaky) \in Nat
      /\ Cardinality(passed) <= Cardinality(PS)
      /\ Cardinality(DS) <= Cardinality(flaky)
  BY <1>2, <1>4, CasesFinite
<1>. QED
  BY <1>5 DEF EvidenceInv, CompletedOK

\* An approval is earned by the replays: the counts behind the rates cannot
\* be better than the replays were.
THEOREM ApprovalsAreEarned == Spec => []ApprovalEarned
<1>1. EvidenceInv => ApprovalEarned
  <2>1. SUFFICES ASSUME EvidenceInv, NEW d \in decisions, d.decision = "approved"
                 PROVE
        /\ 100 * Cardinality({c \in Cases : AllPassedAlike(replays[c])})
             >= d.policy.minPass * NumCases
        /\ 100 * Cardinality({c \in Cases : Disagree(replays[c]) /\ ~SomeRaised(replays[c])})
             <= d.policy.maxFlaky * NumCases
    BY DEF ApprovalEarned
  <2>. DEFINE P == Cardinality({c \in Cases : AllPassedAlike(replays[c])})
              D == Cardinality({c \in Cases : Disagree(replays[c]) /\ ~SomeRaised(replays[c])})
  <2>2. /\ P \in Nat /\ D \in Nat
        /\ aggregate.passed \in Nat /\ aggregate.passed <= P
        /\ aggregate.flaky \in Nat /\ D <= aggregate.flaky
        /\ aggregate.total = NumCases
    BY <2>1, CountsCoverReplays DEF EvidenceInv, DecisionsOK
  <2>3. ~PassRateLow(d.policy) /\ ~FlakyRateHigh(d.policy)
    BY <2>1 DEF EvidenceInv, DecisionsOK, Approves
  <2>4. d.policy.minPass \in Nat /\ d.policy.maxFlaky \in Nat
    <3>1. d \in Decisions
      BY <2>1 DEF EvidenceInv, TypeOK
    <3>2. d.policy \in AllPolicies
      BY <3>1, EvidenceConstantsOK DEF Decisions
    <3>. QED
      BY <3>2 DEF AllPolicies
  <2>5. NumCases \in Nat
    BY EvidenceConstantsOK
  <2>6. /\ ~(100 * aggregate.passed < d.policy.minPass * NumCases)
        /\ ~(100 * aggregate.flaky > d.policy.maxFlaky * NumCases)
    BY <2>2, <2>3 DEF PassRateLow, FlakyRateHigh
  <2>7. d.policy.minPass * NumCases \in Nat /\ d.policy.maxFlaky * NumCases \in Nat
    BY <2>4, <2>5
  <2>. HIDE DEF P, D
  <2>8. 100 * P >= d.policy.minPass * NumCases /\ 100 * D <= d.policy.maxFlaky * NumCases
    BY <2>2, <2>6, <2>7
  <2>. QED
    BY <2>8 DEF P, D
<1>. QED
  BY <1>1, EvidenceInvariant, PTL

\* A policy that blocks on a label of a replay that raised does not approve a
\* run in which one did.
THEOREM RaisedReplaysBlock == Spec => []RaisedReplayBlocks
<1>1. EvidenceInv => RaisedReplayBlocks
  <2>1. SUFFICES ASSUME EvidenceInv, NEW d \in decisions, d.decision = "approved",
                        d.policy.blockOn \cap ErrorLabels # {},
                        NEW c \in Cases, SomeRaised(replays[c])
                 PROVE  FALSE
    BY DEF RaisedReplayBlocks
  <2>2. evidence[c] = ErrorLabels
    BY <2>1 DEF EvidenceInv, DecisionsOK, CompletedOK, RowsOK
  <2>3. Blocking(d.policy) = {}
    BY <2>1 DEF EvidenceInv, DecisionsOK, Approves
  <2>. QED
    BY <2>1, <2>2, <2>3 DEF Blocking
<1>. QED
  BY <1>1, EvidenceInvariant, PTL

LEMMA ProductGrows ==
    ASSUME NEW a \in Nat, NEW b \in Nat, a <= b, NEW n \in Nat
    PROVE  a * n \in Nat /\ b * n \in Nat /\ a * n <= b * n
<1>1. b - a \in Nat /\ (b - a) * n \in Nat
  OBVIOUS
<1>2. b * n = a * n + (b - a) * n
  OBVIOUS
<1>. QED
  BY <1>1, <1>2

\* A policy that approves a run would have, had it been laxer.
LEMMA LaxerApproves ==
    ASSUME TypeOK, NEW p \in Policies, NEW q \in Policies, AsStrict(p, q), Approves(p)
    PROVE  Approves(q)
<1>1. /\ aggregate.passed \in Nat /\ aggregate.flaky \in Nat
      /\ aggregate.total \in Nat /\ aggregate.p95 \in Nat
  BY DEF TypeOK, Aggregates
<1>2. /\ p.minPass \in Nat /\ p.maxFlaky \in Nat /\ p.maxP95 \in Nat \cup {NoLimit}
      /\ q.minPass \in Nat /\ q.maxFlaky \in Nat /\ q.maxP95 \in Nat \cup {NoLimit}
  BY EvidenceConstantsOK DEF AllPolicies
<1>3. /\ q.minPass <= p.minPass /\ p.maxFlaky <= q.maxFlaky
      /\ q.maxP95 # NoLimit => p.maxP95 # NoLimit /\ p.maxP95 <= q.maxP95
      /\ q.blockOn \subseteq p.blockOn
  BY <1>2 DEF AsStrict
<1>4. ~PassRateLow(q)
  <2>1. /\ q.minPass * aggregate.total \in Nat /\ p.minPass * aggregate.total \in Nat
        /\ q.minPass * aggregate.total <= p.minPass * aggregate.total
    BY <1>1, <1>2, <1>3, ProductGrows
  <2>2. /\ ~(100 * aggregate.passed < p.minPass * aggregate.total)
        /\ ~(aggregate.total = 0 /\ p.minPass > 0)
    BY DEF Approves, PassRateLow
  <2>3. ~(100 * aggregate.passed < q.minPass * aggregate.total)
    BY <1>1, <2>1, <2>2
  <2>4. ~(aggregate.total = 0 /\ q.minPass > 0)
    BY <1>2, <1>3, <2>2
  <2>. QED
    BY <2>3, <2>4 DEF PassRateLow
<1>5. ~FlakyRateHigh(q)
  <2>1. /\ p.maxFlaky * aggregate.total \in Nat /\ q.maxFlaky * aggregate.total \in Nat
        /\ p.maxFlaky * aggregate.total <= q.maxFlaky * aggregate.total
    BY <1>1, <1>2, <1>3, ProductGrows
  <2>2. ~(100 * aggregate.flaky > p.maxFlaky * aggregate.total)
    BY DEF Approves, FlakyRateHigh
  <2>. QED
    BY <1>1, <2>1, <2>2 DEF FlakyRateHigh
<1>6. ~TooSlow(q)
  BY <1>1, <1>2, <1>3 DEF Approves, TooSlow
<1>7. Blocking(q) = {}
  BY <1>3 DEF Approves, Blocking
<1>. QED
  BY <1>4, <1>5, <1>6, <1>7 DEF Approves

\* What a policy blocks no policy as strict approves, whenever they are asked:
\* a decision is what the policy makes of a run that stays as it is, and no
\* criterion of evaluate_gate_policy turns round when its threshold is raised.
THEOREM StricterPoliciesBlock == Spec => []StricterPolicyBlocks
<1>1. EvidenceInv => StricterPolicyBlocks
  <2>1. SUFFICES ASSUME EvidenceInv, NEW d \in decisions, NEW e \in decisions,
                        d.decision = "blocked", AsStrict(e.policy, d.policy),
                        e.decision # "blocked"
                 PROVE  FALSE
    BY DEF StricterPolicyBlocks
  <2>2. /\ d.policy \in Policies /\ e.policy \in Policies
        /\ e.decision \in {"approved", "blocked"}
    <3>1. d \in Decisions /\ e \in Decisions
      BY <2>1 DEF EvidenceInv, TypeOK
    <3>. QED
      BY <3>1 DEF Decisions
  <2>3. Approves(e.policy) /\ ~Approves(d.policy)
    BY <2>1, <2>2 DEF EvidenceInv, DecisionsOK
  <2>. QED
    BY <2>1, <2>2, <2>3, LaxerApproves DEF EvidenceInv
<1>. QED
  BY <1>1, EvidenceInvariant, PTL

\* The aggregate of a run agrees with its cases wherever there is one, of a
\* failed run too (execute_run makes it after the loop only, and no attempt
\* follows one that made it).
THEOREM AggregatesAgree == Spec => []AggregateAgrees
<1>1. EvidenceInv => AggregateAgrees
  BY DEF EvidenceInv, CompletedOK, AggregateAgrees, Recorded
<1>. QED
  BY <1>1, EvidenceInvariant, PTL

\* In a run no attempt of which has died the p95 limit bites exactly when more
\* than one case in twenty is slower, for any number of cases.
THEOREM LatencyLimitIsExact == Spec => []LatencyLimitExact
<1>1. EvidenceInv => LatencyLimitExact
  <2>1. SUFFICES ASSUME EvidenceInv, status = "completed", crashes = 0, NumCases > 0,
                        NEW p \in Policies, p.maxP95 # NoLimit
                 PROVE  TooSlow(p) <=>
                          20 * Cardinality({c \in Cases : latency[c] > p.maxP95}) > NumCases
    BY DEF LatencyLimitExact
  <2>2. p.maxP95 \in Nat
    BY <2>1, EvidenceConstantsOK DEF AllPolicies
  <2>3. aggregate.p95 = P95(Cases) /\ latency \in [Cases -> Nat]
    BY <2>1 DEF EvidenceInv, TypeOK, CompletedOK
  <2>. QED
    BY <2>1, <2>2, <2>3, P95Exact DEF TooSlow
<1>. QED
  BY <1>1, EvidenceInvariant, PTL

=============================================================================
