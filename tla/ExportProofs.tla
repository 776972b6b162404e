---------------------------- MODULE ExportProofs ----------------------------
(***************************************************************************)
(* Theorems about OtlpExport, for any exports of any number of spans, and  *)
(* whatever else is posted at the same time.                               *)
(***************************************************************************)
EXTENDS OtlpExport, TraceRecordProofs

-----------------------------------------------------------------------------
(* The request that is made of an export.                                  *)

EventOf(x, i) == SpanEvent(x.spans[i], x.now, x.key)

\* The events of the spans that can be named, among the first n.
Named(x, n) == {EventOf(x, i) : i \in {j \in 1 .. n : HasIds(x.spans[j])}}

Loop(x, n, g) ==
    g = [i \in 0 .. n |->
            IF i = 0 THEN <<>>
            ELSE IF HasIds(x.spans[i]) THEN Append(g[i - 1], EventOf(x, i)) ELSE g[i - 1]]

\* The loop of otlp_json_to_events goes through all of its spans.
LEMMA LoopExists ==
    ASSUME NEW x \in Exports, NEW n \in 0 .. Len(x.spans)
    PROVE  \E g : Loop(x, n, g)
<1>0. x.spans \in Seq(Spans)
  BY ExportsOK
<1>. DEFINE T == {k \in 0 .. Len(x.spans) : ~ \E g : Loop(x, k, g)}
<1>1. SUFFICES T = {}
  OBVIOUS
<1>. SUFFICES ASSUME T # {}
              PROVE  FALSE
  OBVIOUS
<1>2. PICK m \in T : \A k \in T : m <= k
  <2>1. T \subseteq Nat
    OBVIOUS
  <2>. HIDE DEF T
  <2>. QED
    BY <2>1, LeastNumber
<1>3. m # 0
  <2>. DEFINE g == [i \in 0 .. 0 |-> <<>>]
  <2>1. Loop(x, 0, g)
    BY DEF Loop
  <2>. QED
    BY <2>1
<1>4. m - 1 \in 0 .. Len(x.spans) /\ m - 1 \notin T /\ m \in Nat
  BY <1>0, <1>2, <1>3
<1>5. PICK g : Loop(x, m - 1, g)
  BY <1>4
<1>. DEFINE Then(f, i) == IF HasIds(x.spans[i]) THEN Append(f, EventOf(x, i)) ELSE f
<1>6. \A f, k : Loop(x, k, f) <=> f = [i \in 0 .. k |-> IF i = 0 THEN <<>> ELSE Then(f[i - 1], i)]
  BY DEF Loop
<1>. HIDE DEF Then
<1>. DEFINE h == [i \in 0 .. m |-> IF i = m THEN Then(g[m - 1], m) ELSE g[i]]
<1>7. ASSUME NEW i \in 0 .. m
      PROVE  h[i] = IF i = 0 THEN <<>> ELSE Then(h[i - 1], i)
  <2>1. \A j \in 0 .. m - 1 : h[j] = g[j] /\ g[j] = IF j = 0 THEN <<>> ELSE Then(g[j - 1], j)
    <3>1. \A j \in 0 .. m - 1 : j \in 0 .. m /\ j # m
      BY <1>4
    <3>2. \A j \in 0 .. m - 1 : h[j] = g[j]
      BY <3>1
    <3>. HIDE DEF h
    <3>3. \A j \in 0 .. m - 1 : g[j] = IF j = 0 THEN <<>> ELSE Then(g[j - 1], j)
      BY <1>5, <1>6
    <3>. QED
      BY <3>2, <3>3
  <2>2. CASE i = m
    <3>1. i # 0 /\ i - 1 \in 0 .. m - 1 /\ h[i] = Then(g[m - 1], m)
      BY <1>3, <1>4, <2>2
    <3>2. h[i - 1] = g[m - 1]
      BY <2>1, <2>2, <3>1
    <3>. QED
      BY <2>2, <3>1, <3>2
  <2>3. CASE i # m
    <3>1. i \in 0 .. m - 1 /\ (i # 0 => i - 1 \in 0 .. m - 1)
      BY <1>4, <2>3
    <3>. HIDE DEF h
    <3>. QED
      BY <2>1, <3>1
  <2>. QED
    BY <2>2, <2>3
<1>8. Loop(x, m, h)
  <2>1. h = [i \in 0 .. m |-> IF i = 0 THEN <<>> ELSE Then(h[i - 1], i)]
    BY <1>7
  <2>. QED
    BY <1>6, <2>1
<1>. QED
  BY <1>2, <1>8

\* The request of an export holds the event of each span that can be named, and
\* nothing else, however many spans there are and wherever the others are.
LEMMA RequestOfExport ==
    ASSUME NEW x \in Exports
    PROVE  ToSet(OtlpRequest(x)) = Named(x, Len(x.spans))
<1>0. x.spans \in Seq(Spans) /\ Len(x.spans) \in Nat
  BY ExportsOK
<1>. DEFINE g == CHOOSE f : Loop(x, Len(x.spans), f)
<1>1. OtlpRequest(x) = g[Len(x.spans)]
  BY DEF OtlpRequest, Loop, EventOf
<1>2. Loop(x, Len(x.spans), g)
  BY <1>0, LoopExists
<1>. HIDE DEF g
<1>. DEFINE Good(k) == g[k] \in Seq(Named(x, k)) /\ ToSet(g[k]) = Named(x, k)
            T == {k \in 0 .. Len(x.spans) : ~Good(k)}
<1>3. SUFFICES T = {}
  BY <1>0, <1>1
<1>. SUFFICES ASSUME T # {}
              PROVE  FALSE
  OBVIOUS
<1>4. PICK m \in T : \A k \in T : m <= k
  <2>1. T \subseteq Nat
    OBVIOUS
  <2>. HIDE DEF T
  <2>. QED
    BY <2>1, LeastNumber
<1>5. \A i \in 0 .. Len(x.spans) :
          g[i] = IF i = 0 THEN <<>>
                 ELSE IF HasIds(x.spans[i]) THEN Append(g[i - 1], EventOf(x, i)) ELSE g[i - 1]
  BY <1>2 DEF Loop
<1>6. m # 0
  <2>1. g[0] = <<>> /\ Named(x, 0) = {}
    BY <1>0, <1>5 DEF Named
  <2>2. Good(0)
    BY <2>1 DEF ToSet
  <2>. QED
    BY <2>2
<1>7. m - 1 \in 0 .. Len(x.spans) /\ m \in 1 .. Len(x.spans) /\ Good(m - 1)
  BY <1>0, <1>4, <1>6
<1>8. CASE HasIds(x.spans[m])
  <2>. DEFINE e == EventOf(x, m)
              s == g[m - 1]
              N == Named(x, m - 1)
  <2>1. g[m] = Append(s, e)
    BY <1>5, <1>6, <1>7, <1>8
  <2>2. Named(x, m) = N \cup {e}
    <3>1. {j \in 1 .. m : HasIds(x.spans[j])} = {j \in 1 .. m - 1 : HasIds(x.spans[j])} \cup {m}
      BY <1>7, <1>8
    <3>. QED
      BY <3>1 DEF Named
  <2>3. s \in Seq(N) /\ ToSet(s) = N
    BY <1>7
  <2>. HIDE DEF e, s, N
  <2>4. s \in Seq(N \cup {e})
    BY <2>3
  <2>5. Append(s, e) \in Seq(N \cup {e})
    BY <2>4
  <2>6. ToSet(Append(s, e)) = N \cup {e}
    <3>1. /\ DOMAIN Append(s, e) = 1 .. Len(s) + 1 /\ Append(s, e)[Len(s) + 1] = e
          /\ \A i \in 1 .. Len(s) : Append(s, e)[i] = s[i]
          /\ DOMAIN s = 1 .. Len(s) /\ Len(s) \in Nat
      BY <2>4
    <3>2. \A i \in 1 .. Len(s) + 1 : i \in 1 .. Len(s) \/ i = Len(s) + 1
      BY <3>1
    <3>3. 1 .. Len(s) \subseteq 1 .. Len(s) + 1 /\ Len(s) + 1 \in 1 .. Len(s) + 1
      BY <3>1
    <3>. QED
      BY <2>3, <3>1, <3>2, <3>3 DEF ToSet
  <2>7. Good(m)
    BY <2>1, <2>2, <2>5, <2>6
  <2>. QED
    BY <2>7
<1>9. CASE ~HasIds(x.spans[m])
  <2>1. g[m] = g[m - 1]
    BY <1>5, <1>6, <1>7, <1>9
  <2>2. {j \in 1 .. m : HasIds(x.spans[j])} = {j \in 1 .. m - 1 : HasIds(x.spans[j])}
    BY <1>7, <1>9
  <2>3. Named(x, m) = Named(x, m - 1)
    BY <2>2 DEF Named
  <2>4. Good(m)
    BY <1>7, <2>1, <2>3
  <2>. QED
    BY <2>4
<1>. QED
  BY <1>8, <1>9

\* The event of a named span is among those of its request.
LEMMA SpanIsTold ==
    ASSUME NEW x \in Exports, NEW i \in DOMAIN x.spans, HasIds(x.spans[i])
    PROVE  EventOf(x, i) \in ToSet(OtlpRequest(x))
<1>1. i \in 1 .. Len(x.spans)
  BY ExportsOK
<1>. QED
  BY <1>1, RequestOfExport DEF Named

-----------------------------------------------------------------------------
(* Where steps come from: no step is stored, or on its way in a session, of *)
(* which no acknowledged or handled message tells; and a message that the   *)
(* key does not reach is never handled.                                     *)

Traced(A, row, t) == \A id \in StepIdsOf(row) : \E m \in A : m.of = t /\ id \in StepsTold(m)

\* x is the record of a session, A what is acknowledged.
SessionTraced(x, A) ==
    /\ \A t \in Traces : /\ x.view[t] # None => Traced(A \cup Prefix(x), x.view[t], t)
                         /\ x.rows[t] # None => Traced(A \cup Prefix(x), x.rows[t], t)
    /\ \A m \in Prefix(x) : m.reached
    /\ x.pc = "write" => x.batch[x.next].reached

StoredTraced(st, A) ==
    /\ \A t \in Traces : st[t] # None => Traced(A, st[t], t)
    /\ \A m \in A : m.reached

TracedInv ==
    StoredTraced(stored, acked) /\ \A s \in Sessions : SessionTraced(txn[s], acked)

LEMMA TracedByMore ==
    ASSUME NEW A, NEW B, A \subseteq B
    PROVE  /\ \A row, t : Traced(A, row, t) => Traced(B, row, t)
           /\ \A x : SessionTraced(x, A) => SessionTraced(x, B)
<1>1. \A row, t : Traced(A, row, t) => Traced(B, row, t)
  BY DEF Traced
<1>2. ASSUME NEW x, SessionTraced(x, A)
      PROVE  SessionTraced(x, B)
  <2>1. \A row, t : Traced(A \cup Prefix(x), row, t) => Traced(B \cup Prefix(x), row, t)
    BY DEF Traced
  <2>. QED
    BY <1>2, <2>1 DEF SessionTraced
<1>. QED
  BY <1>1, <1>2

\* Between requests, and at the beginning of one.
LEMMA TracedAtStart ==
    ASSUME NEW x \in SessionType, NEW A, x.next = 1, x.view = NoRows, x.rows = NoRows,
           x.pc # "write"
    PROVE  SessionTraced(x, A)
<1>1. Prefix(x) = {}
  BY DEF Prefix, SessionType
<1>. QED
  BY <1>1 DEF SessionTraced, NoRows

LEMMA LookupTraces ==
    ASSUME Ground, TracedInv, NEW s \in Sessions, Lookup(s)
    PROVE  SessionTraced(txn'[s], acked)
<1>. DEFINE x == txn[s]
            y == txn'[s]
            t == Current(s).of
<1>1. x \in SessionType /\ SessionTraced(x, acked) /\ t \in Traces
  BY LookupStep, CurrentType
     DEF Ground, TypeInv, IngestionTypeOK, SessionType, TracedInv
<1>2. /\ x.pc = "lookup" /\ y.batch = x.batch /\ y.next = x.next /\ y.rows = x.rows
      /\ y.view = [x.view EXCEPT ![t] = Visible(s, t)]
  BY LookupStep DEF Ground
<1>3. Prefix(y) = Prefix(x)
  BY <1>2 DEF Prefix
<1>4. y.batch[y.next].reached
  BY <1>2 DEF Lookup, Current
<1>5. Visible(s, t) # None => Traced(acked \cup Prefix(x), Visible(s, t), t)
  <2>1. CASE x.view[t] # None
    BY <1>1, <2>1 DEF Visible, SessionTraced
  <2>2. CASE x.view[t] = None
    <3>1. stored[t] # None => Traced(acked, stored[t], t)
      BY <1>1 DEF TracedInv, StoredTraced
    <3>2. acked \subseteq acked \cup Prefix(x)
      OBVIOUS
    <3>. QED
      BY <2>2, <3>1, <3>2, TracedByMore DEF Visible
  <2>. QED
    BY <2>1, <2>2
<1>6. \A u \in Traces : y.view[u] = IF u = t THEN Visible(s, t) ELSE x.view[u]
  BY <1>1, <1>2 DEF SessionType
<1>. HIDE DEF x, y, t
<1>. QED
  BY <1>1, <1>2, <1>3, <1>4, <1>5, <1>6 DEF SessionTraced, y

LEMMA AbsorbTraces ==
    ASSUME Ground, TracedInv, NEW s \in Sessions, Absorb(s)
    PROVE  SessionTraced(txn'[s], acked)
<1>. DEFINE x == txn[s]
            y == txn'[s]
<1>1. /\ x \in SessionType /\ y \in SessionType /\ SessionTraced(x, acked)
      /\ x.next \in DOMAIN x.batch
  BY AbsorbStep, CurrentType
     DEF Ground, TypeInv, IngestionTypeOK, SessionType, TracedInv
<1>2. /\ x.pc = "write" /\ y.pc # "write" /\ y.batch = x.batch /\ y.next = x.next + 1
      /\ y.rows = x.rows /\ y.view = x.view
  BY AbsorbStep DEF Ground
<1>3. Prefix(y) = Prefix(x) \cup {x.batch[x.next]}
  BY <1>1, <1>2, PrefixGrows
<1>4. \A row, u : Traced(acked \cup Prefix(x), row, u) => Traced(acked \cup Prefix(y), row, u)
  BY <1>3 DEF Traced
<1>. HIDE DEF x, y
<1>. QED
  BY <1>1, <1>2, <1>3, <1>4 DEF SessionTraced, y

\* The steps of a row that is written are those of the copy and of the message.
LEMMA WrittenTraced ==
    ASSUME Ground, TracedInv, NEW s \in Sessions, txn[s].pc = "write", ~Absorbed(s)
    PROVE  \A id \in StepIdsOf(Written(s)) :
               \/ id \in StepsTold(Current(s))
               \/ Copy(s) # None /\ id \in StepIdsOf(Copy(s))
<1>. DEFINE m == Current(s)
<1>1. m \in Messages /\ (m.kind = "event" \/ m.kind = "trace")
  BY CurrentType, MessageTypes DEF Ground
<1>2. CASE m.kind = "trace"
  BY <1>2, WrittenRow DEF Ground, StepIdsOf, StepsTold
<1>3. CASE m.kind = "event"
  <2>1. PICK r \in Rows :
            /\ IF Copy(s) = None THEN r.steps = <<>> ELSE r = Copy(s)
            /\ Written(s).steps = IF m.type = "step" THEN Stepped(r, m).steps ELSE r.steps
    BY <1>3, WrittenRow DEF Ground
  <2>2. \A id \in StepIdsOf(r) : Copy(s) # None /\ id \in StepIdsOf(Copy(s))
    BY <2>1 DEF StepIdsOf
  <2>3. CASE Written(s).steps = r.steps
    BY <2>2, <2>3 DEF StepIdsOf
  <2>4. CASE Written(s).steps = Append(r.steps, EventStep(m))
    <3>1. r.steps \in Seq(StepRecords)
      BY DEF Rows
    <3>2. /\ DOMAIN Written(s).steps = 1 .. Len(r.steps) + 1
          /\ Written(s).steps[Len(r.steps) + 1] = EventStep(m)
          /\ \A i \in 1 .. Len(r.steps) : Written(s).steps[i] = r.steps[i]
      BY <2>4, <3>1
    <3>3. \A i \in DOMAIN Written(s).steps : i \in DOMAIN r.steps \/ i = Len(r.steps) + 1
      BY <3>1, <3>2
    <3>4. EventStep(m).id \in StepsTold(m)
      BY <1>3 DEF EventStep, StepsTold
    <3>5. DOMAIN r.steps = 1 .. Len(r.steps)
      BY <3>1
    <3>. QED
      BY <2>2, <3>2, <3>3, <3>4, <3>5 DEF StepIdsOf
  <2>5. Stepped(r, m).steps \in {r.steps, Append(r.steps, EventStep(m))}
    BY DEF Stepped, Rows
  <2>. QED
    BY <2>1, <2>3, <2>4, <2>5
<1>. QED
  BY <1>1, <1>2, <1>3

LEMMA FlushTraces ==
    ASSUME Ground, TracedInv, NEW s \in Sessions, Flush(s)
    PROVE  SessionTraced(txn'[s], acked)
<1>. DEFINE x == txn[s]
            y == txn'[s]
            m == Current(s)
            t == m.of
            A == acked \cup Prefix(x)
            B == acked \cup Prefix(y)
<1>1. /\ x \in SessionType /\ y \in SessionType /\ SessionTraced(x, acked)
      /\ x.next \in DOMAIN x.batch /\ x.batch[x.next] = m /\ t \in Traces
  BY FlushStep, CurrentType
     DEF Ground, TypeInv, IngestionTypeOK, SessionType, TracedInv, Current
<1>2. /\ x.pc = "write" /\ ~Absorbed(s) /\ y.pc # "write"
      /\ y.batch = x.batch /\ y.next = x.next + 1
      /\ y.view = [x.view EXCEPT ![t] = Written(s)]
      /\ y.rows = [x.rows EXCEPT ![t] = NewRow(s)]
  BY FlushStep DEF Ground
<1>3. Prefix(y) = Prefix(x) \cup {m}
  BY <1>1, <1>2, PrefixGrows
<1>4. \A u \in Traces : /\ y.view[u] = IF u = t THEN Written(s) ELSE x.view[u]
                        /\ y.rows[u] = IF u = t THEN NewRow(s) ELSE x.rows[u]
  BY <1>1, <1>2 DEF SessionType
<1>5. \A row, u : Traced(A, row, u) => Traced(B, row, u)
  BY <1>3 DEF Traced
<1>6. Traced(B, Written(s), t)
  <2>1. Copy(s) # None => Traced(A, Copy(s), t)
    BY <1>1 DEF Copy, SessionTraced
  <2>2. \A id \in StepIdsOf(Written(s)) :
            \/ id \in StepsTold(m)
            \/ Copy(s) # None /\ id \in StepIdsOf(Copy(s))
    BY <1>2, WrittenTraced
  <2>. QED
    BY <1>3, <2>1, <2>2 DEF Traced
<1>7. Traced(B, NewRow(s), t)
  <2>1. CASE NewRow(s).steps = Written(s).steps
    BY <1>6, <2>1 DEF Traced, StepIdsOf
  <2>2. CASE Copy(s) # None /\ NewRow(s).steps = Base(s, t).steps
    <3>1. Base(s, t) # None
      BY <1>1, <2>2 DEF Ground, Copied, Copy
    <3>2. CASE x.rows[t] # None
      <4>1. Traced(A, Base(s, t), t)
        BY <1>1, <3>2 DEF Base, SessionTraced
      <4>2. Traced(B, Base(s, t), t)
        BY <1>5, <4>1
      <4>. HIDE DEF A, B
      <4>. QED
        BY <2>2, <4>2 DEF Traced, StepIdsOf
    <3>3. CASE x.rows[t] = None
      <4>1. Base(s, t) = stored[t]
        BY <3>3 DEF Base
      <4>2. Traced(acked, stored[t], t)
        BY <1>1, <3>1, <4>1 DEF TracedInv, StoredTraced
      <4>. QED
        BY <2>2, <4>1, <4>2 DEF Traced, StepIdsOf
    <3>. QED
      BY <3>2, <3>3
  <2>. QED
    BY <1>2, <2>1, <2>2, FlushedRow DEF Ground
<1>8. m.reached
  BY <1>1, <1>2 DEF SessionTraced
<1>. HIDE DEF x, y, m, t, A, B
<1>. QED
  BY <1>1, <1>2, <1>3, <1>4, <1>5, <1>6, <1>7, <1>8 DEF SessionTraced, A, B, y

LEMMA CommitTraces ==
    ASSUME Ground, TracedInv, NEW s \in Sessions, Commit(s)
    PROVE  StoredTraced(stored', acked')
<1>1. /\ acked' = acked \cup Prefix(txn[s])
      /\ \A t \in Traces : stored'[t] = Base(s, t)
  BY CommitPrefix, CommitStep DEF Ground
<1>2. SessionTraced(txn[s], acked)
  BY DEF TracedInv
<1>3. ASSUME NEW t \in Traces, stored'[t] # None
      PROVE  Traced(acked', stored'[t], t)
  <2>1. CASE txn[s].rows[t] # None
    BY <1>1, <1>2, <2>1 DEF Base, SessionTraced
  <2>2. CASE txn[s].rows[t] = None
    <3>1. stored'[t] = stored[t]
      BY <1>1, <2>2 DEF Base
    <3>2. Traced(acked, stored[t], t) /\ acked \subseteq acked'
      BY <1>1, <1>3, <3>1 DEF TracedInv, StoredTraced
    <3>. QED
      BY <3>1, <3>2, TracedByMore
  <2>. QED
    BY <2>1, <2>2
<1>4. \A m \in acked' : m.reached
  BY <1>1, <1>2 DEF TracedInv, StoredTraced, SessionTraced
<1>. QED
  BY <1>3, <1>4 DEF StoredTraced

LEMMA TracedPreserved ==
    ASSUME Ground, TracedInv, NEW s \in Sessions, Moved(s)
    PROVE  TracedInv'
<1>1. acked \subseteq acked'
  BY OthersStay, CommitPrefix
<1>2. StoredTraced(stored', acked')
  <2>1. CASE ~Commit(s)
    BY <2>1, OthersStay DEF TracedInv
  <2>. QED
    BY <2>1, CommitTraces
<1>3. SessionTraced(txn'[s], acked)
  <2>1. CASE \E batch \in Requests : Submit(s, batch)
    BY <2>1, SubmitStep, TracedAtStart DEF Ground
  <2>2. CASE Reject(s) \/ BreakDeadlock(s) \/ Die(s) \/ Release(s) \/ Commit(s)
    <3>1. /\ txn'[s].view = NoRows /\ txn'[s].rows = NoRows
          /\ txn'[s].pc \in {"ok", "idle", "failed"}
      BY <2>2, NothingHeld DEF Ground
    <3>2. txn'[s] \in SessionType /\ Placed(txn'[s])
      BY SessionsMove DEF Ground, Moved
    <3>3. txn'[s].next = 1
      BY <3>1, <3>2 DEF Placed, Working
    <3>. QED
      BY <3>1, <3>2, <3>3, TracedAtStart
  <2>. QED
    BY <2>1, <2>2, LookupTraces, AbsorbTraces, FlushTraces DEF Moved, SessionStep
<1>4. \A r \in Sessions : SessionTraced(txn'[r], acked)
  BY <1>3, OthersStay DEF TracedInv
<1>5. \A r \in Sessions : SessionTraced(txn'[r], acked')
  BY <1>1, <1>4, TracedByMore
<1>. QED
  BY <1>2, <1>5 DEF TracedInv

LEMMA TracedInvariant == IngestionSpec => []TracedInv
<1>1. IngestionInit => TracedInv
  <2>. SUFFICES ASSUME IngestionInit
                PROVE  TracedInv
    OBVIOUS
  <2>1. \A s \in Sessions : txn[s] = IdleSession
    BY DEF IngestionInit
  <2>2. SessionTraced(IdleSession, {})
    <3>1. Prefix(IdleSession) = {}
      BY DEF Prefix, IdleSession
    <3>. QED
      BY <3>1 DEF SessionTraced, IdleSession, NoRows
  <2>3. StoredTraced(stored, acked) /\ acked = {}
    BY DEF IngestionInit, StoredTraced, NoRows
  <2>. QED
    BY <2>1, <2>2, <2>3 DEF TracedInv
<1>2. Ground /\ TracedInv /\ [IngestionNext]_ingestionVars => TracedInv'
  <2>1. ASSUME TracedInv, UNCHANGED ingestionVars
        PROVE  TracedInv'
    BY <2>1 DEF TracedInv, ingestionVars
  <2>. QED
    BY <2>1, TracedPreserved DEF IngestionNext, Moved
<1>. QED
  BY <1>1, <1>2, RecordInvariant, PTL DEF IngestionSpec

-----------------------------------------------------------------------------
(* The theorems.                                                           *)

\* An export is taken as a whole or not at all: with AckedStepsAreKept, because its
\* request has the event of each of its spans; and because a request that its key
\* does not fully reach is rolled back whatever it has flushed
\* (otlp_json_to_events, _ingest_otlp_json).
THEOREM ExportsAreWhole == IngestionSpec => []ExportIsWhole
<1>1. ASSUME AckedStepsKept, TracedInv
      PROVE  ExportIsWhole
  <2>1. ASSUME NEW x \in Exports, ToSet(OtlpRequest(x)) \subseteq acked,
               NEW i \in DOMAIN x.spans, HasIds(x.spans[i])
        PROVE  LET span == x.spans[i]
                   of == TraceOf(span, x.key)
               IN  /\ x.key \in {Everywhere, of.project}
                   /\ of \notin stale /\ IdOfOneTrace(OtelId[span.id], of) =>
                          stored[of] # None /\ OtelId[span.id] \in StepIdsOf(stored[of])
    <3>. DEFINE e == EventOf(x, i)
                of == TraceOf(x.spans[i], x.key)
    <3>1. /\ e.kind = "event" /\ e.type = "step" /\ e.of = of
          /\ e.id = OtelId[x.spans[i].id]
          /\ e.reached = (x.key \in {Everywhere, of.project})
      BY DEF EventOf, SpanEvent, SpanEventId, TraceOf
    <3>2. e \in acked
      BY <2>1, SpanIsTold
    <3>3. e.reached
      BY <1>1, <3>2 DEF TracedInv, StoredTraced
    <3>. HIDE DEF e
    <3>4. ASSUME of \notin stale, IdOfOneTrace(OtelId[x.spans[i].id], of)
          PROVE  stored[of] # None /\ OtelId[x.spans[i].id] \in StepIdsOf(stored[of])
      <4>1. OwnId(e)
        <5>. SUFFICES ASSUME NEW m \in acked, m.kind = "event", KeyOf(m) = KeyOf(e)
                      PROVE  m.of = e.of /\ m.type = e.type
          BY DEF OwnId
        <5>1. m.of.project = e.of.project /\ m.id = e.id
          BY <3>1 DEF KeyOf
        <5>. QED
          BY <3>1, <3>4, <5>1 DEF IdOfOneTrace
      <4>. QED
        BY <1>1, <3>1, <3>2, <3>4, <4>1 DEF AckedStepsKept
    <3>. QED
      BY <3>1, <3>3, <3>4
  <2>2. \A t \in Traces : stored[t] # None =>
           \A id \in StepIdsOf(stored[t]) : \E m \in acked : m.of = t /\ id \in StepsTold(m)
    BY <1>1 DEF TracedInv, StoredTraced, Traced
  <2>. QED
    BY <2>1, <2>2 DEF ExportIsWhole
<1>. QED
  BY <1>1, AckedStepsAreKept, TracedInvariant, PTL

\* The messages that requests consist of.
Sendable == UNION {ToSet(batch) : batch \in Requests}

\* What is acknowledged was sent.
LEMMA AckedWasSent == IngestionSpec => [](acked \subseteq Sendable)
<1>1. IngestionInit => acked \subseteq Sendable
  BY DEF IngestionInit
<1>2. TypeInv /\ acked \subseteq Sendable /\ [IngestionNext]_ingestionVars
        => (acked \subseteq Sendable)'
  <2>. SUFFICES ASSUME TypeInv, acked \subseteq Sendable, [IngestionNext]_ingestionVars
                PROVE  acked' \subseteq Sendable
    BY DEF Sendable
  <2>1. ASSUME NEW s \in Sessions, Commit(s)
        PROVE  acked' \subseteq Sendable
    <3>1. txn[s].batch \in Requests /\ acked' = acked \cup ToSet(txn[s].batch)
      BY <2>1 DEF Commit, TypeInv, Placed, Working
    <3>. QED
      BY <3>1 DEF Sendable
  <2>2. CASE acked' = acked
    BY <2>2
  <2>3. ASSUME NEW s \in Sessions, SessionStep(s), ~Commit(s)
        PROVE  acked' = acked
    BY <2>3 DEF SessionStep, Lookup, Absorb, Flush, Reject, BreakDeadlock, history
  <2>4. ASSUME NEW s \in Sessions,
               (\E batch \in Requests : Submit(s, batch)) \/ Die(s) \/ Release(s)
        PROVE  acked' = acked
    BY <2>4 DEF Submit, Die, Release, history
  <2>5. UNCHANGED ingestionVars => acked' = acked
    BY DEF ingestionVars, history
  <2>. QED
    BY <2>1, <2>2, <2>3, <2>4, <2>5 DEF IngestionNext
<1>. QED
  BY <1>1, <1>2, TypeInvariant, PTL DEF IngestionSpec

\* Spans with the same id are spans of the same trace, and only exporters use
\* ids made of those of OpenTelemetry.
SpanIdsUnique ==
    \A x, y \in Exports : \A i \in DOMAIN x.spans, j \in DOMAIN y.spans :
        HasIds(x.spans[i]) /\ HasIds(y.spans[j]) /\ x.spans[i].id = y.spans[j].id =>
            TraceOf(x.spans[i], x.key) = TraceOf(y.spans[j], y.key)

ExportersOnly ==
    \A m \in Sendable :
        m.kind = "event" /\ (\E k \in DOMAIN OtelId : m.id = OtelId[k]) =>
            \E x \in Exports : m \in ToSet(OtlpRequest(x))

\* The spans of acknowledged exports are steps.
ExportsStored ==
    \A x \in Exports : ToSet(OtlpRequest(x)) \subseteq acked =>
        \A i \in DOMAIN x.spans :
            LET of == TraceOf(x.spans[i], x.key)
            IN  HasIds(x.spans[i]) /\ of \notin stale =>
                    stored[of] # None /\ OtelId[x.spans[i].id] \in StepIdsOf(stored[of])

\* With ids that OpenTelemetry keeps apart, the steps of an acknowledged export
\* are there without further ado: the ids that the server makes of them stay
\* apart, and nobody else's event can be taken for one (SpanEventId).
THEOREM SpansAreToldApart ==
    ASSUME SpanIdsUnique, ExportersOnly
    PROVE  IngestionSpec => []ExportsStored
<1>1. ASSUME ExportIsWhole, acked \subseteq Sendable, NEW x \in Exports,
             ToSet(OtlpRequest(x)) \subseteq acked, NEW i \in DOMAIN x.spans,
             HasIds(x.spans[i]), TraceOf(x.spans[i], x.key) \notin stale
      PROVE  LET of == TraceOf(x.spans[i], x.key)
             IN  stored[of] # None /\ OtelId[x.spans[i].id] \in StepIdsOf(stored[of])
  <2>. DEFINE of == TraceOf(x.spans[i], x.key)
  <2>1. ASSUME NEW y \in Exports, NEW j \in DOMAIN y.spans, HasIds(y.spans[j])
        PROVE  y.spans[j].id \in DOMAIN OtelId
    <3>1. y.spans[j] \in Spans
      BY ExportsOK
    <3>. QED
      BY <2>1, <3>1 DEF Spans, Ids, HasIds
  <2>2. IdOfOneTrace(OtelId[x.spans[i].id], of)
    <3>. SUFFICES ASSUME NEW m \in acked, m.kind = "event", m.id = OtelId[x.spans[i].id]
                  PROVE  m.of = of /\ m.type = "step"
      BY DEF IdOfOneTrace
    <3>1. PICK y \in Exports : m \in ToSet(OtlpRequest(y))
      BY <1>1, <2>1 DEF ExportersOnly
    <3>2. PICK j \in DOMAIN y.spans : HasIds(y.spans[j]) /\ m = EventOf(y, j)
      <4>1. DOMAIN y.spans = 1 .. Len(y.spans)
        BY ExportsOK
      <4>. QED
        BY <3>1, <4>1, RequestOfExport DEF Named
    <3>3. /\ m.id = OtelId[y.spans[j].id] /\ m.of = TraceOf(y.spans[j], y.key)
          /\ m.type = "step"
      BY <3>2 DEF EventOf, SpanEvent, SpanEventId
    <3>4. x.spans[i].id = y.spans[j].id
      BY <1>1, <2>1, <3>2, <3>3, OtelIdInjective
    <3>. QED
      BY <1>1, <3>2, <3>3, <3>4 DEF SpanIdsUnique
  <2>. QED
    BY <1>1, <2>2 DEF ExportIsWhole
<1>2. ExportIsWhole /\ acked \subseteq Sendable => ExportsStored
  BY <1>1 DEF ExportsStored
<1>. QED
  BY <1>2, ExportsAreWhole, AckedWasSent, PTL

=============================================================================
