-------------------------- MODULE TraceRecordProofs --------------------------
(***************************************************************************)
(* What the stored rows say, for any number of sessions, traces, events    *)
(* and requests: that acknowledged steps are kept, that figures do not     *)
(* depend on the order of events, and that columns and payload agree.      *)
(***************************************************************************)
EXTENDS TraceIngestionProofs

\* What AckedStepsKept, SummaryOrderFree and RecordCoherent say of a row of t,
\* given the messages A that it was made of.
IsEvent(m) == m.kind = "event"

OwnIn(A, e) ==
    \A m \in A : IsEvent(m) /\ KeyOf(m) = KeyOf(e) => m.of = e.of /\ m.type = e.type

About(A, t) == {e \in A : IsEvent(e) /\ e.of = t}
Ends(A, t) == {e \in About(A, t) : e.type = "trace_end"}

Kept(A, t, row) ==
    \A e \in About(A, t) : e.type = "step" /\ OwnIn(A, e) => e.id \in StepIdsOf(row)

HasFailed(row) == \E i \in DOMAIN row.steps : row.steps[i].status = "error"

Tells(row, e) ==
    /\ row.ended # None /\ row.status = e.status
    /\ row.summary.ms = e.ms
    /\ row.summary.status = IF HasFailed(row) THEN "error" ELSE e.status

Open(row) == row.ended = None /\ row.summary.ms = StepMs(row.steps)

Told(A, t, row) ==
    (\A e \in About(A, t) : OwnIn(A, e)) =>
        /\ Ends(A, t) = {} => Open(row)
        /\ \A e : Ends(A, t) = {e} /\ e.ms # 0 => Tells(row, e)

Coherent(row) ==
    /\ row.ended # None => row.ended >= row.started
    /\ row.raw = [steps |-> row.steps, summary |-> row.summary]

Right(A, t, row, byEvents) ==
    Kept(A, t, row) /\ (byEvents => Coherent(row) /\ Told(A, t, row))

-----------------------------------------------------------------------------
(* Messages that change nothing: their keys are known.                     *)

Covered(A, B, t) ==
    \A e \in About(B, t) :
        e \in A \/ \E x \in B : IsEvent(x) /\ KeyOf(x) = KeyOf(e) /\ (x \in A \/ x.of # t)

LEMMA SameEvent ==
    ASSUME NEW x, NEW e, IsEvent(x), IsEvent(e), KeyOf(x) = KeyOf(e)
    PROVE  x.id = e.id
  BY DEF IsEvent, KeyOf

LEMMA RightGrows ==
    ASSUME NEW A, NEW B, NEW t, NEW row, NEW byEvents,
           A \subseteq B, Covered(A, B, t), Right(A, t, row, byEvents)
    PROVE  Right(B, t, row, byEvents)
<1>1. \A e : OwnIn(B, e) => OwnIn(A, e)
  BY DEF OwnIn
<1>2. ASSUME NEW e \in About(B, t), OwnIn(B, e)
      PROVE  \/ e \in About(A, t)
             \/ \E x \in About(A, t) : /\ IsEvent(x) /\ x.id = e.id /\ x.type = e.type
                                       /\ KeyOf(x) = KeyOf(e)
  <2>1. CASE e \in A
    BY <1>2, <2>1 DEF About
  <2>2. ASSUME NEW x \in B, IsEvent(x), KeyOf(x) = KeyOf(e), x \in A \/ x.of # t
        PROVE  \E y \in About(A, t) : /\ IsEvent(y) /\ y.id = e.id /\ y.type = e.type
                                      /\ KeyOf(y) = KeyOf(e)
    <3>1. x.of = t /\ x.type = e.type
      BY <1>2, <2>2 DEF OwnIn, About
    <3>2. x.id = e.id
      BY <1>2, <2>2, SameEvent DEF About
    <3>3. x \in About(A, t)
      BY <2>2, <3>1 DEF About
    <3>. QED
      BY <2>2, <3>1, <3>2, <3>3
  <2>. QED
    BY <1>2, <2>1, <2>2 DEF Covered
<1>3. Kept(B, t, row)
  <2>1. SUFFICES ASSUME NEW e \in About(B, t), e.type = "step", OwnIn(B, e)
                 PROVE  e.id \in StepIdsOf(row)
    BY DEF Kept
  <2>2. ASSUME NEW x \in About(A, t), x.id = e.id, x.type = e.type, KeyOf(x) = KeyOf(e)
        PROVE  e.id \in StepIdsOf(row)
    <3>1. OwnIn(A, x)
      BY <1>1, <2>1, <2>2 DEF OwnIn, About
    <3>. QED
      BY <2>1, <2>2, <3>1 DEF Right, Kept
  <2>3. CASE e \in About(A, t)
    BY <1>1, <2>1, <2>3 DEF Right, Kept
  <2>. QED
    BY <1>2, <2>1, <2>2, <2>3
<1>4. ASSUME Told(A, t, row)
      PROVE  Told(B, t, row)
  <2>1. SUFFICES ASSUME \A e \in About(B, t) : OwnIn(B, e)
                 PROVE  /\ Ends(B, t) = {} => Open(row)
                        /\ \A e : Ends(B, t) = {e} /\ e.ms # 0 => Tells(row, e)
    BY DEF Told
  <2>2. About(A, t) \subseteq About(B, t) /\ Ends(A, t) \subseteq Ends(B, t)
    BY DEF About, Ends
  <2>3. \A e \in About(A, t) : OwnIn(A, e)
    BY <1>1, <2>1, <2>2
  <2>4. ASSUME NEW e, Ends(B, t) = {e}
        PROVE  Ends(A, t) = {e}
    <3>1. e \in About(B, t) /\ e.type = "trace_end"
      BY <2>4 DEF Ends
    <3>2. PICK x \in About(A, t) : x.type = e.type
      BY <1>2, <2>1, <3>1
    <3>3. x \in Ends(A, t)
      BY <3>1, <3>2 DEF Ends
    <3>. QED
      BY <2>2, <2>4, <3>3
  <2>. QED
    BY <1>4, <2>2, <2>3, <2>4 DEF Told
<1>. QED
  BY <1>3, <1>4 DEF Right

-----------------------------------------------------------------------------
(* One event more.                                                         *)

LEMMA AppliedColumns ==
    ASSUME NEW r \in Rows, NEW e \in EventMessages
    PROVE  LET c == Change(r, e)
               a == Applied(r, e)
           IN  /\ a.steps = c.steps /\ a.status = c.status
               /\ (a.ended = None <=> c.ended = None)
               /\ a.summary = Recomputed(c) /\ Coherent(a)
<1>. DEFINE c == Change(r, e)
            d == [c EXCEPT !.summary = Recomputed(c)]
<1>1. c \in Rows
  BY ChangedRow
<1>2. Applied(r, e) = WithPayload(Clamped(d))
  BY DEF Applied, Change
<1>. HIDE DEF c
<1>3. Recomputed(c) \in Summaries
  BY <1>1, RecomputedType
<1>4. /\ d \in Rows /\ d.steps = c.steps /\ d.status = c.status /\ d.ended = c.ended
      /\ d.summary = Recomputed(c)
  BY <1>1, <1>3 DEF Rows
<1>. HIDE DEF d
<1>5. d.started \in Nat /\ d.ended \in Nat \cup {None} /\ None \notin Nat
  BY <1>4, IngestionConstantsOK DEF Rows
<1>6. /\ Clamped(d) \in Rows /\ Clamped(d).steps = d.steps /\ Clamped(d).status = d.status
      /\ Clamped(d).summary = d.summary
      /\ (Clamped(d).ended = None <=> d.ended = None)
      /\ Clamped(d).ended # None => Clamped(d).ended >= Clamped(d).started
  <2>1. CASE d.ended # None /\ d.ended < d.started
    <3>1. Clamped(d) = [d EXCEPT !.ended = d.started]
      BY <2>1 DEF Clamped
    <3>2. /\ Clamped(d) \in Rows /\ Clamped(d).steps = d.steps /\ Clamped(d).status = d.status
          /\ Clamped(d).summary = d.summary
          /\ Clamped(d).ended = d.started /\ Clamped(d).started = d.started
      BY <1>4, <1>5, <3>1 DEF Rows
    <3>. QED
      BY <1>5, <2>1, <3>2
  <2>2. CASE ~(d.ended # None /\ d.ended < d.started)
    <3>1. Clamped(d) = d
      BY <2>2 DEF Clamped
    <3>2. d.ended # None => d.ended >= d.started
      BY <1>5, <2>2
    <3>. QED
      BY <1>4, <3>1, <3>2
  <2>. QED
    BY <2>1, <2>2
<1>7. ASSUME NEW x \in Rows
      PROVE  /\ WithPayload(x).steps = x.steps /\ WithPayload(x).status = x.status
             /\ WithPayload(x).ended = x.ended /\ WithPayload(x).started = x.started
             /\ WithPayload(x).summary = x.summary
             /\ WithPayload(x).raw = [steps |-> x.steps, summary |-> x.summary]
  BY DEF WithPayload, Rows
<1>8. Coherent(WithPayload(Clamped(d)))
  <2>. DEFINE y == Clamped(d)
              z == WithPayload(y)
  <2>1. /\ z.steps = y.steps /\ z.ended = y.ended /\ z.started = y.started
        /\ z.summary = y.summary
        /\ z.raw = [steps |-> y.steps, summary |-> y.summary]
    BY <1>6, <1>7
  <2>2. y.ended # None => y.ended >= y.started
    BY <1>6
  <2>. HIDE DEF y, z
  <2>3. z.raw = [steps |-> z.steps, summary |-> z.summary]
    BY <2>1
  <2>4. Coherent(z)
    BY <2>1, <2>2, <2>3 DEF Coherent
  <2>. QED
    BY <2>4 DEF y, z
<1>. DEFINE y == Clamped(d)
            z == WithPayload(y)
<1>9. /\ z.steps = y.steps /\ z.status = y.status /\ z.ended = y.ended /\ z.summary = y.summary
      /\ y.steps = d.steps /\ y.status = d.status /\ y.summary = d.summary
      /\ (y.ended = None <=> d.ended = None)
  BY <1>6, <1>7
<1>10. Applied(r, e) = z /\ Coherent(z)
  BY <1>2, <1>8
<1>. HIDE DEF y, z
<1>11. /\ z.steps = c.steps /\ z.status = c.status /\ (z.ended = None <=> c.ended = None)
       /\ z.summary = Recomputed(c)
  BY <1>4, <1>9
<1>. QED
  BY <1>10, <1>11 DEF c

LEMMA SteppedIds ==
    ASSUME NEW r \in Rows, NEW e \in EventMessages
    PROVE  StepIdsOf(r) \subseteq StepIdsOf(Stepped(r, e)) /\ e.id \in StepIdsOf(Stepped(r, e))
<1>1. CASE \E i \in DOMAIN r.steps : r.steps[i].id = e.id
  BY <1>1 DEF Stepped, StepIdsOf
<1>2. CASE ~ \E i \in DOMAIN r.steps : r.steps[i].id = e.id
  <2>. DEFINE old == r.steps
              new == Append(old, EventStep(e))
  <2>1. Stepped(r, e).steps = new
    BY <1>2 DEF Stepped, Rows
  <2>2. old \in Seq(StepRecords) /\ EventStep(e).id = e.id
    BY DEF Rows, EventStep
  <2>3. DOMAIN new = DOMAIN old \cup {Len(old) + 1}
        /\ (\A i \in DOMAIN old : new[i] = old[i]) /\ new[Len(old) + 1] = EventStep(e)
    BY <2>2
  <2>. HIDE DEF new
  <2>. QED
    BY <2>1, <2>2, <2>3 DEF StepIdsOf
<1>. QED
  BY <1>1, <1>2

LEMMA AppliedIds ==
    ASSUME NEW r \in Rows, NEW e \in EventMessages
    PROVE  /\ StepIdsOf(r) \subseteq StepIdsOf(Applied(r, e))
           /\ e.type = "step" => e.id \in StepIdsOf(Applied(r, e))
<1>1. Applied(r, e).steps = IF e.type = "step" THEN Stepped(r, e).steps ELSE r.steps
  BY AppliedRow
<1>2. CASE e.type = "step"
  <2>1. StepIdsOf(Applied(r, e)) = StepIdsOf(Stepped(r, e))
    BY <1>1, <1>2 DEF StepIdsOf
  <2>. QED
    BY <2>1, SteppedIds
<1>3. CASE e.type # "step"
  <2>1. StepIdsOf(Applied(r, e)) = StepIdsOf(r)
    BY <1>1, <1>3 DEF StepIdsOf
  <2>. QED
    BY <1>3, <2>1
<1>. QED
  BY <1>2, <1>3

LEMMA AppliedKept ==
    ASSUME NEW r \in Rows, NEW e \in EventMessages, NEW A, Kept(A, e.of, r)
    PROVE  Kept(A \cup {e}, e.of, Applied(r, e))
<1>1. ASSUME NEW x \in About(A \cup {e}, e.of), x.type = "step", OwnIn(A \cup {e}, x)
      PROVE  x.id \in StepIdsOf(Applied(r, e))
  <2>1. CASE x = e
    BY <1>1, <2>1, AppliedIds
  <2>2. CASE x \in A
    <3>1. x \in About(A, e.of) /\ OwnIn(A, x)
      BY <1>1, <2>2 DEF About, OwnIn
    <3>2. x.id \in StepIdsOf(r)
      BY <1>1, <3>1 DEF Kept
    <3>. QED
      BY <3>2, AppliedIds
  <2>. QED
    BY <1>1, <2>1, <2>2 DEF About
<1>. QED
  BY <1>1 DEF Kept

LEMMA AppliedTold ==
    ASSUME NEW r \in Rows, NEW e \in EventMessages, NEW A, Told(A, e.of, r)
    PROVE  Told(A \cup {e}, e.of, Applied(r, e))
<1>. DEFINE B == A \cup {e}
            t == e.of
            c == Change(r, e)
            a == Applied(r, e)
<1>1. SUFFICES ASSUME \A x \in About(B, t) : OwnIn(B, x)
               PROVE  /\ Ends(B, t) = {} => Open(a)
                      /\ \A x : Ends(B, t) = {x} /\ x.ms # 0 => Tells(a, x)
  BY DEF Told
<1>2. About(A, t) \subseteq About(B, t)
  BY DEF About
<1>3. \A x \in About(A, t) : OwnIn(A, x)
  BY <1>1, <1>2 DEF OwnIn
<1>4. /\ Ends(A, t) = {} => Open(r)
      /\ \A x : Ends(A, t) = {x} /\ x.ms # 0 => Tells(r, x)
  BY <1>3 DEF Told
<1>5. /\ a.steps = c.steps /\ a.status = c.status /\ (a.ended = None <=> c.ended = None)
      /\ a.summary = Recomputed(c)
  BY AppliedColumns
<1>6. /\ Recomputed(c).ms = IF c.ended # None /\ c.summary.ms # 0 THEN c.summary.ms
                                                                  ELSE StepMs(c.steps)
      /\ Recomputed(c).status = IF HasFailed(c) THEN "error" ELSE c.status
  BY DEF Recomputed, HasFailed
<1>7. HasFailed(a) <=> HasFailed(c)
  BY <1>5 DEF HasFailed
<1>8. e \in About(B, t) /\ IsEvent(e)
  BY DEF About, EventMessages, IsEvent
<1>9. CASE e.type = "trace_end"
  <2>1. c = Finished(r, e) /\ e.at \in Nat
    BY <1>9 DEF Change, EventMessages
  <2>2. /\ c.ended = e.at /\ c.status = e.status
        /\ c.summary.ms = IF e.ms # 0 THEN e.ms ELSE r.summary.ms
    BY <2>1 DEF Finished, Rows
  <2>3. e.at # None
    BY <2>1, IngestionConstantsOK
  <2>4. e \in Ends(B, t)
    BY <1>8, <1>9 DEF Ends
  <2>5. e.ms # 0 => Tells(a, e)
    BY <1>5, <1>6, <1>7, <2>2, <2>3 DEF Tells
  <2>. HIDE DEF a, B, t
  <2>. QED
    BY <2>4, <2>5
<1>10. CASE e.type # "trace_end"
  <2>1. Ends(A, t) = Ends(B, t)
    BY <1>10 DEF Ends, About
  <2>2. c = Started(r, e) \/ c = Stepped(r, e)
    BY <1>10 DEF Change
  <2>3. c.ended = r.ended /\ c.status = r.status /\ c.summary = r.summary
    BY <2>2 DEF Started, Stepped, Rows
  <2>4. Open(r) => Open(a)
    BY <1>5, <1>6, <2>3 DEF Open
  <2>5. ASSUME NEW x, Tells(r, x), x.ms # 0
        PROVE  Tells(a, x)
    BY <1>5, <1>6, <1>7, <2>3, <2>5 DEF Tells
  <2>. HIDE DEF a, B, t
  <2>. QED
    BY <1>4, <2>1, <2>4, <2>5
<1>. QED
  BY <1>9, <1>10

LEMMA EventRight ==
    ASSUME NEW r \in Rows, NEW e \in EventMessages, NEW A, NEW told,
           Right(A, e.of, r, told)
    PROVE  Right(A \cup {e}, e.of, Applied(r, e), told)
<1>1. Coherent(Applied(r, e))
  BY AppliedColumns
<1>2. Kept(A \cup {e}, e.of, Applied(r, e))
  BY AppliedKept DEF Right
<1>3. told => Told(A \cup {e}, e.of, Applied(r, e))
  BY AppliedTold DEF Right
<1>. QED
  BY <1>1, <1>2, <1>3 DEF Right

LEMMA NoSteps == StepMs(<<>>) = 0
<1>. DEFINE g == CHOOSE f : Sums(<<>>, 0, f)
<1>1. StepMs(<<>>) = g[0]
  BY DEF StepMs, Sums
<1>2. <<>> \in Seq(StepRecords) /\ 0 \in 0 .. Len(<<>>)
  OBVIOUS
<1>3. Sums(<<>>, 0, g)
  BY <1>2, SumsExist
<1>. HIDE DEF g
<1>. QED
  BY <1>1, <1>3 DEF Sums

LEMMA FirstEventRight ==
    ASSUME NEW e \in EventMessages, NEW A, About(A, e.of) = {}
    PROVE  Right(A \cup {e}, e.of, Applied(FromEvent(e), e), TRUE)
<1>. DEFINE r == FromEvent(e)
<1>1. r \in Rows /\ r.steps = <<>>
  BY EventRow
<1>2. r.ended = None /\ r.summary.ms = 0
  BY DEF FromEvent, FromPost
<1>3. Open(r)
  BY <1>1, <1>2, NoSteps DEF Open
<1>. HIDE DEF r
<1>4. Kept(A, e.of, r) /\ Told(A, e.of, r)
  BY <1>3 DEF Kept, Told, Ends
<1>5. Kept(A \cup {e}, e.of, Applied(r, e)) /\ Told(A \cup {e}, e.of, Applied(r, e))
  BY <1>1, <1>4, AppliedKept, AppliedTold
<1>. QED
  BY <1>1, <1>5, AppliedColumns DEF Right, r

-----------------------------------------------------------------------------
(* What a session has dealt with.                                          *)

Prefix(x) == {x.batch[i] : i \in {j \in DOMAIN x.batch : j < x.next}}

\* The message at position i was absorbed because another has its key.
Answered(x, ac, i) ==
    \E m \in ac \cup Prefix(x) :
        /\ IsEvent(m) /\ KeyOf(m) = KeyOf(x.batch[i])
        /\ m \in ac \/ m.of # x.batch[i].of

Found(x, ac) ==
    /\ \A t \in Traces : x.rows[t] # None => x.view[t] # None
    /\ x.pc \in {"lookup", "write"} =>
           \A i \in DOMAIN x.batch : i < x.next => x.view[x.batch[i].of] # None
    /\ \A k \in EventKeys : x.keys[k] # None =>
           \E i \in DOMAIN x.batch : /\ i < x.next /\ IsEvent(x.batch[i])
                                     /\ KeyOf(x.batch[i]) = k
                                     /\ x.rows[x.batch[i].of] # None
    /\ \A i \in DOMAIN x.batch :
           i < x.next /\ IsEvent(x.batch[i]) /\ x.rows[x.batch[i].of] = None =>
               Answered(x, ac, i)

Keyed(ks, ac) ==
    \A k \in EventKeys : ks[k] # None => \E m \in ac : IsEvent(m) /\ KeyOf(m) = k

FoundInv == Keyed(keys, acked) /\ \A s \in Sessions : Found(txn[s], acked)

Ground == TypeInv /\ Copied /\ SettledInv /\ RetryInv

Moved(s) ==
    \/ \E batch \in Requests : Submit(s, batch)
    \/ SessionStep(s) \/ Die(s) \/ Release(s)

LEMMA EventKeys1 ==
    ASSUME NEW m \in Messages
    PROVE  /\ IsEvent(m) => KeyOf(m) \in EventKeys /\ m \in EventMessages
           /\ ~IsEvent(m) => KeyOf(m) \notin EventKeys /\ m \in TraceMessages
<1>1. CASE IsEvent(m)
  BY <1>1, MessageTypes DEF IsEvent, KeyOf, EventMessages, EventKeys, Projects
<1>2. CASE ~IsEvent(m)
  <2>1. m \in TraceMessages /\ KeyOf(m) = m.key
    BY <1>2, MessageTypes DEF IsEvent, KeyOf
  <2>2. m.key \in HeaderKeys \cup {None}
    BY <2>1 DEF TraceMessages
  <2>3. None \notin EventKeys /\ EventKeys \cap HeaderKeys = {}
    BY IngestionConstantsOK DEF AllKeys
  <2>. QED
    BY <1>2, <2>1, <2>2, <2>3
<1>. QED
  BY <1>1, <1>2

\* A request is all events or all traces.
LEMMA OneKind ==
    ASSUME TypeInv, NEW s \in Sessions, txn[s].pc \in Working,
           NEW i \in DOMAIN txn[s].batch, NEW j \in DOMAIN txn[s].batch
    PROVE  /\ IsEvent(txn[s].batch[i]) <=> IsEvent(txn[s].batch[j])
           /\ ~IsEvent(txn[s].batch[i]) /\ txn[s].batch[i].key # None =>
                  Len(txn[s].batch) = 1
<1>1. txn[s].batch \in Requests
  BY DEF TypeInv, Placed
<1>2. \/ \A k \in DOMAIN txn[s].batch : txn[s].batch[k].kind = "event"
      \/ \A k \in DOMAIN txn[s].batch : /\ txn[s].batch[k].kind = "trace"
                                        /\ txn[s].batch[k].key # None => Len(txn[s].batch) = 1
  BY <1>1, RequestsAreOfOneKind
<1>. QED
  BY <1>2 DEF IsEvent

LEMMA FoundGrows ==
    ASSUME NEW x, NEW A, NEW B, A \subseteq B, Found(x, A)
    PROVE  Found(x, B)
<1>1. \A i \in DOMAIN x.batch : Answered(x, A, i) => Answered(x, B, i)
  BY DEF Answered
<1>. QED
  BY <1>1 DEF Found

\* A session that has not begun has nothing to account for.
LEMMA FoundAtStart ==
    ASSUME NEW x \in SessionType, NEW A, x.next = 1, x.rows = NoRows, x.keys = NoKeys
    PROVE  Found(x, A)
<1>1. \A i \in DOMAIN x.batch : ~(i < x.next)
  BY DEF SessionType
<1>2. /\ \A t \in Traces : x.rows[t] = None
      /\ \A k \in EventKeys : x.keys[k] = None
  BY DEF NoRows, NoKeys, AllKeys
<1>. QED
  BY <1>1, <1>2 DEF Found

\* One message further.
LEMMA PrefixGrows ==
    ASSUME NEW x \in SessionType, NEW y \in SessionType, x.next \in DOMAIN x.batch,
           y.batch = x.batch, y.next = x.next + 1
    PROVE  /\ Prefix(y) = Prefix(x) \cup {x.batch[x.next]}
           /\ \A i \in DOMAIN x.batch : i < y.next <=> i < x.next \/ i = x.next
<1>1. x.next \in Nat /\ \A i \in DOMAIN x.batch : i \in Nat
  BY DEF SessionType
<1>2. \A i \in DOMAIN x.batch : i < y.next <=> i < x.next \/ i = x.next
  BY <1>1
<1>. QED
  BY <1>2 DEF Prefix

\* A key that a session has found is that of an acknowledged event, or of one
\* of its own that it has written.
LEMMA SeenKey ==
    ASSUME Ground, FoundInv, NEW s \in Sessions, txn[s].pc = "write", txn[s].seen,
           IsEvent(Current(s))
    PROVE  \E m \in acked \cup Prefix(txn[s]) :
               /\ IsEvent(m) /\ KeyOf(m) = KeyOf(Current(s))
               /\ m \in acked \/ txn[s].rows[m.of] # None
<1>. DEFINE x == txn[s]
            k == KeyOf(Current(s))
<1>1. x.keys[k] # None \/ keys[k] # None
  BY DEF Ground, SettledInv, Settled, HasKey, Current
<1>2. k \in EventKeys
  BY CurrentType, EventKeys1 DEF Ground
<1>3. CASE keys[k] # None
  BY <1>2, <1>3 DEF FoundInv, Keyed
<1>4. CASE x.keys[k] # None
  <2>1. PICK i \in DOMAIN x.batch : /\ i < x.next /\ IsEvent(x.batch[i])
                                    /\ KeyOf(x.batch[i]) = k
                                    /\ x.rows[x.batch[i].of] # None
    BY <1>2, <1>4 DEF FoundInv, Found
  <2>2. x.batch[i] \in Prefix(x)
    BY <2>1 DEF Prefix
  <2>. QED
    BY <2>1, <2>2
<1>. QED
  BY <1>1, <1>3, <1>4

LEMMA LookupFinds ==
    ASSUME Ground, FoundInv, NEW s \in Sessions, Lookup(s)
    PROVE  Found(txn'[s], acked)
<1>. DEFINE x == txn[s]
            y == txn'[s]
            t == Current(s).of
<1>1. x \in SessionType /\ y \in SessionType /\ Found(x, acked)
  BY LookupStep DEF Ground, TypeInv, IngestionTypeOK, SessionType, FoundInv
<1>2. /\ x.pc = "lookup" /\ y.batch = x.batch /\ y.next = x.next
      /\ y.rows = x.rows /\ y.keys = x.keys
      /\ y.view = [x.view EXCEPT ![t] = Visible(s, t)]
  BY LookupStep DEF Ground
<1>3. \A u \in Traces : x.view[u] # None => y.view[u] # None
  BY <1>1, <1>2 DEF SessionType, Visible
<1>4. \A i \in DOMAIN x.batch : x.batch[i].of \in Traces
  BY <1>1, MessageTypes DEF SessionType
<1>5. Prefix(y) = Prefix(x)
  BY <1>2 DEF Prefix
<1>6. \A i \in DOMAIN x.batch : Answered(x, acked, i) => Answered(y, acked, i)
  BY <1>2, <1>5 DEF Answered
<1>. QED
  BY <1>1, <1>2, <1>3, <1>4, <1>6 DEF Found

LEMMA AbsorbFinds ==
    ASSUME Ground, FoundInv, NEW s \in Sessions, Absorb(s)
    PROVE  Found(txn'[s], acked)
<1>. DEFINE x == txn[s]
            y == txn'[s]
            m == Current(s)
<1>1. /\ x \in SessionType /\ y \in SessionType /\ Found(x, acked)
      /\ x.next \in DOMAIN x.batch /\ x.batch[x.next] = m /\ m \in Messages
  BY AbsorbStep, CurrentType
     DEF Ground, TypeInv, IngestionTypeOK, SessionType, FoundInv, Current
<1>2. /\ x.pc = "write" /\ Absorbed(s) /\ y.batch = x.batch /\ y.next = x.next + 1
      /\ y.rows = x.rows /\ y.keys = x.keys /\ y.view = x.view
      /\ y.pc \in {"lookup", "commit"} /\ Placed(y)
  BY AbsorbStep DEF Ground
<1>3. /\ Prefix(y) = Prefix(x) \cup {m}
      /\ \A i \in DOMAIN x.batch : i < y.next <=> i < x.next \/ i = x.next
  BY <1>1, <1>2, PrefixGrows
<1>4. \A i \in DOMAIN x.batch : Answered(x, acked, i) => Answered(y, acked, i)
  BY <1>2, <1>3 DEF Answered
<1>5. IsEvent(m) /\ x.rows[m.of] = None => Answered(y, acked, x.next)
  <2>1. SUFFICES ASSUME IsEvent(m), x.rows[m.of] = None
                 PROVE  Answered(y, acked, x.next)
    OBVIOUS
  <2>2. x.seen
    BY <1>2, <2>1 DEF Absorbed, IsEvent
  <2>3. PICK e \in acked \cup Prefix(x) : /\ IsEvent(e) /\ KeyOf(e) = KeyOf(m)
                                          /\ e \in acked \/ x.rows[e.of] # None
    BY <1>2, <2>1, <2>2, SeenKey
  <2>. QED
    BY <1>1, <1>2, <1>3, <2>1, <2>3 DEF Answered
<1>6. y.pc = "lookup" => y.view[m.of] # None
  <2>1. SUFFICES ASSUME y.pc = "lookup", x.view[m.of] = None
                 PROVE  FALSE
    BY <1>2
  <2>2. ~IsEvent(m) /\ x.seen
    BY <1>2, <2>1 DEF Absorbed, Copy, IsEvent
  <2>3. KeyOf(m) \in AllKeys /\ KeyOf(m) = m.key
    BY <1>1, <1>2, <2>2 DEF Ground, SettledInv, Settled, IsEvent, KeyOf
  <2>4. m.key # None
    BY <2>3, NoneApart
  <2>5. Len(x.batch) = 1
    BY <1>1, <1>2, <2>2, <2>4, OneKind DEF Ground, Working
  <2>6. y.next \in DOMAIN y.batch
    BY <1>2, <2>1 DEF Placed
  <2>. QED
    BY <1>1, <1>2, <2>5, <2>6 DEF SessionType
<1>. QED
  <2>1. \A t \in Traces : y.rows[t] # None => y.view[t] # None
    BY <1>1, <1>2 DEF Found
  <2>2. y.pc \in {"lookup", "write"} =>
            \A i \in DOMAIN y.batch : i < y.next => y.view[y.batch[i].of] # None
    BY <1>1, <1>2, <1>3, <1>6 DEF Found
  <2>3. \A k \in EventKeys : y.keys[k] # None =>
           \E i \in DOMAIN y.batch : /\ i < y.next /\ IsEvent(y.batch[i])
                                     /\ KeyOf(y.batch[i]) = k
                                     /\ y.rows[y.batch[i].of] # None
    BY <1>1, <1>2, <1>3 DEF Found
  <2>4. \A i \in DOMAIN y.batch :
           i < y.next /\ IsEvent(y.batch[i]) /\ y.rows[y.batch[i].of] = None =>
               Answered(y, acked, i)
    BY <1>1, <1>2, <1>3, <1>4, <1>5 DEF Found
  <2>. QED
    BY <2>1, <2>2, <2>3, <2>4 DEF Found

LEMMA FlushFinds ==
    ASSUME Ground, FoundInv, NEW s \in Sessions, Flush(s)
    PROVE  Found(txn'[s], acked)
<1>. DEFINE x == txn[s]
            y == txn'[s]
            m == Current(s)
            t == m.of
<1>1. /\ x \in SessionType /\ y \in SessionType /\ Found(x, acked)
      /\ x.next \in DOMAIN x.batch /\ x.batch[x.next] = m /\ m \in Messages /\ t \in Traces
  BY FlushStep, CurrentType
     DEF Ground, TypeInv, IngestionTypeOK, SessionType, FoundInv, Current
<1>2. /\ x.pc = "write" /\ ~Absorbed(s) /\ y.batch = x.batch /\ y.next = x.next + 1
      /\ y.view = [x.view EXCEPT ![t] = Written(s)]
      /\ y.rows = [x.rows EXCEPT ![t] = NewRow(s)]
      /\ y.keys = [k \in AllKeys |->
                      IF k = NewKey(s) THEN ResourceOf(m) ELSE x.keys[k]]
  BY FlushStep DEF Ground
<1>3. /\ Prefix(y) = Prefix(x) \cup {m}
      /\ \A i \in DOMAIN x.batch : i < y.next <=> i < x.next \/ i = x.next
  BY <1>1, <1>2, PrefixGrows
<1>4. Written(s) # None /\ NewRow(s) # None
  BY <1>2, WrittenRow, FlushedRow, NoneApart DEF Ground
<1>5. /\ y.view[t] # None /\ y.rows[t] # None
      /\ \A u \in Traces : u # t => y.view[u] = x.view[u] /\ y.rows[u] = x.rows[u]
  BY <1>1, <1>2, <1>4 DEF SessionType
<1>6. \A i \in DOMAIN x.batch : Answered(x, acked, i) => Answered(y, acked, i)
  BY <1>2, <1>3 DEF Answered
<1>7. \A i \in DOMAIN x.batch : x.batch[i].of \in Traces
  BY <1>1, MessageTypes DEF SessionType
<1>8. \A k \in EventKeys : k = NewKey(s) => IsEvent(m) /\ KeyOf(m) = k
  BY <1>1, EventKeys1, NoneApart DEF NewKey, AllKeys
<1>9. EventKeys \subseteq AllKeys
  BY DEF AllKeys
<1>. QED
  <2>1. \A u \in Traces : y.rows[u] # None => y.view[u] # None
    BY <1>1, <1>5 DEF Found
  <2>2. y.pc \in {"lookup", "write"} =>
            \A i \in DOMAIN y.batch : i < y.next => y.view[y.batch[i].of] # None
    BY <1>1, <1>2, <1>3, <1>5, <1>7 DEF Found
  <2>3. ASSUME NEW k \in EventKeys, y.keys[k] # None
        PROVE  \E i \in DOMAIN y.batch : /\ i < y.next /\ IsEvent(y.batch[i])
                                         /\ KeyOf(y.batch[i]) = k
                                         /\ y.rows[y.batch[i].of] # None
    <3>1. CASE k = NewKey(s)
      BY <1>1, <1>2, <1>3, <1>5, <1>8, <3>1
    <3>2. CASE k # NewKey(s)
      <4>1. x.keys[k] # None
        BY <1>2, <1>9, <2>3, <3>2
      <4>2. PICK i \in DOMAIN x.batch : /\ i < x.next /\ IsEvent(x.batch[i])
                                        /\ KeyOf(x.batch[i]) = k
                                        /\ x.rows[x.batch[i].of] # None
        BY <1>1, <4>1 DEF Found
      <4>. QED
        BY <1>2, <1>3, <1>5, <1>7, <4>2
    <3>. QED
      BY <3>1, <3>2
  <2>4. \A i \in DOMAIN y.batch :
           i < y.next /\ IsEvent(y.batch[i]) /\ y.rows[y.batch[i].of] = None =>
               Answered(y, acked, i)
    BY <1>1, <1>2, <1>3, <1>5, <1>6, <1>7 DEF Found
  <2>. QED
    BY <2>1, <2>2, <2>3, <2>4 DEF Found

\* At its commit a session has dealt with its whole batch.
LEMMA CommitPrefix ==
    ASSUME Ground, NEW s \in Sessions, Commit(s)
    PROVE  /\ Prefix(txn[s]) = ToSet(txn[s].batch)
           /\ acked' = acked \cup Prefix(txn[s])
           /\ \A i \in DOMAIN txn[s].batch : i < txn[s].next
<1>1. txn[s] \in SessionType /\ txn[s].next = Len(txn[s].batch) + 1
  BY EndSteps DEF Ground, TypeInv, IngestionTypeOK, SessionType, Placed
<1>2. \A i \in DOMAIN txn[s].batch : i < txn[s].next
  BY <1>1 DEF SessionType
<1>3. Prefix(txn[s]) = ToSet(txn[s].batch)
  BY <1>2 DEF Prefix, ToSet
<1>. QED
  BY <1>2, <1>3, CommitStep DEF Ground

\* What the step of a session leaves alone.
LEMMA OthersStay ==
    ASSUME Ground, NEW s \in Sessions, Moved(s)
    PROVE  /\ \A r \in Sessions : r # s => txn'[r] = txn[r]
           /\ ~Commit(s) => UNCHANGED <<stored, keys, acked, origin>>
           /\ ~Flush(s) => UNCHANGED stale
           /\ Flush(s) => stale \subseteq stale'
<1>1. Alone(s) /\ DOMAIN txn = Sessions
  BY SessionsMove DEF Ground, Moved, TypeInv, IngestionTypeOK
<1>2. \A r \in Sessions : r # s => txn'[r] = txn[r]
  BY <1>1 DEF Alone
<1>3. ~Commit(s) => UNCHANGED <<stored, keys, acked, origin>>
  BY SubmitStep, LookupStep, AbsorbStep, FlushStep, EndSteps
     DEF Ground, Moved, SessionStep, db, history
<1>4. ~Flush(s) => UNCHANGED stale
  BY SubmitStep, LookupStep, AbsorbStep, FlushStep, EndSteps
     DEF Ground, Moved, SessionStep, db, history
<1>5. Flush(s) => stale \subseteq stale'
  BY FlushStep DEF Ground
<1>. QED
  BY <1>2, <1>3, <1>4, <1>5

LEMMA FoundPreserved ==
    ASSUME Ground, FoundInv, NEW s \in Sessions, Moved(s)
    PROVE  FoundInv'
<1>1. acked \subseteq acked'
  BY OthersStay, CommitPrefix
<1>2. Keyed(keys', acked')
  <2>1. CASE Commit(s)
    <3>1. SUFFICES ASSUME NEW k \in EventKeys, keys'[k] # None
                   PROVE  \E m \in acked' : IsEvent(m) /\ KeyOf(m) = k
      BY DEF Keyed
    <3>2. keys'[k] = KeyValue(s, k)
      BY <2>1, CommitStep DEF Ground, AllKeys
    <3>3. CASE txn[s].keys[k] # None
      <4>1. PICK i \in DOMAIN txn[s].batch : /\ IsEvent(txn[s].batch[i])
                                             /\ KeyOf(txn[s].batch[i]) = k
        BY <3>3 DEF FoundInv, Found
      <4>2. txn[s].batch[i] \in acked'
        BY <2>1, CommitPrefix DEF Prefix
      <4>. QED
        BY <4>1, <4>2
    <3>4. CASE txn[s].keys[k] = None
      <4>1. keys[k] # None
        BY <3>1, <3>2, <3>4 DEF KeyValue
      <4>. QED
        BY <1>1, <4>1 DEF FoundInv, Keyed
    <3>. QED
      BY <3>3, <3>4
  <2>2. CASE ~Commit(s)
    BY <1>1, <2>2, OthersStay DEF FoundInv, Keyed
  <2>. QED
    BY <2>1, <2>2
<1>3. Found(txn'[s], acked)
  <2>1. CASE \E batch \in Requests : Submit(s, batch)
    BY <2>1, SubmitStep, FoundAtStart DEF Ground
  <2>2. CASE Reject(s) \/ BreakDeadlock(s) \/ Die(s) \/ Release(s) \/ Commit(s)
    <3>1. /\ txn'[s].rows = NoRows /\ txn'[s].keys = NoKeys
          /\ txn'[s].pc \in {"ok", "idle", "failed"}
      BY <2>2, NothingHeld DEF Ground
    <3>2. txn'[s] \in SessionType /\ Placed(txn'[s])
      BY SessionsMove DEF Ground, Moved
    <3>3. txn'[s].next = 1
      BY <3>1, <3>2 DEF Placed, Working
    <3>. QED
      BY <3>1, <3>2, <3>3, FoundAtStart
  <2>. QED
    BY <2>1, <2>2, LookupFinds, AbsorbFinds, FlushFinds DEF Moved, SessionStep
<1>4. \A r \in Sessions : Found(txn'[r], acked)
  BY <1>3, OthersStay DEF FoundInv
<1>5. \A r \in Sessions : Found(txn'[r], acked')
  BY <1>1, <1>4, FoundGrows
<1>. QED
  BY <1>2, <1>5 DEF FoundInv

-----------------------------------------------------------------------------
(* The rows.                                                               *)

Heard(x, ac) == ac \cup Prefix(x)

ByEvents(x, st, or, t) ==
    IF st[t] = None THEN \A i \in DOMAIN x.batch : IsEvent(x.batch[i]) ELSE IsEvent(or[t])

RowsRight(x, st, or, ac, sl) ==
    \A t \in Traces \ sl : x.rows[t] # None =>
        Right(Heard(x, ac), t, x.rows[t], ByEvents(x, st, or, t))

StoredRight(st, or, ac, sl) ==
    \A t \in Traces \ sl : st[t] # None => Right(ac, t, st[t], IsEvent(or[t]))

RightInv ==
    /\ StoredRight(stored, origin, acked, stale)
    /\ \A s \in Sessions : RowsRight(txn[s], stored, origin, acked, stale)

\* A session that has not written a trace has nothing new about it.
LEMMA NothingNew ==
    ASSUME Ground, FoundInv, NEW s \in Sessions, NEW t \in Traces, txn[s].rows[t] = None
    PROVE  \A e \in About(Prefix(txn[s]), t) :
               \E m \in Heard(txn[s], acked) :
                   IsEvent(m) /\ KeyOf(m) = KeyOf(e) /\ (m \in acked \/ m.of # t)
<1>1. Found(txn[s], acked)
  BY DEF FoundInv
<1>2. ASSUME NEW e \in About(Prefix(txn[s]), t)
      PROVE  \E m \in Heard(txn[s], acked) :
                   IsEvent(m) /\ KeyOf(m) = KeyOf(e) /\ (m \in acked \/ m.of # t)
  <2>1. IsEvent(e) /\ e.of = t
    BY DEF About
  <2>2. PICK i \in DOMAIN txn[s].batch : i < txn[s].next /\ e = txn[s].batch[i]
    BY DEF About, Prefix
  <2>3. Answered(txn[s], acked, i)
    BY <1>1, <2>1, <2>2 DEF Found
  <2>. QED
    BY <2>1, <2>2, <2>3 DEF Answered, Heard
<1>. QED
  BY <1>2

\* The row that a session updates, as it finds it.
LEMMA BaseRight ==
    ASSUME Ground, FoundInv, RightInv, NEW s \in Sessions, NEW t \in Traces \ stale,
           stored[t] # None \/ txn[s].rows[t] # None
    PROVE  Right(Heard(txn[s], acked), t, Base(s, t), ByEvents(txn[s], stored, origin, t))
<1>1. CASE txn[s].rows[t] # None
  BY <1>1 DEF RightInv, RowsRight, Base
<1>2. CASE txn[s].rows[t] = None
  <2>1. Right(acked, t, stored[t], IsEvent(origin[t]))
    BY <1>2 DEF RightInv, StoredRight
  <2>2. Covered(acked, Heard(txn[s], acked), t)
    BY <1>2, NothingNew DEF Covered, Heard, About
  <2>3. Right(Heard(txn[s], acked), t, stored[t], IsEvent(origin[t]))
    BY <2>1, <2>2, RightGrows DEF Heard
  <2>. QED
    BY <1>2, <2>3 DEF Base, ByEvents
<1>. QED
  BY <1>1, <1>2

LEMMA AbsorbRight ==
    ASSUME Ground, FoundInv, RightInv, NEW s \in Sessions, Absorb(s)
    PROVE  RowsRight(txn'[s], stored, origin, acked, stale)
<1>. DEFINE x == txn[s]
            y == txn'[s]
            m == Current(s)
<1>1. /\ x \in SessionType /\ y \in SessionType
      /\ x.next \in DOMAIN x.batch /\ x.batch[x.next] = m
  BY AbsorbStep, CurrentType DEF Ground, TypeInv, IngestionTypeOK, SessionType, Current
<1>2. /\ x.pc = "write" /\ Absorbed(s) /\ y.batch = x.batch /\ y.next = x.next + 1
      /\ y.rows = x.rows
  BY AbsorbStep DEF Ground
<1>3. Prefix(y) = Prefix(x) \cup {m}
  BY <1>1, <1>2, PrefixGrows
<1>4. IsEvent(m) => \E e \in Heard(x, acked) : IsEvent(e) /\ KeyOf(e) = KeyOf(m)
  BY <1>2, SeenKey DEF Absorbed, IsEvent, Heard
<1>5. \A t : Covered(Heard(x, acked), Heard(y, acked), t)
  BY <1>3, <1>4 DEF Covered, Heard, About
<1>6. \A t : ByEvents(y, stored, origin, t) = ByEvents(x, stored, origin, t)
  BY <1>2 DEF ByEvents
<1>7. Heard(x, acked) \subseteq Heard(y, acked)
  BY <1>3 DEF Heard
<1>. HIDE DEF x, y
<1>8. RowsRight(x, stored, origin, acked, stale)
  BY DEF RightInv, x
<1>. QED
  BY <1>2, <1>5, <1>6, <1>7, <1>8, RightGrows DEF RowsRight, y

\* An UPDATE of a row that the session has read as it is, or an INSERT.
LEMMA FlushRight ==
    ASSUME Ground, FoundInv, RightInv, NEW s \in Sessions, Flush(s)
    PROVE  RowsRight(txn'[s], stored, origin, acked, stale')
<1>. DEFINE x == txn[s]
            y == txn'[s]
            m == Current(s)
            t == m.of
            A == Heard(x, acked)
<1>0. x \in SessionType /\ y \in SessionType /\ Found(x, acked) /\ x.pc = "write"
  BY FlushStep DEF Ground, TypeInv, IngestionTypeOK, SessionType, FoundInv
<1>1. /\ x \in SessionType /\ y \in SessionType /\ Found(x, acked)
      /\ x.next \in DOMAIN x.batch /\ x.batch[x.next] = m /\ m \in Messages /\ t \in Traces
      /\ \A i \in DOMAIN x.batch : x.batch[i] \in Messages
  <2>1. x.next \in DOMAIN x.batch /\ x.batch[x.next] = m /\ m \in Messages /\ t \in Traces
    BY <1>0, CurrentType DEF Ground, Current
  <2>2. x.batch \in Seq(Messages)
    BY <1>0 DEF SessionType
  <2>3. \A i \in DOMAIN x.batch : x.batch[i] \in Messages
    BY <2>2
  <2>. QED
    BY <1>0, <2>1, <2>3
<1>2. /\ x.pc = "write" /\ ~Absorbed(s) /\ ~Conflict(s)
      /\ y.batch = x.batch /\ y.next = x.next + 1
      /\ y.rows = [x.rows EXCEPT ![t] = NewRow(s)]
      /\ stale' = IF Copy(s) # None /\ Base(s, t) # Copy(s) THEN stale \cup {t} ELSE stale
  BY FlushStep DEF Ground
<1>3. Heard(y, acked) = A \cup {m}
  BY <1>1, <1>2, PrefixGrows DEF Heard
<1>4. \A u : ByEvents(y, stored, origin, u) = ByEvents(x, stored, origin, u)
  BY <1>2 DEF ByEvents
<1>5. y.rows[t] = NewRow(s) /\ \A u \in Traces : u # t => y.rows[u] = x.rows[u]
  BY <1>1, <1>2 DEF SessionType
<1>6. stale \subseteq stale'
  BY <1>2
<1>7. ASSUME NEW u \in Traces \ stale', u # t, y.rows[u] # None
      PROVE  Right(Heard(y, acked), u, y.rows[u], ByEvents(y, stored, origin, u))
  <2>1. Right(A, u, x.rows[u], ByEvents(x, stored, origin, u))
    BY <1>5, <1>6, <1>7 DEF RightInv, RowsRight
  <2>2. Covered(A, A \cup {m}, u)
    BY <1>7 DEF Covered, About
  <2>. HIDE DEF x, y, A, m, t
  <2>. QED
    BY <1>3, <1>4, <1>5, <1>7, <2>1, <2>2, RightGrows
<1>8. ASSUME t \notin stale', Copy(s) # None
      PROVE  Right(A \cup {m}, t, NewRow(s), ByEvents(x, stored, origin, t))
  <2>1. Base(s, t) = Copy(s) /\ t \notin stale
    BY <1>2, <1>8
  <2>2. NewRow(s) = Written(s)
    BY <1>2, <1>8, <2>1, FlushedRow DEF Ground
  <2>3. IsEvent(m) /\ m \in EventMessages
    BY <1>1, <1>2, <1>8, EventKeys1 DEF Absorbed, IsEvent
  <2>4. Copy(s) \in Rows
    BY <1>1, <1>8, RowTypes DEF Copy, Ground
  <2>5. Written(s) = Applied(Copy(s), m)
    BY <1>8, <2>3 DEF Written, IsEvent
  <2>6. stored[t] # None \/ x.rows[t] # None
    BY <1>8, <2>1 DEF Base
  <2>7. Right(A, t, Copy(s), ByEvents(x, stored, origin, t))
    BY <1>1, <2>1, <2>6, BaseRight
  <2>. HIDE DEF A, x
  <2>. QED
    BY <2>2, <2>3, <2>4, <2>5, <2>7, EventRight
<1>9. ASSUME Copy(s) = None
      PROVE  Right(A \cup {m}, t, NewRow(s), ByEvents(x, stored, origin, t))
  <2>1. stored[t] = None /\ NewRow(s) = Written(s)
    BY <1>2, <1>9 DEF Conflict, NewRow
  <2>2. About(acked, t) = {}
    BY <2>1 DEF About, Ground, RetryInv, Recorded, IsEvent
  <2>3. About(Prefix(x), t) = {}
    BY <1>1, <1>2, <1>9 DEF About, Prefix, Found, Copy
  <2>4. About(A, t) = {}
    BY <2>2, <2>3 DEF Heard, About
  <2>5. CASE IsEvent(m)
    <3>1. m \in EventMessages /\ Written(s) = Applied(FromEvent(m), m)
      BY <1>1, <1>9, <2>5, EventKeys1 DEF Written, IsEvent
    <3>2. Right(A \cup {m}, t, Applied(FromEvent(m), m), TRUE)
      BY <2>4, <3>1, FirstEventRight
    <3>. QED
      BY <2>1, <3>1, <3>2 DEF Right
  <2>6. CASE ~IsEvent(m)
    <3>1. ~ByEvents(x, stored, origin, t)
      BY <1>1, <2>1, <2>6 DEF ByEvents
    <3>2. About(A \cup {m}, t) = {}
      BY <2>4, <2>6 DEF About
    <3>. QED
      BY <3>1, <3>2 DEF Right, Kept
  <2>. QED
    BY <2>5, <2>6
<1>10. t \notin stale' =>
           Right(Heard(y, acked), t, y.rows[t], ByEvents(y, stored, origin, t))
  BY <1>3, <1>4, <1>5, <1>8, <1>9
<1>. HIDE DEF y, t
<1>. QED
  BY <1>7, <1>10 DEF RowsRight, y

LEMMA OwnRight ==
    ASSUME Ground, FoundInv, RightInv, NEW s \in Sessions, Moved(s)
    PROVE  RowsRight(txn'[s], stored', origin', acked', stale')
<1>1. ASSUME txn'[s].rows = NoRows
      PROVE  RowsRight(txn'[s], stored', origin', acked', stale')
  BY <1>1 DEF RowsRight, NoRows
<1>2. CASE \E batch \in Requests : Submit(s, batch)
  BY <1>1, <1>2, SubmitStep DEF Ground
<1>3. CASE Reject(s) \/ BreakDeadlock(s) \/ Die(s) \/ Release(s) \/ Commit(s)
  BY <1>1, <1>3, NothingHeld DEF Ground
<1>4. CASE Lookup(s)
  <2>1. /\ UNCHANGED <<stored, origin, acked, stale>> /\ txn'[s].batch = txn[s].batch
        /\ txn'[s].next = txn[s].next /\ txn'[s].rows = txn[s].rows
    BY <1>4, LookupStep DEF Ground, db, history
  <2>2. Heard(txn'[s], acked) = Heard(txn[s], acked)
    BY <2>1 DEF Heard, Prefix
  <2>3. \A t : ByEvents(txn'[s], stored, origin, t) = ByEvents(txn[s], stored, origin, t)
    BY <2>1 DEF ByEvents
  <2>. QED
    BY <2>1, <2>2, <2>3 DEF RightInv, RowsRight
<1>5. CASE Absorb(s)
  <2>1. UNCHANGED <<stored, origin, acked, stale>>
    BY <1>5, AbsorbStep DEF Ground, db, history
  <2>. QED
    BY <1>5, <2>1, AbsorbRight
<1>6. CASE Flush(s)
  <2>1. UNCHANGED <<stored, origin, acked>>
    BY <1>6, FlushStep DEF Ground, db
  <2>. QED
    BY <1>6, <2>1, FlushRight
<1>. QED
  BY <1>2, <1>3, <1>4, <1>5, <1>6 DEF Moved, SessionStep

\* A commit makes of what the session had heard what is acknowledged.
LEMMA CommitRight ==
    ASSUME Ground, FoundInv, RightInv, NEW s \in Sessions, Commit(s)
    PROVE  StoredRight(stored', origin', acked', stale)
<1>. DEFINE x == txn[s]
<1>1. SUFFICES ASSUME NEW t \in Traces \ stale, stored'[t] # None
               PROVE  Right(acked', t, stored'[t], IsEvent(origin'[t]))
  BY DEF StoredRight
<1>2. /\ stored'[t] = Base(s, t) /\ acked' = Heard(x, acked)
      /\ origin'[t] = IF stored[t] = None /\ x.rows[t] # None THEN FirstOf(s, t) ELSE origin[t]
  BY CommitStep, CommitPrefix DEF Ground, Heard
<1>3. stored[t] # None \/ x.rows[t] # None
  BY <1>1, <1>2 DEF Base
<1>4. Right(acked', t, stored'[t], ByEvents(x, stored, origin, t))
  BY <1>2, <1>3, BaseRight
<1>5. IsEvent(origin'[t]) => ByEvents(x, stored, origin, t)
  <2>1. CASE stored[t] # None
    BY <1>2, <2>1 DEF ByEvents
  <2>2. CASE stored[t] = None
    <3>1. origin'[t] = FirstOf(s, t)
      BY <1>2, <1>3, <2>2
    <3>2. PICK i \in DOMAIN x.batch : FirstOf(s, t) = x.batch[i]
      BY <1>3, <2>2, FirstOfBatch DEF Ground
    <3>3. x.pc \in Working
      BY EndSteps DEF Ground, Working
    <3>. QED
      BY <2>2, <3>1, <3>2, <3>3, OneKind DEF ByEvents, Ground
  <2>. QED
    BY <2>1, <2>2
<1>. QED
  BY <1>4, <1>5 DEF Right

\* Another session's commit tells of nothing new about a trace it has written.
LEMMA OthersRight ==
    ASSUME Ground, FoundInv, RightInv, NEW s \in Sessions, Commit(s),
           NEW r \in Sessions, r # s
    PROVE  RowsRight(txn[r], stored', origin', acked', stale)
<1>. DEFINE x == txn[r]
<1>1. SUFFICES ASSUME NEW t \in Traces \ stale, x.rows[t] # None
               PROVE  Right(Heard(x, acked'), t, x.rows[t], ByEvents(x, stored', origin', t))
  BY DEF RowsRight
<1>2. txn[s].rows[t] = None
  BY <1>1 DEF Ground, RetryInv, Exclusive
<1>3. stored'[t] = stored[t] /\ origin'[t] = origin[t] /\ acked' = acked \cup Prefix(txn[s])
  BY <1>2, CommitStep, CommitPrefix DEF Ground, Base
<1>4. Right(Heard(x, acked), t, x.rows[t], ByEvents(x, stored, origin, t))
  BY <1>1 DEF RightInv, RowsRight
<1>5. Covered(Heard(x, acked), Heard(x, acked'), t)
  BY <1>2, <1>3, NothingNew DEF Covered, Heard, About
<1>6. ByEvents(x, stored', origin', t) = ByEvents(x, stored, origin, t)
  BY <1>3 DEF ByEvents
<1>7. Heard(x, acked) \subseteq Heard(x, acked')
  BY <1>3 DEF Heard
<1>. HIDE DEF x
<1>. QED
  BY <1>4, <1>5, <1>6, <1>7, RightGrows

LEMMA RightPreserved ==
    ASSUME Ground, FoundInv, RightInv, NEW s \in Sessions, Moved(s)
    PROVE  RightInv'
<1>1. RowsRight(txn'[s], stored', origin', acked', stale')
  BY OwnRight
<1>2. stale \subseteq stale'
  BY OthersStay
<1>3. ASSUME NEW r \in Sessions, r # s
      PROVE  RowsRight(txn'[r], stored', origin', acked', stale')
  <2>1. txn'[r] = txn[r]
    BY <1>3, OthersStay
  <2>2. RowsRight(txn[r], stored', origin', acked', stale)
    <3>1. CASE Commit(s)
      BY <1>3, <3>1, OthersRight
    <3>2. CASE ~Commit(s)
      BY <3>2, OthersStay DEF RightInv
    <3>. QED
      BY <3>1, <3>2
  <2>. QED
    BY <1>2, <2>1, <2>2 DEF RowsRight
<1>4. StoredRight(stored', origin', acked', stale')
  <2>1. StoredRight(stored', origin', acked', stale)
    <3>1. CASE Commit(s)
      BY <3>1, CommitRight
    <3>2. CASE ~Commit(s)
      BY <3>2, OthersStay DEF RightInv
    <3>. QED
      BY <3>1, <3>2
  <2>. QED
    BY <1>2, <2>1 DEF StoredRight
<1>5. \A r \in Sessions : RowsRight(txn'[r], stored', origin', acked', stale')
  BY <1>1, <1>3
<1>. QED
  BY <1>4, <1>5 DEF RightInv

-----------------------------------------------------------------------------
(* Posted traces.                                                          *)

PostedIds(m) == {m.steps[i].id : i \in DOMAIN m.steps}

\* The row has the steps of the post that the trace was created by.
HasPost(m, row) ==
    m # None /\ ~IsEvent(m) => PostedIds(m) \subseteq StepIdsOf(row)

\* The first message of x about t, if it is a post, is in the row of x.
CopiesHavePost(x, st, or) ==
    \A t \in Traces : st[t] # None =>
        /\ x.view[t] # None => HasPost(or[t], x.view[t])
        /\ x.rows[t] # None => HasPost(or[t], x.rows[t])

FirstIn(batch, t) ==
    LET about == {i \in DOMAIN batch : batch[i].of = t}
    IN  batch[CHOOSE i \in about : \A j \in about : i <= j]

NewHavePost(x, st) ==
    \A t \in Traces : st[t] = None /\ x.rows[t] # None =>
        HasPost(FirstIn(x.batch, t), x.rows[t])

StoredHavePost(st, or) ==
    \A t \in Traces : or[t] # None => st[t] # None /\ HasPost(or[t], st[t])

PostInv ==
    /\ StoredHavePost(stored, origin)
    /\ \A s \in Sessions : /\ CopiesHavePost(txn[s], stored, origin)
                           /\ NewHavePost(txn[s], stored)

LEMMA FirstAt ==
    ASSUME NEW batch \in Seq(Messages), NEW t, NEW k \in DOMAIN batch, batch[k].of = t
    PROVE  \E i \in DOMAIN batch :
               /\ i = k \/ i < k
               /\ batch[i].of = t /\ FirstIn(batch, t) = batch[i]
<1>. DEFINE about == {i \in DOMAIN batch : batch[i].of = t}
            least == CHOOSE i \in about : \A j \in about : i <= j
<1>1. about \subseteq Nat /\ k \in about
  OBVIOUS
<1>2. least \in about /\ \A j \in about : least <= j
  <2>. HIDE DEF about
  <2>. QED
    BY <1>1, LeastNumber
<1>3. FirstIn(batch, t) = batch[least]
  BY DEF FirstIn
<1>4. least \in DOMAIN batch /\ batch[least].of = t /\ (least = k \/ least < k)
  BY <1>1, <1>2
<1>. HIDE DEF least
<1>. QED
  BY <1>3, <1>4

LEMMA HasPostGrows ==
    ASSUME NEW m, NEW r, NEW q, StepIdsOf(r) \subseteq StepIdsOf(q), HasPost(m, r)
    PROVE  HasPost(m, q)
  BY DEF HasPost

LEMMA FlushKeepsPosts ==
    ASSUME Ground, FoundInv, PostInv, NEW s \in Sessions, Flush(s)
    PROVE  CopiesHavePost(txn'[s], stored, origin)
<1>. DEFINE x == txn[s]
            y == txn'[s]
            m == Current(s)
            t == m.of
<1>1. x \in SessionType /\ y \in SessionType /\ m \in Messages /\ t \in Traces
  BY FlushStep, CurrentType DEF Ground, TypeInv, IngestionTypeOK, SessionType
<1>2. /\ x.pc = "write" /\ ~Absorbed(s) /\ ~Conflict(s)
      /\ y.view = [x.view EXCEPT ![t] = Written(s)]
      /\ y.rows = [x.rows EXCEPT ![t] = NewRow(s)]
  BY FlushStep DEF Ground
<1>3. /\ y.view[t] = Written(s) /\ y.rows[t] = NewRow(s)
      /\ \A u \in Traces : u # t => y.view[u] = x.view[u] /\ y.rows[u] = x.rows[u]
  BY <1>1, <1>2 DEF SessionType
<1>4. CopiesHavePost(x, stored, origin)
  BY DEF PostInv
<1>5. ASSUME stored[t] # None
      PROVE  HasPost(origin[t], Written(s)) /\ HasPost(origin[t], NewRow(s))
  <2>1. Copy(s) # None /\ Copy(s) \in Rows
    BY <1>1, <1>2, <1>5, RowTypes DEF Conflict, Copy, Ground
  <2>2. m \in EventMessages /\ Written(s) = Applied(Copy(s), m)
    BY <1>1, <1>2, <2>1, EventKeys1 DEF Absorbed, IsEvent, Written
  <2>3. HasPost(origin[t], Copy(s))
    BY <1>1, <1>4, <1>5, <2>1 DEF CopiesHavePost, Copy
  <2>4. HasPost(origin[t], Written(s))
    BY <2>1, <2>2, <2>3, AppliedIds, HasPostGrows
  <2>5. HasPost(origin[t], Base(s, t))
    <3>1. CASE x.rows[t] # None
      BY <1>1, <1>4, <1>5, <3>1 DEF CopiesHavePost, Base
    <3>2. CASE x.rows[t] = None
      BY <1>1, <3>2 DEF PostInv, StoredHavePost, Base, HasPost
    <3>. QED
      BY <3>1, <3>2
  <2>6. NewRow(s).steps \in {Written(s).steps, Base(s, t).steps}
    BY <1>2, FlushedRow DEF Ground
  <2>7. StepIdsOf(NewRow(s)) \in {StepIdsOf(Written(s)), StepIdsOf(Base(s, t))}
    BY <2>6 DEF StepIdsOf
  <2>. QED
    BY <2>4, <2>5, <2>7 DEF HasPost
<1>. HIDE DEF x, y, t
<1>. QED
  BY <1>3, <1>4, <1>5 DEF CopiesHavePost, y

LEMMA FlushHasPost ==
    ASSUME Ground, FoundInv, PostInv, NEW s \in Sessions, Flush(s)
    PROVE  NewHavePost(txn'[s], stored)
<1>. DEFINE x == txn[s]
            y == txn'[s]
            m == Current(s)
            t == m.of
<1>1. /\ x \in SessionType /\ y \in SessionType /\ Found(x, acked) /\ x.pc \in Working
      /\ NewHavePost(x, stored)
  BY FlushStep DEF Ground, TypeInv, IngestionTypeOK, SessionType, FoundInv, Working, PostInv
<1>2. /\ x.pc = "write" /\ ~Absorbed(s) /\ ~Conflict(s) /\ y.batch = x.batch
      /\ y.rows = [x.rows EXCEPT ![t] = NewRow(s)]
  BY FlushStep DEF Ground
<1>3. /\ x.next \in DOMAIN x.batch /\ x.batch[x.next] = m /\ m \in Messages /\ t \in Traces
      /\ x.batch \in Seq(Messages)
  BY <1>1, <1>2, CurrentType DEF Ground, Current, SessionType
<1>4. /\ y.rows[t] = NewRow(s)
      /\ \A u \in Traces : u # t => y.rows[u] = x.rows[u]
  BY <1>1, <1>2, <1>3 DEF SessionType
<1>5. HasPost(FirstIn(x.batch, t), NewRow(s))
  <2>1. PICK i \in DOMAIN x.batch : /\ i = x.next \/ i < x.next
                                    /\ x.batch[i].of = t /\ FirstIn(x.batch, t) = x.batch[i]
    <3>1. x.batch \in Seq(Messages) /\ x.next \in DOMAIN x.batch /\ x.batch[x.next].of = t
      BY <1>3
    <3>. DEFINE b == x.batch
                k == x.next
    <3>2. b \in Seq(Messages) /\ k \in DOMAIN b /\ b[k].of = t
      BY <3>1
    <3>. HIDE DEF b, k, m
    <3>3. \E i \in DOMAIN b : /\ i = k \/ i < k
                              /\ b[i].of = t /\ FirstIn(b, t) = b[i]
      BY <3>2, FirstAt
    <3>. QED
      BY <3>3 DEF b, k
  <2>2. CASE IsEvent(m)
    BY <1>1, <1>3, <2>1, <2>2, OneKind DEF HasPost, Ground
  <2>3. CASE ~IsEvent(m)
    <3>1. Copy(s) = None /\ Written(s) = FromPost(m) /\ m \in TraceMessages
      BY <1>2, <1>3, <2>3, EventKeys1, MessageTypes DEF Absorbed, IsEvent, Written
    <3>2. ~(i < x.next)
      BY <1>1, <1>2, <2>1, <3>1 DEF Found, Copy
    <3>3. FirstIn(x.batch, t) = m
      BY <1>3, <2>1, <3>2
    <3>4. NewRow(s).steps = m.steps
      BY <3>1, PostedRow DEF NewRow
    <3>. QED
      BY <3>3, <3>4 DEF HasPost, PostedIds, StepIdsOf
  <2>. QED
    BY <2>2, <2>3
<1>. HIDE DEF x, y, t
<1>. QED
  BY <1>1, <1>2, <1>4, <1>5 DEF NewHavePost, y

\* A session that has no rows of its own has nothing to show.
LEMMA NothingPosted ==
    ASSUME NEW x, NEW st, NEW or, x.view = NoRows, x.rows = NoRows
    PROVE  CopiesHavePost(x, st, or) /\ NewHavePost(x, st)
<1>1. \A t \in Traces : x.view[t] = None /\ x.rows[t] = None
  BY DEF NoRows
<1>. QED
  BY <1>1 DEF CopiesHavePost, NewHavePost

LEMMA OwnPosts ==
    ASSUME Ground, FoundInv, PostInv, NEW s \in Sessions, Moved(s)
    PROVE  \/ CopiesHavePost(txn'[s], stored, origin) /\ NewHavePost(txn'[s], stored)
           \/ txn'[s].view = NoRows /\ txn'[s].rows = NoRows
<1>. DEFINE x == txn[s]
            y == txn'[s]
<1>1. CopiesHavePost(x, stored, origin) /\ NewHavePost(x, stored)
  BY DEF PostInv
<1>2. CASE \E batch \in Requests : Submit(s, batch)
  BY <1>2, SubmitStep DEF Ground
<1>3. CASE Lookup(s)
  <2>1. /\ y.rows = x.rows /\ y.batch = x.batch
        /\ y.view = [x.view EXCEPT ![Current(s).of] = Visible(s, Current(s).of)]
        /\ x.view \in [Traces -> Rows \cup {None}]
    BY <1>3, LookupStep DEF Ground, TypeInv, IngestionTypeOK
  <2>2. NewHavePost(y, stored)
    BY <1>1, <2>1 DEF NewHavePost
  <2>3. \A t \in Traces : y.view[t] \in {x.view[t], stored[t]}
    BY <2>1 DEF Visible
  <2>4. \A t \in Traces : HasPost(origin[t], stored[t])
    BY DEF PostInv, StoredHavePost, HasPost
  <2>5. CopiesHavePost(y, stored, origin)
    BY <1>1, <2>1, <2>3, <2>4 DEF CopiesHavePost
  <2>. QED
    BY <2>2, <2>5
<1>4. CASE Absorb(s)
  <2>1. y.rows = x.rows /\ y.batch = x.batch /\ y.view = x.view
    BY <1>4, AbsorbStep DEF Ground
  <2>. QED
    BY <1>1, <2>1 DEF CopiesHavePost, NewHavePost
<1>5. CASE Flush(s)
  BY <1>5, FlushKeepsPosts, FlushHasPost
<1>6. CASE Reject(s) \/ BreakDeadlock(s) \/ Die(s) \/ Release(s) \/ Commit(s)
  BY <1>6, NothingHeld DEF Ground
<1>. QED
  BY <1>2, <1>3, <1>4, <1>5, <1>6 DEF Moved, SessionStep

\* What a commit makes of the rows of the database, and of the others' view.
LEMMA CommitPosts ==
    ASSUME Ground, PostInv, NEW s \in Sessions, Commit(s)
    PROVE  /\ StoredHavePost(stored', origin')
           /\ \A r \in Sessions : r # s => /\ CopiesHavePost(txn[r], stored', origin')
                                           /\ NewHavePost(txn[r], stored')
<1>. DEFINE x == txn[s]
<1>1. \A t \in Traces : stored'[t] = IF x.rows[t] # None THEN x.rows[t] ELSE stored[t]
  BY CommitStep DEF Ground, Base
<1>2. \A t \in Traces : origin'[t] =
          IF stored[t] = None /\ x.rows[t] # None THEN FirstIn(x.batch, t) ELSE origin[t]
  <2>1. \A t : FirstOf(s, t) = FirstIn(x.batch, t)
    BY Zenon DEF FirstOf, FirstIn
  <2>2. \A t \in Traces : origin'[t] =
            IF stored[t] = None /\ x.rows[t] # None THEN FirstOf(s, t) ELSE origin[t]
    BY CommitStep DEF Ground
  <2>. QED
    BY <2>1, <2>2
<1>3. StoredHavePost(stored, origin) /\ CopiesHavePost(x, stored, origin) /\ NewHavePost(x, stored)
  BY DEF PostInv
<1>4. StoredHavePost(stored', origin')
  <2>. SUFFICES ASSUME NEW t \in Traces, origin'[t] # None
                PROVE  stored'[t] # None /\ HasPost(origin'[t], stored'[t])
    BY DEF StoredHavePost
  <2>1. CASE stored[t] = None /\ x.rows[t] # None
    BY <1>1, <1>2, <1>3, <2>1 DEF NewHavePost
  <2>2. CASE ~(stored[t] = None /\ x.rows[t] # None)
    <3>1. origin'[t] = origin[t] /\ stored[t] # None /\ HasPost(origin[t], stored[t])
      BY <1>2, <1>3, <2>2 DEF StoredHavePost
    <3>2. x.rows[t] # None => HasPost(origin[t], x.rows[t])
      BY <1>3, <3>1 DEF CopiesHavePost
    <3>. QED
      BY <1>1, <3>1, <3>2
  <2>. QED
    BY <2>1, <2>2
<1>5. ASSUME NEW r \in Sessions, r # s
      PROVE  CopiesHavePost(txn[r], stored', origin') /\ NewHavePost(txn[r], stored')
  <2>1. CopiesHavePost(txn[r], stored, origin) /\ NewHavePost(txn[r], stored)
    BY DEF PostInv
  <2>2. ASSUME NEW t \in Traces, stored[t] = None, stored'[t] # None
        PROVE  txn[r].rows[t] = None /\ txn[r].view[t] = None
    <3>1. txn[r].rows[t] = None
      BY <1>1, <1>5, <2>2 DEF Ground, RetryInv, Exclusive
    <3>. QED
      BY <2>2, <3>1 DEF Ground, Copied, Base
  <2>3. \A t \in Traces : stored[t] # None => origin'[t] = origin[t] /\ stored'[t] # None
    BY <1>1, <1>2
  <2>4. CopiesHavePost(txn[r], stored', origin')
    BY <2>1, <2>2, <2>3 DEF CopiesHavePost
  <2>5. NewHavePost(txn[r], stored')
    BY <2>1, <2>3 DEF NewHavePost
  <2>. QED
    BY <2>4, <2>5
<1>. QED
  BY <1>4, <1>5

LEMMA PostPreserved ==
    ASSUME Ground, FoundInv, PostInv, NEW s \in Sessions, Moved(s)
    PROVE  PostInv'
<1>1. StoredHavePost(stored', origin')
  <2>1. CASE Commit(s)
    BY <2>1, CommitPosts
  <2>2. CASE ~Commit(s)
    BY <2>2, OthersStay DEF PostInv
  <2>. QED
    BY <2>1, <2>2
<1>2. CopiesHavePost(txn'[s], stored', origin') /\ NewHavePost(txn'[s], stored')
  <2>1. CASE txn'[s].view = NoRows /\ txn'[s].rows = NoRows
    BY <2>1, NothingPosted
  <2>2. CASE /\ ~(txn'[s].view = NoRows /\ txn'[s].rows = NoRows)
             /\ ~Commit(s)
    BY <2>2, OwnPosts, OthersStay
  <2>3. CASE Commit(s)
    BY <2>1, <2>3, NothingHeld DEF Ground
  <2>. QED
    BY <2>1, <2>2, <2>3
<1>3. ASSUME NEW r \in Sessions, r # s
      PROVE  CopiesHavePost(txn'[r], stored', origin') /\ NewHavePost(txn'[r], stored')
  <2>1. txn'[r] = txn[r]
    BY <1>3, OthersStay
  <2>2. CopiesHavePost(txn[r], stored, origin) /\ NewHavePost(txn[r], stored)
    BY DEF PostInv
  <2>3. CASE Commit(s)
    BY <1>3, <2>1, <2>3, CommitPosts
  <2>4. CASE ~Commit(s)
    BY <2>1, <2>2, <2>4, OthersStay
  <2>. QED
    BY <2>3, <2>4
<1>4. \A r \in Sessions : /\ CopiesHavePost(txn'[r], stored', origin')
                          /\ NewHavePost(txn'[r], stored')
  BY <1>2, <1>3
<1>. QED
  BY <1>1, <1>4 DEF PostInv

-----------------------------------------------------------------------------
(* The theorems.                                                           *)

RecordInv == FoundInv /\ RightInv /\ PostInv

LEMMA GroundInvariant == IngestionSpec => []Ground
<1>1. IngestionInit => SettledInv
  BY DEF IngestionInit, SettledInv, Settled, IdleSession, NoKeys, Working
<1>2. IngestionInit => RetryInv
  BY DEF IngestionInit, RetryInv, Exclusive, KeysAreNew, Holds, Writes, IdleSession,
         NoRows, NoKeys
<1>3. TypeInv /\ Copied /\ SettledInv /\ [IngestionNext]_ingestionVars => SettledInv'
  BY SettledPreserved
<1>4. TypeInv /\ Copied /\ SettledInv /\ RetryInv /\ [IngestionNext]_ingestionVars => RetryInv'
  BY RetryPreserved
<1>5. TypeInv /\ Copied /\ SettledInv /\ RetryInv => Ground
  BY DEF Ground
<1>. QED
  BY <1>1, <1>2, <1>3, <1>4, <1>5, TypeInvariant, PTL DEF IngestionSpec

LEMMA RecordInitially == IngestionInit => RecordInv
<1>. SUFFICES ASSUME IngestionInit
              PROVE  RecordInv
  OBVIOUS
<1>1. /\ \A t \in Traces : stored[t] = None /\ origin[t] = None
      /\ \A k \in AllKeys : keys[k] = None
      /\ \A s \in Sessions : txn[s] = IdleSession
  BY DEF IngestionInit, NoRows, NoKeys
<1>2. /\ IdleSession.view = NoRows /\ IdleSession.rows = NoRows
      /\ IdleSession.keys = NoKeys /\ IdleSession.next = 1 /\ IdleSession \in SessionType
  BY IdleType DEF IdleSession
<1>3. FoundInv
  <2>1. Keyed(keys, acked)
    BY <1>1 DEF Keyed, AllKeys
  <2>2. Found(IdleSession, acked)
    BY <1>2, FoundAtStart
  <2>. QED
    BY <1>1, <2>1, <2>2 DEF FoundInv
<1>4. RightInv
  <2>1. StoredRight(stored, origin, acked, stale)
    BY <1>1 DEF StoredRight
  <2>2. RowsRight(IdleSession, stored, origin, acked, stale)
    BY <1>2 DEF RowsRight, NoRows
  <2>. QED
    BY <1>1, <2>1, <2>2 DEF RightInv
<1>5. PostInv
  <2>1. StoredHavePost(stored, origin)
    BY <1>1 DEF StoredHavePost
  <2>2. CopiesHavePost(IdleSession, stored, origin) /\ NewHavePost(IdleSession, stored)
    BY <1>2, NothingPosted
  <2>. QED
    BY <1>1, <2>1, <2>2 DEF PostInv
<1>. QED
  BY <1>3, <1>4, <1>5 DEF RecordInv

LEMMA RecordPreserved ==
    ASSUME Ground, RecordInv, [IngestionNext]_ingestionVars
    PROVE  RecordInv'
<1>1. CASE UNCHANGED ingestionVars
  <2>1. FoundInv'
    BY <1>1 DEF ingestionVars, RecordInv, FoundInv
  <2>2. RightInv'
    BY <1>1 DEF ingestionVars, RecordInv, RightInv
  <2>3. PostInv'
    BY <1>1 DEF ingestionVars, RecordInv, PostInv
  <2>. QED
    BY <2>1, <2>2, <2>3 DEF RecordInv
<1>2. ASSUME NEW s \in Sessions, Moved(s)
      PROVE  RecordInv'
  BY <1>2, FoundPreserved, RightPreserved, PostPreserved DEF RecordInv
<1>. QED
  BY <1>1, <1>2 DEF IngestionNext, Moved

LEMMA RecordInvariant == IngestionSpec => [](Ground /\ RecordInv)
<1>1. IngestionInit => RecordInv
  BY RecordInitially
<1>2. Ground /\ RecordInv /\ [IngestionNext]_ingestionVars => RecordInv'
  BY RecordPreserved
<1>. QED
  BY <1>1, <1>2, GroundInvariant, PTL DEF IngestionSpec

\* What a client was told is stored, is stored: the step of an acknowledged
\* event with an event_id of its own, unless an update from an outdated copy
\* undid it, and the steps of the post that created a trace (persist_trace and
\* ingest_event in concurrent requests).
THEOREM AckedStepsAreKept == IngestionSpec => []AckedStepsKept
<1>1. ASSUME Ground, RecordInv
      PROVE  AckedStepsKept
  <2>1. SUFFICES ASSUME NEW m \in acked
                 PROVE  /\ m.kind = "event" /\ m.type = "step" /\ OwnId(m) /\ m.of \notin stale =>
                               stored[m.of] # None /\ m.id \in StepIdsOf(stored[m.of])
                        /\ m = origin[m.of] /\ m.kind = "trace" =>
                               PostedIds(m) \subseteq StepIdsOf(stored[m.of])
    BY DEF AckedStepsKept, PostedIds
  <2>2. m \in Messages /\ m.of \in Traces /\ m # None
    BY <1>1, MessageTypes, IngestionConstantsOK DEF Ground, TypeInv, IngestionTypeOK
  <2>3. ASSUME m.kind = "event", m.type = "step", OwnId(m), m.of \notin stale
        PROVE  stored[m.of] # None /\ m.id \in StepIdsOf(stored[m.of])
    <3>1. stored[m.of] # None
      BY <1>1, <2>3 DEF Ground, RetryInv, Recorded
    <3>2. Kept(acked, m.of, stored[m.of])
      BY <1>1, <2>2, <2>3, <3>1 DEF RecordInv, RightInv, StoredRight, Right
    <3>3. OwnIn(acked, m)
      BY <2>3 DEF OwnIn, OwnId, IsEvent
    <3>. QED
      BY <2>3, <3>1, <3>2, <3>3 DEF Kept, About, IsEvent
  <2>4. ASSUME m = origin[m.of], m.kind = "trace"
        PROVE  PostedIds(m) \subseteq StepIdsOf(stored[m.of])
    <3>1. HasPost(m, stored[m.of])
      BY <1>1, <2>2, <2>4 DEF RecordInv, PostInv, StoredHavePost
    <3>. QED
      BY <2>2, <2>4, <3>1 DEF HasPost, IsEvent
  <2>. QED
    BY <2>3, <2>4
<1>. QED
  BY <1>1, RecordInvariant, PTL

\* The latency and the status of a trace made of events are those of its
\* trace_end and its steps, whatever the order of arrival (_recompute_summary).
THEOREM SummariesAreOrderFree == IngestionSpec => []SummaryOrderFree
<1>1. ASSUME Ground, RecordInv
      PROVE  SummaryOrderFree
  <2>1. SUFFICES ASSUME NEW t \in Traces \ stale, stored[t] # None, IsEvent(origin[t]),
                        \A e \in AckedEvents(t) : OwnId(e)
                 PROVE  LET ends == {e \in AckedEvents(t) : e.type = "trace_end"}
                            failed == \E i \in DOMAIN stored[t].steps :
                                          stored[t].steps[i].status = "error"
                            row == stored[t]
                        IN  /\ ends = {} => row.summary.ms = StepMs(row.steps)
                            /\ \A e \in ends : ends = {e} /\ e.ms # 0 =>
                                   /\ row.summary.ms = e.ms
                                   /\ row.summary.status = IF failed THEN "error" ELSE e.status
    BY DEF SummaryOrderFree, IsEvent
  <2>2. AckedEvents(t) = About(acked, t)
    BY DEF AckedEvents, About, IsEvent
  <2>3. \A e \in About(acked, t) : OwnIn(acked, e)
    BY <2>1, <2>2 DEF OwnIn, OwnId, IsEvent
  <2>4. Told(acked, t, stored[t])
    BY <1>1, <2>1 DEF RecordInv, RightInv, StoredRight, Right
  <2>5. {e \in AckedEvents(t) : e.type = "trace_end"} = Ends(acked, t)
    BY <2>2 DEF Ends
  <2>6. Ends(acked, t) = {} => stored[t].summary.ms = StepMs(stored[t].steps)
    BY <2>3, <2>4 DEF Told, Open
  <2>7. \A e \in Ends(acked, t) : Ends(acked, t) = {e} /\ e.ms # 0 =>
            /\ stored[t].summary.ms = e.ms
            /\ stored[t].summary.status = IF HasFailed(stored[t]) THEN "error" ELSE e.status
    BY <2>3, <2>4 DEF Told, Tells
  <2>. QED
    BY <2>5, <2>6, <2>7 DEF HasFailed
<1>. QED
  BY <1>1, RecordInvariant, PTL

\* A trace made of events never ends before it starts, and its raw payload
\* tells what its columns tell (ingest_event).
THEOREM RecordsAreCoherent == IngestionSpec => []RecordCoherent
<1>1. ASSUME Ground, RecordInv
      PROVE  RecordCoherent
  <2>1. SUFFICES ASSUME NEW t \in Traces \ stale, stored[t] # None, IsEvent(origin[t])
                 PROVE  Coherent(stored[t])
    BY DEF RecordCoherent, Coherent, IsEvent
  <2>. QED
    BY <1>1, <2>1 DEF RecordInv, RightInv, StoredRight, Right
<1>. QED
  BY <1>1, RecordInvariant, PTL
=============================================================================
