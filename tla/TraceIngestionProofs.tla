------------------------ MODULE TraceIngestionProofs ------------------------
(***************************************************************************)
(* Theorems about TraceIngestion for any number of sessions, traces,       *)
(* events and requests.                                                    *)
(***************************************************************************)
EXTENDS TraceIngestion, WellFoundedInduction, TLAPS

-----------------------------------------------------------------------------
(* The sum over the steps of a trace is a number.                          *)

\* A set of numbers has a least element.
LEMMA LeastNumber ==
    ASSUME NEW T, T \subseteq Nat, T # {}
    PROVE  \E m \in T : \A n \in T : m <= n
<1>1. PICK m \in T : \A n \in T : <<n, m>> \notin OpToRel(<, Nat)
  BY NatLessThanWellFounded, WFMin
<1>2. \A n \in T : ~(n < m)
  BY <1>1 DEF OpToRel
<1>. QED
  BY <1>2

Sums(steps, n, g) ==
    g = [i \in 0 .. n |-> IF i = 0 THEN 0 ELSE g[i - 1] + steps[i].ms]

LEMMA SumsExist ==
    ASSUME NEW steps \in Seq(StepRecords), NEW n \in 0 .. Len(steps)
    PROVE  \E g : Sums(steps, n, g)
<1>. DEFINE T == {k \in 0 .. Len(steps) : ~ \E g : Sums(steps, k, g)}
<1>1. SUFFICES T = {}
  OBVIOUS
<1>. SUFFICES ASSUME T # {}
              PROVE  FALSE
  OBVIOUS
<1>2. PICK m \in T : \A k \in T : m <= k
  <2>1. T \subseteq Nat
    OBVIOUS
  <2>. HIDE DEF T
  <2>. QED
    BY <2>1, LeastNumber
<1>3. m # 0
  <2>. DEFINE g == [i \in 0 .. 0 |-> 0]
  <2>1. Sums(steps, 0, g)
    BY DEF Sums
  <2>. QED
    BY <2>1
<1>4. m - 1 \in 0 .. Len(steps) /\ m - 1 \notin T /\ m \in Nat
  BY <1>2, <1>3
<1>5. PICK g : Sums(steps, m - 1, g)
  BY <1>4
<1>. DEFINE h == [i \in 0 .. m |-> IF i = m THEN g[m - 1] + steps[m].ms ELSE g[i]]
<1>6. ASSUME NEW i \in 0 .. m
      PROVE  h[i] = IF i = 0 THEN 0 ELSE h[i - 1] + steps[i].ms
  <2>1. \A j \in 0 .. m - 1 : h[j] = g[j] /\ g[j] = IF j = 0 THEN 0 ELSE g[j - 1] + steps[j].ms
    <3>1. \A j \in 0 .. m - 1 : j \in 0 .. m /\ j # m
      BY <1>4
    <3>2. \A j \in 0 .. m - 1 : h[j] = g[j]
      BY <3>1
    <3>. HIDE DEF h
    <3>3. \A j \in 0 .. m - 1 : g[j] = IF j = 0 THEN 0 ELSE g[j - 1] + steps[j].ms
      BY <1>5 DEF Sums
    <3>. QED
      BY <3>2, <3>3
  <2>2. CASE i = m
    <3>1. i # 0 /\ i - 1 \in 0 .. m - 1 /\ h[i] = g[m - 1] + steps[m].ms
      BY <1>3, <1>4, <2>2
    <3>2. h[i - 1] = g[m - 1]
      BY <2>1, <2>2, <3>1
    <3>. QED
      BY <2>2, <3>1, <3>2
  <2>3. CASE i # m
    <3>1. i \in 0 .. m - 1 /\ (i # 0 => i - 1 \in 0 .. m - 1)
      BY <1>4, <2>3
    <3>. HIDE DEF h
    <3>. QED
      BY <2>1, <3>1
  <2>. QED
    BY <2>2, <2>3
<1>7. Sums(steps, m, h)
  BY <1>6 DEF Sums
<1>. QED
  BY <1>2, <1>7

LEMMA StepMsType ==
    ASSUME NEW steps \in Seq(StepRecords)
    PROVE  StepMs(steps) \in Nat
<1>. DEFINE g == CHOOSE f : Sums(steps, Len(steps), f)
<1>1. StepMs(steps) = g[Len(steps)]
  BY DEF StepMs, Sums
<1>2. Sums(steps, Len(steps), g)
  BY SumsExist
<1>. HIDE DEF g
<1>. DEFINE T == {k \in 0 .. Len(steps) : g[k] \notin Nat}
<1>3. SUFFICES T = {}
  BY <1>1
<1>. SUFFICES ASSUME T # {}
              PROVE  FALSE
  OBVIOUS
<1>4. PICK m \in T : \A k \in T : m <= k
  <2>1. T \subseteq Nat
    OBVIOUS
  <2>. HIDE DEF T
  <2>. QED
    BY <2>1, LeastNumber
<1>5. \A i \in 0 .. Len(steps) : g[i] = IF i = 0 THEN 0 ELSE g[i - 1] + steps[i].ms
  BY <1>2 DEF Sums
<1>6. m # 0
  BY <1>5
<1>7. m - 1 \in 0 .. Len(steps) /\ m - 1 \notin T
  BY <1>4, <1>6
<1>8. steps[m].ms \in Nat
  <2>1. m \in 1 .. Len(steps)
    BY <1>6
  <2>2. steps[m] \in StepRecords
    BY <2>1
  <2>. QED
    BY <2>2 DEF StepRecords
<1>. QED
  BY <1>5, <1>6, <1>7, <1>8

-----------------------------------------------------------------------------
(* Types.                                                                  *)

LEMMA MessageTypes ==
    /\ \A m \in Messages : m.of \in Traces /\ (m.kind = "event" \/ m.kind = "trace")
    /\ \A m \in Messages : m.kind = "event" => m \in EventMessages
    /\ \A m \in Messages : m.kind = "trace" => m \in TraceMessages
  BY DEF Messages, EventMessages, TraceMessages

\* Posted traces and events become rows, events of a row a row again.
LEMMA FromPostType ==
    \A m : /\ m.steps \in Seq(StepRecords) /\ m.status \in Statuses /\ m.ms \in Nat
           /\ m.started \in Nat /\ m.ended \in Nat \cup {None}
           => FromPost(m) \in Rows /\ FromPost(m).steps = m.steps
  BY DEF FromPost, Rows, Summaries

LEMMA PostedRow ==
    ASSUME NEW m \in TraceMessages
    PROVE  FromPost(m) \in Rows /\ FromPost(m).steps = m.steps
<1>1. /\ m.steps \in Seq(StepRecords) /\ m.status \in Statuses /\ m.ms \in Nat
      /\ m.started \in Nat /\ m.ended \in Nat \cup {None}
  BY DEF TraceMessages
<1>. QED
  BY <1>1, FromPostType

LEMMA EventRow ==
    ASSUME NEW e \in EventMessages
    PROVE  FromEvent(e) \in Rows /\ FromEvent(e).steps = <<>>
<1>. DEFINE p == [steps |-> <<>>, status |-> e.status, ms |-> 0,
                  started |-> e.at, ended |-> None]
<1>1. e.status \in Statuses /\ e.at \in Nat
  BY DEF EventMessages
<1>2. /\ p.steps = <<>> /\ p.status = e.status /\ p.ms = 0
      /\ p.started = e.at /\ p.ended = None
  OBVIOUS
<1>3. <<>> \in Seq(StepRecords) /\ 0 \in Nat
  OBVIOUS
<1>4. FromEvent(e) = FromPost(p)
  BY DEF FromEvent
<1>. HIDE DEF p
<1>. QED
  BY <1>1, <1>2, <1>3, <1>4, FromPostType

Change(r, e) ==
    CASE e.type = "trace_start" -> Started(r, e)
      [] e.type = "trace_end" -> Finished(r, e)
      [] OTHER -> Stepped(r, e)

LEMMA ChangedRow ==
    ASSUME NEW r \in Rows, NEW e \in EventMessages
    PROVE  /\ Change(r, e) \in Rows
           /\ Change(r, e).steps = IF e.type = "step" THEN Stepped(r, e).steps ELSE r.steps
<1>1. /\ e.status \in Statuses /\ e.at \in Nat /\ e.ms \in Nat /\ e.id \in StepIds
      /\ e.type \in {"trace_start", "trace_end", "step"}
  BY IngestionConstantsOK DEF EventMessages
<1>2. /\ r.steps \in Seq(StepRecords) /\ r.status \in Statuses /\ r.started \in Nat
      /\ r.ended \in Nat \cup {None} /\ r.summary \in Summaries
      /\ r.summary.ms \in Nat
      /\ r.raw \in [steps : Seq(StepRecords), summary : Summaries]
  BY DEF Rows, Summaries
<1>3. CASE e.type = "trace_start"
  <2>1. Change(r, e) = Started(r, e)
    BY <1>3 DEF Change
  <2>. QED
    BY <1>1, <1>2, <1>3, <2>1 DEF Started, Rows
<1>4. CASE e.type = "trace_end"
  <2>1. Change(r, e) = Finished(r, e)
    BY <1>4 DEF Change
  <2>. QED
    <3>. DEFINE sum == [ms |-> IF e.ms # 0 THEN e.ms ELSE r.summary.ms, status |-> e.status]
    <3>1. sum \in Summaries
      BY <1>1, <1>2 DEF Summaries
    <3>2. Finished(r, e) = [r EXCEPT !.ended = e.at, !.status = e.status, !.summary = sum]
      BY DEF Finished, Rows
    <3>. HIDE DEF sum
    <3>3. Finished(r, e) \in Rows
      BY <1>1, <3>1, <3>2 DEF Rows
    <3>4. Finished(r, e).steps = r.steps
      BY <3>2 DEF Rows
    <3>. QED
      BY <1>4, <2>1, <3>3, <3>4
<1>5. CASE e.type = "step"
  <2>1. Change(r, e) = Stepped(r, e)
    BY <1>5 DEF Change
  <2>2. EventStep(e) \in StepRecords
    BY <1>1 DEF EventStep, StepRecords
  <2>3. Append(r.steps, EventStep(e)) \in Seq(StepRecords)
    BY <1>2, <2>2
  <2>. QED
    BY <1>2, <1>5, <2>1, <2>3 DEF Stepped, Rows
<1>. QED
  BY <1>1, <1>3, <1>4, <1>5

LEMMA RecomputedType ==
    ASSUME NEW r \in Rows
    PROVE  Recomputed(r) \in Summaries
<1>1. /\ r.steps \in Seq(StepRecords) /\ r.status \in Statuses
      /\ r.summary.ms \in Nat
  BY DEF Rows, Summaries
<1>2. StepMs(r.steps) \in Nat
  BY <1>1, StepMsType
<1>. QED
  BY <1>1, <1>2 DEF Recomputed, Summaries, Statuses

LEMMA AppliedRow ==
    ASSUME NEW r \in Rows, NEW e \in EventMessages
    PROVE  /\ Applied(r, e) \in Rows
           /\ Applied(r, e).steps = IF e.type = "step" THEN Stepped(r, e).steps ELSE r.steps
<1>. DEFINE c == Change(r, e)
            d == [c EXCEPT !.summary = Recomputed(c)]
<1>1. c \in Rows /\ c.steps = IF e.type = "step" THEN Stepped(r, e).steps ELSE r.steps
  BY ChangedRow
<1>2. Applied(r, e) = WithPayload(Clamped(d))
  BY DEF Applied, Change
<1>. HIDE DEF c
<1>3. Recomputed(c) \in Summaries
  BY <1>1, RecomputedType
<1>4. d \in Rows /\ d.steps = c.steps
  BY <1>1, <1>3 DEF Rows
<1>. HIDE DEF d
<1>5. Clamped(d) \in Rows /\ Clamped(d).steps = d.steps
  BY <1>4 DEF Clamped, Rows
<1>6. ASSUME NEW x \in Rows
      PROVE  WithPayload(x) \in Rows /\ WithPayload(x).steps = x.steps
  BY DEF WithPayload, Rows
<1>. QED
  BY <1>1, <1>2, <1>4, <1>5, <1>6

LEMMA UpdatedRow ==
    ASSUME NEW base \in Rows, NEW from \in Rows, NEW to \in Rows
    PROVE  /\ Updated(base, from, to) \in Rows
           /\ Updated(base, from, to).steps \in {base.steps, to.steps}
           /\ base = from => Updated(base, from, to) = to
<1>. DEFINE u == Updated(base, from, to)
<1>1. u = [steps |-> IF to.steps # from.steps THEN to.steps ELSE base.steps,
           status |-> IF to.status # from.status THEN to.status ELSE base.status,
           started |-> IF to.started # from.started THEN to.started ELSE base.started,
           ended |-> IF to.ended # from.ended THEN to.ended ELSE base.ended,
           summary |-> IF to.summary # from.summary THEN to.summary ELSE base.summary,
           raw |-> IF to.raw # from.raw THEN to.raw ELSE base.raw]
  BY DEF Updated, Columns
<1>. HIDE DEF u
<1>2. u \in Rows
  BY <1>1 DEF Rows
<1>3. u.steps \in {base.steps, to.steps}
  BY <1>1
<1>4. ASSUME base = from
      PROVE  u = to
  <2>1. to = [steps |-> to.steps, status |-> to.status, started |-> to.started,
              ended |-> to.ended, summary |-> to.summary, raw |-> to.raw]
    BY DEF Rows
  <2>. QED
    BY <1>1, <1>4, <2>1
<1>. QED
  BY <1>2, <1>3, <1>4 DEF u

\* The sessions, with what they are in between requests and where they are in
\* their batch.
SessionType ==
    [pc : {"idle", "lookup", "write", "commit", "ok", "failed"},
     batch : Seq(Messages), next : Nat \ {0}, seen : BOOLEAN,
     view : [Traces -> Rows \cup {None}], rows : [Traces -> Rows \cup {None}],
     keys : [AllKeys -> Resources \cup {None}]]

Working == {"lookup", "write", "commit"}

Placed(x) ==
    /\ x.pc \in {"lookup", "write"} => x.next \in DOMAIN x.batch
    /\ x.pc = "commit" => x.next = Len(x.batch) + 1
    /\ x.pc \in Working => x.batch \in Requests
    /\ x.pc \notin Working =>
           x.view = NoRows /\ x.rows = NoRows /\ x.keys = NoKeys /\ x.next = 1
    /\ \A t \in Traces : x.rows[t] # None =>
           \E i \in DOMAIN x.batch : i < x.next /\ x.batch[i].of = t

TypeInv == IngestionTypeOK /\ \A s \in Sessions : Placed(txn[s])

LEMMA KeyTypes ==
    ASSUME NEW m \in Messages
    PROVE  KeyOf(m) \in AllKeys \cup {None} /\ ResourceOf(m) \in Resources
<1>1. CASE m.kind = "event"
  <2>1. m.of \in Traces /\ m.id \in EventIds
    BY <1>1, MessageTypes DEF EventMessages
  <2>2. KeyOf(m) = [project |-> m.of.project, event |-> m.id] /\ ResourceOf(m) = m.id
    BY <1>1 DEF KeyOf, ResourceOf
  <2>3. [project |-> m.of.project, event |-> m.id] \in EventKeys
    BY <2>1 DEF EventKeys, Projects
  <2>. QED
    BY <2>1, <2>2, <2>3 DEF AllKeys, Resources
<1>2. CASE m.kind # "event"
  <2>1. m.of \in Traces /\ m.key \in HeaderKeys \cup {None}
    BY <1>2, MessageTypes DEF TraceMessages
  <2>. QED
    BY <1>2, <2>1 DEF KeyOf, ResourceOf, AllKeys, Resources, Names
<1>. QED
  BY <1>1, <1>2

LEMMA NoneApart ==
    /\ None \notin Rows /\ None \notin Resources /\ None \notin AllKeys
    /\ None \notin Messages /\ None \notin Traces
  BY IngestionConstantsOK

AnsweredSession(b) == [IdleSession EXCEPT !.pc = "ok", !.batch = b]

LEMMA IdleType ==
    /\ IdleSession \in SessionType /\ Placed(IdleSession)
    /\ Failed \in SessionType /\ Placed(Failed) /\ Failed.pc = "failed"
    /\ Failed.view = NoRows /\ Failed.rows = NoRows /\ Failed.keys = NoKeys
    /\ \A b \in Seq(Messages) : LET x == AnsweredSession(b) IN
           /\ x \in SessionType /\ Placed(x) /\ x.pc = "ok" /\ x.batch = b
           /\ x.view = NoRows /\ x.rows = NoRows /\ x.keys = NoKeys
<1>1. NoRows \in [Traces -> Rows \cup {None}] /\ NoKeys \in [AllKeys -> Resources \cup {None}]
  BY DEF NoRows, NoKeys
<1>2. \A t \in Traces : NoRows[t] = None
  BY DEF NoRows
<1>. HIDE DEF NoRows, NoKeys
<1>3. <<>> \in Seq(Messages)
  OBVIOUS
<1>4. ASSUME NEW p \in {"idle", "failed", "ok"}, NEW b \in Seq(Messages), NEW x,
             x = [pc |-> p, batch |-> b, next |-> 1, seen |-> FALSE,
                  view |-> NoRows, rows |-> NoRows, keys |-> NoKeys]
      PROVE  /\ x \in SessionType /\ Placed(x) /\ x.pc = p /\ x.batch = b
             /\ x.view = NoRows /\ x.rows = NoRows /\ x.keys = NoKeys
  <2>1. x \in SessionType
    BY <1>1, <1>4 DEF SessionType
  <2>. QED
    BY <1>2, <1>4, <2>1 DEF Placed, Working
<1>5. IdleSession \in SessionType /\ Placed(IdleSession)
  BY <1>3, <1>4 DEF IdleSession
<1>6. ASSUME NEW p \in {"failed", "ok"}, NEW b \in Seq(Messages), NEW x \in SessionType,
             x.pc = p, x.batch = b, x.next = 1, x.seen = FALSE,
             x.view = NoRows, x.rows = NoRows, x.keys = NoKeys
      PROVE  Placed(x)
  BY <1>2, <1>6 DEF Placed, Working
<1>7. Failed \in SessionType /\ Failed.pc = "failed" /\ Failed.batch = <<>>
      /\ Failed.next = 1 /\ Failed.seen = FALSE
      /\ Failed.view = NoRows /\ Failed.rows = NoRows /\ Failed.keys = NoKeys
  <2>1. IdleSession \in SessionType
    BY <1>5
  <2>2. Failed \in SessionType
    BY <2>1 DEF Failed, SessionType
  <2>. QED
    BY <2>2 DEF Failed, IdleSession
<1>8. ASSUME NEW b \in Seq(Messages), NEW x,
             x = [IdleSession EXCEPT !.pc = "ok", !.batch = b]
      PROVE  /\ x \in SessionType /\ Placed(x) /\ x.pc = "ok" /\ x.batch = b
             /\ x.view = NoRows /\ x.rows = NoRows /\ x.keys = NoKeys
  <2>1. x \in SessionType
    BY <1>5, <1>8 DEF SessionType
  <2>2. /\ x.pc = "ok" /\ x.batch = b /\ x.next = 1 /\ x.seen = FALSE
        /\ x.view = NoRows /\ x.rows = NoRows /\ x.keys = NoKeys
    BY <1>8 DEF IdleSession
  <2>. QED
    BY <1>6, <2>1, <2>2
<1>. QED
  BY <1>3, <1>5, <1>6, <1>7, <1>8 DEF AnsweredSession

\* What a session makes of the message it is at.
LEMMA CurrentType ==
    ASSUME TypeInv, NEW s \in Sessions, txn[s].pc \in {"lookup", "write"}
    PROVE  /\ Current(s) \in Messages /\ Current(s).of \in Traces
           /\ txn[s].next \in DOMAIN txn[s].batch
<1>1. txn[s] \in SessionType /\ Placed(txn[s])
  BY DEF TypeInv, IngestionTypeOK, SessionType
<1>2. txn[s].next \in DOMAIN txn[s].batch
  BY <1>1 DEF Placed
<1>3. Current(s) \in Messages
  BY <1>1, <1>2 DEF Current, SessionType
<1>. QED
  BY <1>2, <1>3, MessageTypes

LEMMA RowTypes ==
    ASSUME TypeInv, NEW s \in Sessions, NEW t \in Traces
    PROVE  /\ Visible(s, t) \in Rows \cup {None}
           /\ Base(s, t) \in Rows \cup {None}
           /\ txn[s].view[t] \in Rows \cup {None}
           /\ txn[s].rows[t] \in Rows \cup {None}
           /\ stored[t] \in Rows \cup {None}
  BY DEF TypeInv, IngestionTypeOK, Visible, Base

\* The steps of the row that is written are those of the copy, or of the
\* posted trace, or they are the copy's with the event's.
LEMMA WrittenRow ==
    ASSUME TypeInv, NEW s \in Sessions, txn[s].pc = "write", ~Absorbed(s)
    PROVE  LET m == Current(s) IN
           /\ Written(s) \in Rows
           /\ m.kind = "trace" => Written(s).steps = m.steps /\ Copy(s) = None
           /\ m.kind = "event" =>
                  \E r \in Rows :
                      /\ IF Copy(s) = None THEN r.steps = <<>> ELSE r = Copy(s)
                      /\ Written(s).steps = IF m.type = "step" THEN Stepped(r, m).steps
                                            ELSE r.steps
<1>. DEFINE m == Current(s)
<1>1. m \in Messages /\ m.of \in Traces
  BY CurrentType
<1>2. Copy(s) \in Rows \cup {None}
  BY <1>1, RowTypes DEF Copy
<1>3. CASE m.kind = "trace"
  <2>1. Written(s) = FromPost(m) /\ Copy(s) = None
    BY <1>3 DEF Written, Absorbed
  <2>2. m \in TraceMessages
    BY <1>1, <1>3, MessageTypes
  <2>. QED
    BY <1>3, <2>1, <2>2, PostedRow
<1>4. CASE m.kind = "event"
  <2>. DEFINE r == IF Copy(s) = None THEN FromEvent(m) ELSE Copy(s)
  <2>1. m \in EventMessages
    BY <1>1, <1>4, MessageTypes
  <2>2. Written(s) = Applied(r, m)
    BY <1>4 DEF Written
  <2>3. r \in Rows /\ IF Copy(s) = None THEN r.steps = <<>> ELSE r = Copy(s)
    BY <1>2, <2>1, EventRow
  <2>. HIDE DEF r
  <2>. QED
    BY <1>4, <2>1, <2>2, <2>3, AppliedRow
<1>. QED
  BY <1>1, <1>3, <1>4, MessageTypes

\* Where there is a copy there is a row to update.
Copied == \A s \in Sessions : \A t \in Traces : txn[s].view[t] # None => Base(s, t) # None

NewRow(s) ==
    IF Copy(s) = None THEN Written(s)
    ELSE Updated(Base(s, Current(s).of), Copy(s), Written(s))

LEMMA FlushedRow ==
    ASSUME TypeInv, Copied, NEW s \in Sessions, txn[s].pc = "write", ~Absorbed(s)
    PROVE  /\ NewRow(s) \in Rows
           /\ \/ NewRow(s).steps = Written(s).steps
              \/ Copy(s) # None /\ NewRow(s).steps = Base(s, Current(s).of).steps
           /\ Copy(s) # None /\ Base(s, Current(s).of) = Copy(s) => NewRow(s) = Written(s)
<1>. DEFINE t == Current(s).of
<1>1. t \in Traces
  BY CurrentType
<1>2. Written(s) \in Rows
  BY WrittenRow
<1>3. CASE Copy(s) = None
  BY <1>2, <1>3 DEF NewRow
<1>4. CASE Copy(s) # None
  <2>1. Copy(s) \in Rows /\ Base(s, t) \in Rows
    BY <1>1, <1>4, RowTypes DEF Copy, Copied
  <2>2. NewRow(s) = Updated(Base(s, t), Copy(s), Written(s))
    BY <1>4 DEF NewRow
  <2>. QED
    BY <1>2, <1>4, <2>1, <2>2, UpdatedRow
<1>. QED
  BY <1>3, <1>4

\* What each action makes of its session; it leaves the others alone.
Alone(s) == txn' = [txn EXCEPT ![s] = txn'[s]]

LEMMA SubmitStep ==
    ASSUME TypeInv, NEW s \in Sessions, NEW batch \in Requests, Submit(s, batch)
    PROVE  /\ Alone(s) /\ UNCHANGED <<db, history, faults>>
           /\ txn[s].pc = "idle"
           /\ txn'[s].pc = IF batch = <<>> THEN "commit" ELSE "lookup"
           /\ txn'[s].batch = batch /\ txn'[s].next = 1
           /\ txn'[s].view = NoRows /\ txn'[s].rows = NoRows /\ txn'[s].keys = NoKeys
           /\ txn'[s] \in SessionType /\ Placed(txn'[s])
<1>1. txn \in [Sessions -> SessionType] /\ Placed(txn[s])
  BY DEF TypeInv, IngestionTypeOK, SessionType
<1>2. batch \in Seq(Messages)
  BY IngestionConstantsOK
<1>3. txn' = [txn EXCEPT ![s] = [txn[s] EXCEPT
                  !.pc = IF batch = <<>> THEN "commit" ELSE "lookup", !.batch = batch]]
  BY <1>1 DEF Submit
<1>4. /\ Alone(s)
      /\ txn'[s].pc = IF batch = <<>> THEN "commit" ELSE "lookup"
      /\ txn'[s].batch = batch /\ txn'[s].next = txn[s].next
      /\ txn'[s].view = txn[s].view /\ txn'[s].rows = txn[s].rows
      /\ txn'[s].keys = txn[s].keys
      /\ txn'[s] \in SessionType
  BY ZenonT(40), <1>1, <1>2, <1>3 DEF SessionType, Alone
<1>5. txn[s].pc = "idle" /\ UNCHANGED <<db, history, faults>>
  BY DEF Submit
<1>6. /\ txn[s].view = NoRows /\ txn[s].rows = NoRows /\ txn[s].keys = NoKeys
      /\ txn[s].next = 1
  BY <1>1, <1>5 DEF Placed, Working
<1>7. batch # <<>> => 1 \in DOMAIN batch
  BY <1>2
<1>8. batch = <<>> => Len(batch) = 0
  OBVIOUS
<1>9. \A t \in Traces : txn'[s].rows[t] = None
  BY <1>4, <1>6 DEF NoRows
<1>10. Placed(txn'[s])
  BY <1>4, <1>6, <1>7, <1>8, <1>9 DEF Placed, Working
<1>. QED
  BY <1>4, <1>5, <1>6, <1>10

LEMMA LookupStep ==
    ASSUME TypeInv, NEW s \in Sessions, Lookup(s)
    PROVE  /\ Alone(s) /\ UNCHANGED <<db, history, faults>>
           /\ txn[s].pc = "lookup" /\ txn'[s].pc = "write"
           /\ txn'[s].batch = txn[s].batch /\ txn'[s].next = txn[s].next
           /\ txn'[s].seen = Known(s, Current(s))
           /\ txn'[s].view = [txn[s].view EXCEPT
                                 ![Current(s).of] = Visible(s, Current(s).of)]
           /\ txn'[s].rows = txn[s].rows /\ txn'[s].keys = txn[s].keys
           /\ txn'[s] \in SessionType /\ Placed(txn'[s])
<1>. DEFINE m == Current(s)
<1>1. txn \in [Sessions -> SessionType] /\ Placed(txn[s])
  BY DEF TypeInv, IngestionTypeOK, SessionType
<1>2. txn[s].pc = "lookup" /\ UNCHANGED <<db, history, faults>>
  BY DEF Lookup
<1>3. txn' = [txn EXCEPT ![s] = [txn[s] EXCEPT
                  !.seen = Known(s, m), !.view[m.of] = Visible(s, m.of), !.pc = "write"]]
  BY <1>1 DEF Lookup
<1>4. m.of \in Traces /\ Visible(s, m.of) \in Rows \cup {None} /\ Known(s, m) \in BOOLEAN
  BY <1>2, CurrentType, RowTypes DEF Known
<1>. HIDE DEF m
<1>5. /\ Alone(s)
      /\ txn'[s].pc = "write" /\ txn'[s].batch = txn[s].batch /\ txn'[s].next = txn[s].next
      /\ txn'[s].seen = Known(s, m)
      /\ txn'[s].view = [txn[s].view EXCEPT ![m.of] = Visible(s, m.of)]
      /\ txn'[s].rows = txn[s].rows /\ txn'[s].keys = txn[s].keys
  BY <1>1, <1>3 DEF SessionType, Alone
<1>6. txn'[s] \in SessionType
  BY <1>1, <1>3, <1>4 DEF SessionType
<1>7. Placed(txn'[s])
  BY <1>1, <1>2, <1>5 DEF Placed, Working
<1>. QED
  BY <1>2, <1>5, <1>6, <1>7 DEF m

LEMMA AdvancedType ==
    ASSUME NEW x \in SessionType, NEW p \in {"lookup", "commit"}
    PROVE  [x EXCEPT !.pc = p, !.next = @ + 1] \in SessionType
<1>1. x.next + 1 \in Nat \ {0}
  BY DEF SessionType
<1>2. ASSUME NEW n \in Nat \ {0}
      PROVE  [x EXCEPT !.pc = p, !.next = n] \in SessionType
  BY DEF SessionType
<1>. QED
  BY <1>1, <1>2

LEMMA AbsorbStep ==
    ASSUME TypeInv, NEW s \in Sessions, Absorb(s)
    PROVE  /\ Alone(s) /\ UNCHANGED <<db, history, faults>>
           /\ txn[s].pc = "write" /\ Absorbed(s)
           /\ txn'[s].pc \in {"lookup", "commit"}
           /\ txn'[s].batch = txn[s].batch /\ txn'[s].next = txn[s].next + 1
           /\ txn'[s].view = txn[s].view
           /\ txn'[s].rows = txn[s].rows /\ txn'[s].keys = txn[s].keys
           /\ txn'[s] \in SessionType /\ Placed(txn'[s])
<1>1. txn \in [Sessions -> SessionType] /\ Placed(txn[s])
  BY DEF TypeInv, IngestionTypeOK, SessionType
<1>2. txn[s].pc = "write" /\ Absorbed(s) /\ UNCHANGED <<db, history, faults>>
  BY DEF Absorb
<1>3. txn' = [txn EXCEPT ![s] = [txn[s] EXCEPT !.pc = AfterThis(s), !.next = @ + 1]]
  BY <1>1 DEF Absorb
<1>4. AfterThis(s) \in {"lookup", "commit"}
  BY DEF AfterThis
<1>5. /\ Alone(s)
      /\ txn'[s].pc = AfterThis(s) /\ txn'[s].batch = txn[s].batch
      /\ txn'[s].next = txn[s].next + 1
      /\ txn'[s].view = txn[s].view
      /\ txn'[s].rows = txn[s].rows /\ txn'[s].keys = txn[s].keys
  BY <1>1, <1>3, <1>4 DEF SessionType, Alone
<1>9. txn'[s] \in SessionType
  <2>1. txn[s] \in SessionType
    BY <1>1
  <2>2. txn'[s] = [txn[s] EXCEPT !.pc = AfterThis(s), !.next = @ + 1]
    BY <1>1, <1>3
  <2>. QED
    BY <1>4, <2>1, <2>2, AdvancedType
<1>6. txn[s].next \in DOMAIN txn[s].batch /\ txn[s].batch \in Seq(Messages)
  BY <1>1, <1>2, CurrentType DEF SessionType
<1>7. /\ AfterThis(s) = "commit" => txn[s].next + 1 = Len(txn[s].batch) + 1
      /\ AfterThis(s) = "lookup" => txn[s].next + 1 \in DOMAIN txn[s].batch
  BY <1>6 DEF AfterThis
<1>8. Placed(txn'[s])
  BY <1>1, <1>2, <1>4, <1>5, <1>6, <1>7 DEF Placed, Working, SessionType
<1>. QED
  BY <1>2, <1>4, <1>5, <1>8, <1>9

LEMMA FlushStep ==
    ASSUME TypeInv, Copied, NEW s \in Sessions, Flush(s)
    PROVE  /\ Alone(s) /\ UNCHANGED <<db, acked, origin, faults>>
           /\ txn[s].pc = "write" /\ ~Absorbed(s) /\ ~Conflict(s)
           /\ \A r \in Sessions : ~Blocks(r, s)
           /\ txn'[s].pc \in {"lookup", "commit"}
           /\ txn'[s].batch = txn[s].batch /\ txn'[s].next = txn[s].next + 1
           /\ txn'[s].view = [txn[s].view EXCEPT ![Current(s).of] = Written(s)]
           /\ txn'[s].rows = [txn[s].rows EXCEPT ![Current(s).of] = NewRow(s)]
           /\ txn'[s].keys = [k \in AllKeys |->
                                 IF k = NewKey(s) THEN ResourceOf(Current(s)) ELSE txn[s].keys[k]]
           /\ txn'[s] \in SessionType /\ Placed(txn'[s])
           /\ stale' = IF Copy(s) # None /\ Base(s, Current(s).of) # Copy(s)
                       THEN stale \cup {Current(s).of} ELSE stale
<1>. DEFINE m == Current(s)
            t == m.of
            K == [k \in AllKeys |-> IF k = NewKey(s) THEN ResourceOf(m) ELSE txn[s].keys[k]]
<1>1. txn \in [Sessions -> SessionType] /\ Placed(txn[s])
  BY DEF TypeInv, IngestionTypeOK, SessionType
<1>2. /\ txn[s].pc = "write" /\ ~Absorbed(s) /\ ~Conflict(s)
      /\ \A r \in Sessions : ~Blocks(r, s)
      /\ UNCHANGED <<db, acked, origin, faults>>
      /\ stale' = IF Copy(s) # None /\ Base(s, Current(s).of) # Copy(s)
                  THEN stale \cup {Current(s).of} ELSE stale
  BY DEF Flush
<1>3. txn' = [txn EXCEPT ![s] = [txn[s] EXCEPT
                  !.view[t] = Written(s), !.rows[t] = NewRow(s), !.keys = K,
                  !.pc = AfterThis(s), !.next = @ + 1]]
  BY ZenonT(40), <1>1 DEF Flush, NewRow
<1>4. AfterThis(s) \in {"lookup", "commit"}
  BY DEF AfterThis
<1>5. m \in Messages /\ t \in Traces
  BY <1>2, CurrentType
<1>6. Written(s) \in Rows /\ NewRow(s) \in Rows
  BY <1>2, WrittenRow, FlushedRow
<1>7. K \in [AllKeys -> Resources \cup {None}]
  BY <1>1, <1>5, KeyTypes DEF SessionType
<1>. HIDE DEF m, t, K
<1>8. /\ Alone(s)
      /\ txn'[s].pc = AfterThis(s) /\ txn'[s].batch = txn[s].batch
      /\ txn'[s].next = txn[s].next + 1
      /\ txn'[s].view = [txn[s].view EXCEPT ![t] = Written(s)]
      /\ txn'[s].rows = [txn[s].rows EXCEPT ![t] = NewRow(s)]
      /\ txn'[s].keys = K
  BY <1>1, <1>3 DEF SessionType, Alone
<1>9. txn'[s] \in SessionType
  <2>. DEFINE x == [txn[s] EXCEPT !.pc = AfterThis(s), !.next = @ + 1]
              v == [txn[s].view EXCEPT ![t] = Written(s)]
              w == [txn[s].rows EXCEPT ![t] = NewRow(s)]
  <2>1. x \in SessionType
    BY <1>1, <1>4, AdvancedType
  <2>2. v \in [Traces -> Rows \cup {None}] /\ w \in [Traces -> Rows \cup {None}]
    BY <1>1, <1>5, <1>6 DEF SessionType
  <2>3. txn'[s] = [x EXCEPT !.view = v, !.rows = w, !.keys = K]
    BY <1>1, <1>3 DEF SessionType
  <2>. HIDE DEF x, v, w
  <2>. QED
    BY <1>7, <2>1, <2>2, <2>3 DEF SessionType
<1>10. txn[s].next \in DOMAIN txn[s].batch /\ txn[s].batch \in Seq(Messages)
  BY <1>1, <1>2, CurrentType DEF SessionType
<1>11. /\ AfterThis(s) = "commit" => txn[s].next + 1 = Len(txn[s].batch) + 1
       /\ AfterThis(s) = "lookup" => txn[s].next + 1 \in DOMAIN txn[s].batch
  BY <1>10 DEF AfterThis
<1>12. ASSUME NEW u \in Traces, txn'[s].rows[u] # None
       PROVE  \E i \in DOMAIN txn[s].batch : i < txn[s].next + 1 /\ txn[s].batch[i].of = u
  <2>1. CASE u = t
    BY <1>10, <2>1 DEF t, m, Current
  <2>2. CASE u # t
    <3>1. txn[s].rows[u] # None
      BY <1>1, <1>8, <1>12, <2>2 DEF SessionType
    <3>2. PICK i \in DOMAIN txn[s].batch : i < txn[s].next /\ txn[s].batch[i].of = u
      BY <1>1, <3>1 DEF Placed
    <3>. QED
      BY <1>10, <3>2
  <2>. QED
    BY <2>1, <2>2
<1>13. txn[s].batch \in Requests
  BY <1>1, <1>2 DEF Placed, Working
<1>14. Placed(txn'[s])
  BY <1>4, <1>8, <1>11, <1>12, <1>13 DEF Placed, Working
<1>. QED
  BY <1>2, <1>4, <1>8, <1>9, <1>14 DEF m, t, K

\* A request that ends in one way or another.
LEMMA EndSteps ==
    ASSUME TypeInv, NEW s \in Sessions
    PROVE  /\ Reject(s) \/ BreakDeadlock(s) \/ Die(s) =>
                  /\ txn[s].pc \in Working /\ UNCHANGED <<db, history>>
                  /\ Alone(s) /\ txn'[s] = Failed
                  /\ faults' \in {faults} \cup {x \in {faults + 1} : x <= MaxFaults}
           /\ Release(s) =>
                  /\ txn[s].pc \in {"ok", "failed"} /\ UNCHANGED <<db, history, faults>>
                  /\ Alone(s) /\ txn'[s] = IdleSession
           /\ Commit(s) =>
                  /\ txn[s].pc = "commit" /\ Alone(s)
                  /\ txn'[s] = AnsweredSession(txn[s].batch)
                  /\ UNCHANGED <<stale, faults>>
<1>1. DOMAIN txn = Sessions /\ faults \in Nat
  BY IngestionConstantsOK DEF TypeInv, IngestionTypeOK
<1>2. Reject(s) => /\ txn[s].pc \in Working /\ UNCHANGED <<db, history, faults>>
                   /\ Alone(s) /\ txn'[s] = Failed
  BY <1>1 DEF Reject, Refused, Working, Alone
<1>3. BreakDeadlock(s) => /\ txn[s].pc \in Working /\ UNCHANGED <<db, history, faults>>
                          /\ Alone(s) /\ txn'[s] = Failed
  BY <1>1 DEF BreakDeadlock, Deadlocked, Blocks, Working, Alone
<1>4. Die(s) => /\ txn[s].pc \in Working /\ UNCHANGED <<db, history>>
                /\ Alone(s) /\ txn'[s] = Failed
                /\ faults' = faults + 1 /\ faults + 1 <= MaxFaults
  BY <1>1, IngestionConstantsOK DEF Die, Working, Alone
<1>5. Release(s) => /\ txn[s].pc \in {"ok", "failed"} /\ UNCHANGED <<db, history, faults>>
                    /\ Alone(s) /\ txn'[s] = IdleSession
  BY <1>1 DEF Release, Alone
<1>6. Commit(s) => /\ txn[s].pc = "commit" /\ Alone(s)
                   /\ txn'[s] = AnsweredSession(txn[s].batch)
                   /\ UNCHANGED <<stale, faults>>
  BY <1>1 DEF Commit, Alone, AnsweredSession
<1>. QED
  BY <1>2, <1>3, <1>4, <1>5, <1>6

\* The first message about a trace is one of the batch.
LEMMA FirstOfBatch ==
    ASSUME TypeInv, NEW s \in Sessions, NEW t \in Traces, txn[s].rows[t] # None
    PROVE  \E i \in DOMAIN txn[s].batch :
               /\ i < txn[s].next /\ txn[s].batch[i].of = t
               /\ FirstOf(s, t) = txn[s].batch[i] /\ FirstOf(s, t) \in Messages
<1>. DEFINE about == {i \in DOMAIN txn[s].batch : txn[s].batch[i].of = t}
            least == CHOOSE i \in about : \A j \in about : i <= j
<1>1. txn[s] \in SessionType /\ Placed(txn[s])
  BY DEF TypeInv, IngestionTypeOK, SessionType
<1>2. PICK k \in DOMAIN txn[s].batch : k < txn[s].next /\ txn[s].batch[k].of = t
  BY <1>1 DEF Placed
<1>3. about \subseteq Nat /\ k \in about
  BY <1>1, <1>2 DEF SessionType
<1>4. least \in about /\ \A j \in about : least <= j
  <2>. HIDE DEF about
  <2>. QED
    BY <1>3, LeastNumber
<1>5. FirstOf(s, t) = txn[s].batch[least]
  BY DEF FirstOf
<1>6. least \in DOMAIN txn[s].batch /\ txn[s].batch[least].of = t /\ least <= k
  BY <1>3, <1>4
<1>. HIDE DEF least, about
<1>7. least < txn[s].next /\ txn[s].batch[least] \in Messages
  BY <1>1, <1>2, <1>6 DEF SessionType
<1>. QED
  BY <1>5, <1>6, <1>7

LEMMA CommitStep ==
    ASSUME TypeInv, NEW s \in Sessions, Commit(s)
    PROVE  /\ stored' = [t \in Traces |-> Base(s, t)]
           /\ keys' = [k \in AllKeys |-> KeyValue(s, k)]
           /\ acked' = acked \cup ToSet(txn[s].batch)
           /\ origin' = [t \in Traces |->
                  IF stored[t] = None /\ txn[s].rows[t] # None THEN FirstOf(s, t) ELSE origin[t]]
           /\ stored' \in [Traces -> Rows \cup {None}]
           /\ keys' \in [AllKeys -> Resources \cup {None}]
           /\ acked' \subseteq Messages
           /\ origin' \in [Traces -> Messages \cup {None}]
           /\ \A t \in Traces : stored[t] # None => stored'[t] # None
           /\ \A k \in AllKeys : keys[k] # None => keys'[k] # None
<1>1. /\ stored' = [t \in Traces |-> Base(s, t)]
      /\ keys' = [k \in AllKeys |-> KeyValue(s, k)]
      /\ acked' = acked \cup ToSet(txn[s].batch)
      /\ origin' = [t \in Traces |->
             IF stored[t] = None /\ txn[s].rows[t] # None THEN FirstOf(s, t) ELSE origin[t]]
  BY DEF Commit
<1>2. stored' \in [Traces -> Rows \cup {None}]
  BY <1>1, RowTypes
<1>3. txn \in [Sessions -> SessionType]
  BY DEF TypeInv, IngestionTypeOK, SessionType
<1>4. \A k \in AllKeys : KeyValue(s, k) \in Resources \cup {None}
  BY <1>3 DEF TypeInv, IngestionTypeOK, KeyValue, SessionType
<1>5. acked' \subseteq Messages
  <2>1. txn[s].batch \in Seq(Messages)
    BY <1>3 DEF SessionType
  <2>2. ToSet(txn[s].batch) \subseteq Messages
    BY <2>1 DEF ToSet
  <2>. QED
    BY <1>1, <2>2 DEF TypeInv, IngestionTypeOK
<1>6. origin' \in [Traces -> Messages \cup {None}]
  <2>1. \A t \in Traces : txn[s].rows[t] # None => FirstOf(s, t) \in Messages
    BY FirstOfBatch
  <2>2. origin \in [Traces -> Messages \cup {None}]
    BY DEF TypeInv, IngestionTypeOK
  <2>. QED
    BY <1>1, <2>1, <2>2
<1>7. \A t \in Traces : stored[t] # None => stored'[t] # None
  BY <1>1 DEF Base
<1>8. \A k \in AllKeys : keys[k] # None => keys'[k] # None
  BY <1>1 DEF KeyValue
<1>9. keys' \in [AllKeys -> Resources \cup {None}]
  BY <1>1, <1>4
<1>. QED
  BY <1>1, <1>2, <1>5, <1>6, <1>7, <1>8, <1>9

\* A request that has ended holds nothing.
LEMMA NothingHeld ==
    ASSUME TypeInv, NEW s \in Sessions,
           Reject(s) \/ BreakDeadlock(s) \/ Die(s) \/ Release(s) \/ Commit(s)
    PROVE  /\ txn'[s].view = NoRows /\ txn'[s].rows = NoRows /\ txn'[s].keys = NoKeys
           /\ txn'[s].pc = IF Commit(s) THEN "ok" ELSE IF Release(s) THEN "idle" ELSE "failed"
           /\ Commit(s) => txn'[s].batch = txn[s].batch
<1>1. CASE Reject(s) \/ BreakDeadlock(s) \/ Die(s)
  <2>1. txn'[s] = Failed /\ txn'[s].pc = "failed"
    BY <1>1, EndSteps, IdleType
  <2>2. ~Release(s) /\ ~Commit(s)
    <3>1. Release(s) => txn'[s] = IdleSession
      BY EndSteps
    <3>2. Commit(s) => txn'[s].pc = "ok"
      <4>1. txn[s].batch \in Seq(Messages)
        BY DEF TypeInv, IngestionTypeOK
      <4>. QED
        BY <4>1, EndSteps, IdleType
    <3>. QED
      BY <2>1, <3>1, <3>2 DEF IdleSession
  <2>. QED
    BY <2>1, <2>2, IdleType
<1>2. CASE Release(s)
  <2>1. txn'[s] = IdleSession /\ txn[s].pc # "commit"
    BY <1>2, EndSteps
  <2>2. ~Commit(s)
    BY <2>1 DEF Commit
  <2>. QED
    BY <1>2, <2>1, <2>2 DEF IdleSession
<1>3. CASE Commit(s)
  <2>1. txn[s].batch \in Seq(Messages)
    BY DEF TypeInv, IngestionTypeOK
  <2>2. txn'[s] = AnsweredSession(txn[s].batch)
    BY <1>3, EndSteps
  <2>. QED
    BY <1>3, <2>1, <2>2, IdleType
<1>. QED
  BY <1>1, <1>2, <1>3

\* One session moves, and stays in its type.
LEMMA SessionsMove ==
    ASSUME TypeInv, Copied, NEW s \in Sessions,
           \/ \E batch \in Requests : Submit(s, batch)
           \/ SessionStep(s) \/ Die(s) \/ Release(s)
    PROVE  Alone(s) /\ txn'[s] \in SessionType /\ Placed(txn'[s])
<1>1. CASE Commit(s)
  <2>1. txn[s].batch \in Seq(Messages)
    BY DEF TypeInv, IngestionTypeOK
  <2>. QED
    BY <1>1, <2>1, EndSteps, IdleType
<1>2. CASE Reject(s) \/ BreakDeadlock(s) \/ Die(s) \/ Release(s)
  BY <1>2, EndSteps, IdleType
<1>. QED
  BY <1>1, <1>2, SubmitStep, LookupStep, AbsorbStep, FlushStep DEF SessionStep

LEMMA TypePreserved ==
    ASSUME TypeInv, Copied, [IngestionNext]_ingestionVars
    PROVE  TypeInv'
<1>1. txn \in [Sessions -> SessionType]
  BY DEF TypeInv, IngestionTypeOK, SessionType
<1>2. CASE UNCHANGED ingestionVars
  BY <1>2 DEF ingestionVars, TypeInv, IngestionTypeOK, Placed
<1>3. ASSUME NEW s \in Sessions,
             \/ \E batch \in Requests : Submit(s, batch)
             \/ SessionStep(s) \/ Die(s) \/ Release(s)
      PROVE  TypeInv'
  <2>1. Alone(s) /\ txn'[s] \in SessionType /\ Placed(txn'[s])
    BY <1>3, SessionsMove
  <2>2. txn' \in [Sessions -> SessionType]
    BY <1>1, <2>1 DEF Alone
  <2>3. \A r \in Sessions : Placed(txn'[r])
    BY <1>1, <2>1 DEF Alone, TypeInv
  <2>4. /\ stored' \in [Traces -> Rows \cup {None}]
        /\ keys' \in [AllKeys -> Resources \cup {None}]
        /\ acked' \subseteq Messages
        /\ origin' \in [Traces -> Messages \cup {None}]
    <3>1. CASE Commit(s)
      BY <3>1, CommitStep
    <3>2. CASE UNCHANGED <<db, acked, origin>>
      BY <3>2 DEF db, TypeInv, IngestionTypeOK
    <3>. QED
      BY <1>3, <3>1, <3>2, SubmitStep, LookupStep, AbsorbStep, FlushStep, EndSteps
         DEF SessionStep, history
  <2>5. stale' \subseteq Traces /\ faults' \in 0 .. MaxFaults
    <3>1. stale \subseteq Traces /\ faults \in 0 .. MaxFaults /\ MaxFaults \in Nat
      BY IngestionConstantsOK DEF TypeInv, IngestionTypeOK
    <3>2. CASE Flush(s)
      <4>1. faults' = faults /\ txn[s].pc = "write"
            /\ stale' \in {stale, stale \cup {Current(s).of}}
        BY <3>2, FlushStep
      <4>2. Current(s).of \in Traces
        BY <4>1, CurrentType
      <4>. QED
        BY <3>1, <4>1, <4>2
    <3>3. CASE stale' = stale /\ faults' \in {faults} \cup {x \in {faults + 1} : x <= MaxFaults}
      BY <3>1, <3>3
    <3>. QED
      BY <1>3, <3>2, <3>3, SubmitStep, LookupStep, AbsorbStep, EndSteps
         DEF SessionStep, history
  <2>. QED
    BY <2>2, <2>3, <2>4, <2>5 DEF TypeInv, IngestionTypeOK, SessionType
<1>. QED
  BY <1>2, <1>3 DEF IngestionNext

LEMMA CopiedPreserved ==
    ASSUME TypeInv, Copied, [IngestionNext]_ingestionVars
    PROVE  Copied'
<1>1. txn \in [Sessions -> SessionType]
  BY DEF TypeInv, IngestionTypeOK, SessionType
<1>2. CASE UNCHANGED ingestionVars
  BY <1>2 DEF ingestionVars, Copied, Base
<1>3. ASSUME NEW s \in Sessions,
             \/ \E batch \in Requests : Submit(s, batch)
             \/ SessionStep(s) \/ Die(s) \/ Release(s)
      PROVE  Copied'
  <2>1. Alone(s)
    BY <1>3, SessionsMove
  <2>2. \A t \in Traces : stored[t] # None => stored'[t] # None
    BY <1>3, CommitStep, SubmitStep, LookupStep, AbsorbStep, FlushStep, EndSteps
       DEF SessionStep, db
  <2>3. ASSUME NEW t \in Traces, txn'[s].view[t] # None
        PROVE  txn'[s].rows[t] # None \/ stored'[t] # None
    <3>1. txn'[s].view # NoRows
      BY <2>3 DEF NoRows
    <3>2. CASE \E batch \in Requests : Submit(s, batch)
      BY <3>1, <3>2, SubmitStep
    <3>3. CASE Lookup(s)
      <4>1. /\ txn'[s].view = [txn[s].view EXCEPT ![Current(s).of] = Visible(s, Current(s).of)]
            /\ txn'[s].rows = txn[s].rows /\ txn[s].pc = "lookup" /\ stored' = stored
        BY <3>3, LookupStep DEF db
      <4>2. txn[s].view[t] # None \/ stored[t] # None
        BY <1>1, <2>3, <4>1 DEF SessionType, Visible
      <4>. QED
        BY <4>1, <4>2 DEF Copied, Base
    <3>4. CASE Absorb(s)
      BY <2>3, <3>4, AbsorbStep DEF Copied, Base, db
    <3>5. CASE Flush(s)
      <4>1. /\ txn'[s].view = [txn[s].view EXCEPT ![Current(s).of] = Written(s)]
            /\ txn'[s].rows = [txn[s].rows EXCEPT ![Current(s).of] = NewRow(s)]
            /\ txn[s].pc = "write" /\ ~Absorbed(s) /\ stored' = stored
        BY <3>5, FlushStep DEF db
      <4>2. NewRow(s) # None
        BY <4>1, FlushedRow, NoneApart
      <4>3. CASE t = Current(s).of
        BY <1>1, <4>1, <4>2, <4>3 DEF SessionType
      <4>4. CASE t # Current(s).of
        BY <1>1, <2>3, <4>1, <4>4 DEF SessionType, Copied, Base
      <4>. QED
        BY <4>3, <4>4
    <3>6. CASE Reject(s) \/ BreakDeadlock(s) \/ Die(s) \/ Release(s) \/ Commit(s)
      BY <3>1, <3>6, NothingHeld
    <3>. QED
      BY <1>3, <3>2, <3>3, <3>4, <3>5, <3>6 DEF SessionStep
  <2>4. ASSUME NEW r \in Sessions, NEW t \in Traces, txn'[r].view[t] # None
        PROVE  txn'[r].rows[t] # None \/ stored'[t] # None
    <3>1. CASE r = s
      BY <2>3, <2>4, <3>1
    <3>2. CASE r # s
      <4>1. txn'[r] = txn[r]
        BY <1>1, <2>1, <3>2 DEF Alone
      <4>. QED
        BY <2>2, <2>4, <4>1 DEF Copied, Base
    <3>. QED
      BY <3>1, <3>2
  <2>. QED
    BY <2>4 DEF Copied, Base
<1>. QED
  BY <1>2, <1>3 DEF IngestionNext

LEMMA TypeInitially == IngestionInit => TypeInv /\ Copied
<1>. SUFFICES ASSUME IngestionInit
              PROVE  TypeInv /\ Copied
  OBVIOUS
<1>1. NoRows \in [Traces -> Rows \cup {None}] /\ NoKeys \in [AllKeys -> Resources \cup {None}]
  BY DEF NoRows, NoKeys
<1>2. origin \in [Traces -> Messages \cup {None}]
  BY DEF IngestionInit, NoRows
<1>. HIDE DEF NoRows, NoKeys
<1>3. txn \in [Sessions -> SessionType] /\ \A s \in Sessions : Placed(txn[s])
  BY IdleType DEF IngestionInit
<1>4. IngestionTypeOK
  BY <1>1, <1>2, <1>3, IngestionConstantsOK DEF IngestionInit, IngestionTypeOK, SessionType
<1>5. Copied
  BY DEF IngestionInit, Copied, IdleSession, NoRows
<1>. QED
  BY <1>3, <1>4, <1>5 DEF TypeInv

\* Every variable stays in its type: rows are rows whatever posted traces and
\* events are merged in them, and a session is at a message of its request
\* (ingestion.py).
THEOREM IngestionTyped == IngestionSpec => []IngestionTypeOK
<1>1. IngestionInit => TypeInv /\ Copied
  BY TypeInitially
<1>2. TypeInv /\ Copied /\ [IngestionNext]_ingestionVars => (TypeInv /\ Copied)'
  BY TypePreserved, CopiedPreserved
<1>3. TypeInv => IngestionTypeOK
  BY DEF TypeInv
<1>. QED
  BY <1>1, <1>2, <1>3, PTL DEF IngestionSpec

LEMMA TypeInvariant == IngestionSpec => [](TypeInv /\ Copied)
<1>1. IngestionInit => TypeInv /\ Copied
  BY TypeInitially
<1>2. TypeInv /\ Copied /\ [IngestionNext]_ingestionVars => (TypeInv /\ Copied)'
  BY TypePreserved, CopiedPreserved
<1>. QED
  BY <1>1, <1>2, PTL DEF IngestionSpec

-----------------------------------------------------------------------------
(* Steps are told apart: in the database, in the memory of a session and in  *)
(* what it has flushed.                                                      *)

Unique(steps) == \A i, j \in DOMAIN steps : i # j => steps[i].id # steps[j].id

\* Clients number the steps of a trace they post.
PostsAreNumbered ==
    \A batch \in Requests : \A i \in DOMAIN batch :
        batch[i].kind = "trace" => Unique(batch[i].steps)

OnceIn(row) == row # None => Unique(row.steps)

OnceInv ==
    /\ \A t \in Traces : OnceIn(stored[t])
    /\ \A s \in Sessions : \A t \in Traces : OnceIn(txn[s].view[t]) /\ OnceIn(txn[s].rows[t])

LEMMA SteppedUnique ==
    ASSUME NEW r \in Rows, NEW e \in EventMessages, Unique(r.steps)
    PROVE  Unique(Stepped(r, e).steps)
<1>1. CASE \E i \in DOMAIN r.steps : r.steps[i].id = e.id
  BY <1>1 DEF Stepped
<1>2. CASE ~ \E i \in DOMAIN r.steps : r.steps[i].id = e.id
  <2>. DEFINE old == r.steps
              new == Append(old, EventStep(e))
  <2>1. Stepped(r, e).steps = new
    BY <1>2 DEF Stepped, Rows
  <2>2. old \in Seq(StepRecords) /\ EventStep(e).id = e.id
    BY DEF Rows, EventStep
  <2>3. DOMAIN new = DOMAIN old \cup {Len(old) + 1}
        /\ (\A i \in DOMAIN old : new[i] = old[i]) /\ new[Len(old) + 1] = EventStep(e)
    BY <2>2
  <2>4. \A i \in DOMAIN old : old[i].id # e.id
    BY <1>2
  <2>5. \A i, j \in DOMAIN old : i # j => old[i].id # old[j].id
    BY DEF Unique
  <2>. HIDE DEF new, old
  <2>6. \A i, j \in DOMAIN new : i # j => new[i].id # new[j].id
    BY <2>2, <2>3, <2>4, <2>5
  <2>. QED
    BY <2>1, <2>6 DEF Unique
<1>. QED
  BY <1>1, <1>2

LEMMA WrittenUnique ==
    ASSUME PostsAreNumbered, TypeInv, Copied, OnceInv,
           NEW s \in Sessions, txn[s].pc = "write", ~Absorbed(s)
    PROVE  Unique(Written(s).steps) /\ Unique(NewRow(s).steps)
<1>. DEFINE m == Current(s)
            t == m.of
<1>1. m \in Messages /\ t \in Traces /\ txn[s].next \in DOMAIN txn[s].batch
  BY CurrentType
<1>2. Unique(Written(s).steps)
  <2>1. CASE m.kind = "trace"
    <3>1. txn[s].batch \in Requests
      BY DEF TypeInv, Placed, Working
    <3>2. Unique(m.steps)
      BY <1>1, <2>1, <3>1 DEF PostsAreNumbered, Current
    <3>. QED
      BY <2>1, <3>2, WrittenRow
  <2>2. CASE m.kind = "event"
    <3>1. PICK r \in Rows :
              /\ IF Copy(s) = None THEN r.steps = <<>> ELSE r = Copy(s)
              /\ Written(s).steps = IF m.type = "step" THEN Stepped(r, m).steps ELSE r.steps
      BY <2>2, WrittenRow
    <3>2. Unique(r.steps)
      <4>1. CASE Copy(s) = None
        BY <3>1, <4>1 DEF Unique
      <4>2. CASE Copy(s) # None
        BY <1>1, <3>1, <4>2 DEF OnceInv, OnceIn, Copy
      <4>. QED
        BY <4>1, <4>2
    <3>3. m \in EventMessages
      BY <1>1, <2>2, MessageTypes
    <3>. HIDE DEF m
    <3>4. Unique(Stepped(r, m).steps)
      BY <3>2, <3>3, SteppedUnique
    <3>. QED
      BY <3>1, <3>2, <3>4
  <2>. QED
    BY <1>1, <2>1, <2>2, MessageTypes
<1>3. Copy(s) # None => Unique(Base(s, t).steps)
  BY <1>1 DEF Copied, Copy, Base, OnceInv, OnceIn
<1>. QED
  BY <1>2, <1>3, FlushedRow

LEMMA OncePreserved ==
    ASSUME PostsAreNumbered, TypeInv, Copied, OnceInv, [IngestionNext]_ingestionVars
    PROVE  OnceInv'
<1>1. txn \in [Sessions -> SessionType]
  BY DEF TypeInv, IngestionTypeOK, SessionType
<1>2. CASE UNCHANGED ingestionVars
  BY <1>2 DEF ingestionVars, OnceInv
<1>3. ASSUME NEW s \in Sessions,
             \/ \E batch \in Requests : Submit(s, batch)
             \/ SessionStep(s) \/ Die(s) \/ Release(s)
      PROVE  OnceInv'
  <2>1. Alone(s)
    BY <1>3, SessionsMove
  <2>2. ASSUME NEW t \in Traces
        PROVE  OnceIn(stored'[t])
    <3>1. CASE Commit(s)
      <4>1. stored'[t] = Base(s, t)
        BY <3>1, CommitStep
      <4>. QED
        BY <4>1 DEF Base, OnceInv
    <3>2. CASE stored' = stored
      BY <3>2 DEF OnceInv
    <3>. QED
      BY <1>3, <3>1, <3>2, SubmitStep, LookupStep, AbsorbStep, FlushStep, EndSteps
         DEF SessionStep, db
  <2>3. ASSUME NEW t \in Traces
        PROVE  OnceIn(txn'[s].view[t]) /\ OnceIn(txn'[s].rows[t])
    <3>1. OnceIn(NoRows[t])
      BY DEF OnceIn, NoRows
    <3>2. CASE \E batch \in Requests : Submit(s, batch)
      BY <3>1, <3>2, SubmitStep
    <3>3. CASE Lookup(s)
      <4>1. /\ txn'[s].view = [txn[s].view EXCEPT ![Current(s).of] = Visible(s, Current(s).of)]
            /\ txn'[s].rows = txn[s].rows /\ txn[s].pc = "lookup"
        BY <3>3, LookupStep
      <4>2. txn'[s].view[t] \in {txn[s].view[t], Visible(s, t)}
        BY <1>1, <4>1 DEF SessionType
      <4>. QED
        BY <4>1, <4>2 DEF Visible, OnceInv
    <3>4. CASE Absorb(s)
      BY <3>4, AbsorbStep DEF OnceInv
    <3>5. CASE Flush(s)
      <4>1. /\ txn'[s].view = [txn[s].view EXCEPT ![Current(s).of] = Written(s)]
            /\ txn'[s].rows = [txn[s].rows EXCEPT ![Current(s).of] = NewRow(s)]
            /\ txn[s].pc = "write" /\ ~Absorbed(s)
        BY <3>5, FlushStep
      <4>2. OnceIn(Written(s)) /\ OnceIn(NewRow(s))
        BY <4>1, WrittenUnique DEF OnceIn
      <4>3. /\ txn'[s].view[t] \in {txn[s].view[t], Written(s)}
            /\ txn'[s].rows[t] \in {txn[s].rows[t], NewRow(s)}
        BY <1>1, <4>1 DEF SessionType
      <4>. QED
        BY <4>2, <4>3 DEF OnceInv
    <3>6. CASE Reject(s) \/ BreakDeadlock(s) \/ Die(s) \/ Release(s) \/ Commit(s)
      BY <3>1, <3>6, NothingHeld
    <3>. QED
      BY <1>3, <3>2, <3>3, <3>4, <3>5, <3>6 DEF SessionStep
  <2>4. \A r \in Sessions : r = s \/ txn'[r] = txn[r]
    BY <1>1, <2>1 DEF Alone
  <2>. QED
    BY <2>2, <2>3, <2>4 DEF OnceInv
<1>. QED
  BY <1>2, <1>3 DEF IngestionNext

\* However many clients, events and requests there are: a trace has no step
\* twice, if no trace is posted with one twice.  A copy is as good as the row,
\* and an UPDATE sets the list of steps as a whole (ingest_event).
THEOREM StepsAreOnce ==
    ASSUME PostsAreNumbered
    PROVE  IngestionSpec => []StepsOnce
<1>1. IngestionInit => OnceInv
  BY DEF IngestionInit, OnceInv, OnceIn, IdleSession, NoRows
<1>2. TypeInv /\ Copied /\ OnceInv /\ [IngestionNext]_ingestionVars => OnceInv'
  BY OncePreserved
<1>3. OnceInv => StepsOnce
  BY DEF OnceInv, OnceIn, Unique, StepsOnce
<1>. QED
  BY <1>1, <1>2, <1>3, TypeInvariant, PTL DEF IngestionSpec

-----------------------------------------------------------------------------
(* What a session has dealt with is there once it commits, and what it adds *)
(* is about that.                                                          *)

HasRow(x, st, t) == x.rows[t] # None \/ st[t] # None
HasKey(x, ks, k) == x.keys[k] # None \/ ks[k] # None

Promises(x, st, ks, m) ==
    /\ m.kind = "event" => HasRow(x, st, m.of) /\ KeyOf(m) \in AllKeys /\ HasKey(x, ks, KeyOf(m))
    /\ m.kind = "trace" => HasRow(x, st, m.of) \/ (m.key \in AllKeys /\ HasKey(x, ks, m.key))

Settled(x, st, ks) ==
    /\ x.pc \in Working =>
           \A i \in DOMAIN x.batch : i < x.next => Promises(x, st, ks, x.batch[i])
    /\ \A k \in AllKeys : x.keys[k] # None =>
           \E i \in DOMAIN x.batch : i < x.next /\ KeyOf(x.batch[i]) = k
    /\ x.pc = "write" /\ x.seen =>
           /\ KeyOf(x.batch[x.next]) \in AllKeys
           /\ HasKey(x, ks, KeyOf(x.batch[x.next]))

SettledInv == \A s \in Sessions : Settled(txn[s], stored, keys)

\* A commit takes nothing back: what another session has found stays.
LEMMA RecordsStay ==
    ASSUME TypeInv, Copied, [IngestionNext]_ingestionVars
    PROVE  /\ \A t \in Traces : stored[t] # None => stored'[t] # None
           /\ \A k \in AllKeys : keys[k] # None => keys'[k] # None
<1>1. CASE UNCHANGED db
  BY <1>1 DEF db
<1>2. ASSUME NEW s \in Sessions, Commit(s)
      PROVE  /\ \A t \in Traces : stored[t] # None => stored'[t] # None
             /\ \A k \in AllKeys : keys[k] # None => keys'[k] # None
  BY <1>2, CommitStep
<1>. QED
  BY <1>1, <1>2, SubmitStep, LookupStep, AbsorbStep, FlushStep, EndSteps
     DEF IngestionNext, SessionStep, ingestionVars, db

LEMMA PromisesGrow ==
    ASSUME NEW m \in Messages, NEW x, NEW y, NEW st1, NEW st2, NEW ks1, NEW ks2,
           \A t \in Traces : HasRow(x, st1, t) => HasRow(y, st2, t),
           \A k \in AllKeys : HasKey(x, ks1, k) => HasKey(y, ks2, k),
           Promises(x, st1, ks1, m)
    PROVE  Promises(y, st2, ks2, m)
  BY MessageTypes DEF Promises

LEMMA SettledGrows ==
    ASSUME NEW x \in SessionType, NEW st1, NEW st2, NEW ks1, NEW ks2,
           \A t \in Traces : st1[t] # None => st2[t] # None,
           \A k \in AllKeys : ks1[k] # None => ks2[k] # None,
           Settled(x, st1, ks1)
    PROVE  Settled(x, st2, ks2)
<1>1. /\ \A t \in Traces : HasRow(x, st1, t) => HasRow(x, st2, t)
      /\ \A k \in AllKeys : HasKey(x, ks1, k) => HasKey(x, ks2, k)
  BY DEF HasRow, HasKey
<1>2. \A i \in DOMAIN x.batch : x.batch[i] \in Messages
  BY DEF SessionType
<1>3. \A m \in Messages : Promises(x, st1, ks1, m) => Promises(x, st2, ks2, m)
  BY <1>1, PromisesGrow
<1>. QED
  BY <1>1, <1>2, <1>3 DEF Settled

\* A message that needs no flush has what it promises.
LEMMA AbsorbSettles ==
    ASSUME TypeInv, Copied, SettledInv, NEW s \in Sessions,
           txn[s].pc = "write", Absorbed(s)
    PROVE  Promises(txn[s], stored, keys, Current(s))
<1>. DEFINE m == Current(s)
<1>1. m \in Messages /\ m.of \in Traces
  BY CurrentType
<1>2. Copy(s) # None => HasRow(txn[s], stored, m.of)
  BY <1>1 DEF Copy, Copied, Base, HasRow
<1>3. txn[s].seen => KeyOf(m) \in AllKeys /\ HasKey(txn[s], keys, KeyOf(m))
  BY DEF SettledInv, Settled, Current
<1>4. CASE m.kind = "event"
  BY <1>2, <1>3, <1>4 DEF Absorbed, Promises
<1>5. CASE m.kind = "trace"
  BY <1>2, <1>3, <1>5 DEF Absorbed, Promises, KeyOf
<1>. QED
  BY <1>1, <1>4, <1>5, MessageTypes DEF Promises

\* A flush leaves what its message promises, and takes nothing back.
LEMMA FlushSettles ==
    ASSUME TypeInv, Copied, SettledInv, NEW s \in Sessions, Flush(s)
    PROVE  /\ Promises(txn'[s], stored, keys, Current(s))
           /\ \A t \in Traces : HasRow(txn[s], stored, t) => HasRow(txn'[s], stored, t)
           /\ \A k \in AllKeys : HasKey(txn[s], keys, k) => HasKey(txn'[s], keys, k)
           /\ \A k \in AllKeys : txn'[s].keys[k] # None =>
                  txn[s].keys[k] # None \/ k = KeyOf(Current(s))
<1>. DEFINE m == Current(s)
<1>1. txn[s] \in SessionType
  BY DEF TypeInv, IngestionTypeOK, SessionType
<1>2. /\ txn[s].pc = "write" /\ ~Absorbed(s)
      /\ txn'[s].rows = [txn[s].rows EXCEPT ![m.of] = NewRow(s)]
      /\ txn'[s].keys = [k \in AllKeys |->
                            IF k = NewKey(s) THEN ResourceOf(m) ELSE txn[s].keys[k]]
  BY FlushStep
<1>3. m \in Messages /\ m.of \in Traces
  BY <1>2, CurrentType
<1>4. NewRow(s) # None /\ ResourceOf(m) # None
  BY <1>2, <1>3, FlushedRow, KeyTypes, NoneApart
<1>5. /\ \A t \in Traces : txn[s].rows[t] # None => txn'[s].rows[t] # None
      /\ txn'[s].rows[m.of] # None
  BY <1>1, <1>2, <1>3, <1>4 DEF SessionType
<1>6. \A k \in AllKeys : /\ txn[s].keys[k] # None => txn'[s].keys[k] # None
                         /\ k = NewKey(s) => txn'[s].keys[k] # None
                         /\ txn'[s].keys[k] # None => txn[s].keys[k] # None \/ k = NewKey(s)
  BY <1>1, <1>2, <1>4 DEF SessionType
<1>7. txn[s].seen => KeyOf(m) \in AllKeys /\ HasKey(txn[s], keys, KeyOf(m))
  BY <1>2 DEF SettledInv, Settled, Current
<1>8. \A k \in AllKeys : HasKey(txn[s], keys, k) => HasKey(txn'[s], keys, k)
  BY <1>6 DEF HasKey
<1>9. KeyOf(m) \in AllKeys => HasKey(txn'[s], keys, KeyOf(m))
  BY <1>6, <1>7, <1>8 DEF NewKey, HasKey
<1>10. m.kind = "event" => KeyOf(m) \in AllKeys
  <2>1. ASSUME m.kind = "event"
        PROVE  KeyOf(m) \in EventKeys
    BY <1>3, <2>1, MessageTypes DEF KeyOf, EventMessages, EventKeys, Projects
  <2>. QED
    BY <2>1 DEF AllKeys
<1>11. \A k \in AllKeys : k = NewKey(s) => k = KeyOf(m)
  BY NoneApart DEF NewKey
<1>. QED
  BY <1>5, <1>6, <1>8, <1>9, <1>10, <1>11 DEF Promises, HasRow

LEMMA SettledMoves ==
    ASSUME TypeInv, Copied, SettledInv, NEW s \in Sessions,
           \/ \E batch \in Requests : Submit(s, batch)
           \/ SessionStep(s) \/ Die(s) \/ Release(s)
    PROVE  Settled(txn'[s], stored', keys')
<1>. DEFINE x == txn[s]
            m == Current(s)
<1>1. x \in SessionType /\ Settled(x, stored, keys) /\ Placed(x)
  BY DEF TypeInv, IngestionTypeOK, SessionType, SettledInv
<1>2. \A i \in DOMAIN x.batch : x.batch[i] \in Messages /\ i \in Nat
  BY <1>1 DEF SessionType
<1>3. CASE \E batch \in Requests : Submit(s, batch)
  <2>1. /\ txn'[s].next = 1 /\ txn'[s].keys = NoKeys /\ txn'[s].pc \in {"lookup", "commit"}
        /\ txn'[s].batch \in Requests
    BY <1>3, SubmitStep
  <2>2. \A i \in DOMAIN txn'[s].batch : ~(i < 1)
    BY <2>1, IngestionConstantsOK
  <2>3. \A k \in AllKeys : txn'[s].keys[k] = None
    BY <2>1 DEF NoKeys
  <2>. QED
    BY <2>1, <2>2, <2>3 DEF Settled
<1>4. CASE Lookup(s)
  <2>1. /\ UNCHANGED <<stored, keys>> /\ x.pc = "lookup" /\ txn'[s].pc = "write"
        /\ txn'[s].batch = x.batch /\ txn'[s].next = x.next
        /\ txn'[s].seen = Known(s, m) /\ txn'[s].rows = x.rows /\ txn'[s].keys = x.keys
    BY <1>4, LookupStep DEF db
  <2>2. m \in Messages /\ KeyOf(m) \in AllKeys \cup {None}
    BY <2>1, CurrentType, KeyTypes
  <2>3. Known(s, m) => KeyOf(m) \in AllKeys /\ HasKey(x, keys, KeyOf(m))
    BY <2>2 DEF Known, KeyValue, HasKey
  <2>4. /\ \A t : HasRow(x, stored, t) = HasRow(txn'[s], stored, t)
        /\ \A k : HasKey(x, keys, k) = HasKey(txn'[s], keys, k)
    BY <2>1 DEF HasRow, HasKey
  <2>5. \A i \in DOMAIN x.batch : i < x.next => Promises(txn'[s], stored, keys, x.batch[i])
    BY <1>1, <2>1, <2>4 DEF Settled, Promises, Working
  <2>. QED
    BY <1>1, <2>1, <2>3, <2>4, <2>5 DEF Settled, Current
<1>5. ASSUME UNCHANGED <<stored, keys>>, x.pc = "write",
             txn'[s].pc \in {"lookup", "commit"},
             txn'[s].batch = x.batch, txn'[s].next = x.next + 1,
             Promises(txn'[s], stored, keys, m),
             \A t \in Traces : HasRow(x, stored, t) => HasRow(txn'[s], stored, t),
             \A k \in AllKeys : HasKey(x, keys, k) => HasKey(txn'[s], keys, k),
             \A k \in AllKeys : txn'[s].keys[k] # None => x.keys[k] # None \/ k = KeyOf(m)
      PROVE  Settled(txn'[s], stored', keys')
  <2>1. x.next \in Nat /\ x.next \in DOMAIN x.batch /\ m = x.batch[x.next]
    BY <1>1, <1>5 DEF SessionType, Placed, Current
  <2>. HIDE DEF m
  <2>2. ASSUME NEW i \in DOMAIN x.batch, i < x.next + 1
        PROVE  Promises(txn'[s], stored, keys, x.batch[i])
    <3>1. CASE i = x.next
      BY <1>5, <2>1, <3>1
    <3>2. CASE i < x.next
      <4>1. Promises(x, stored, keys, x.batch[i])
        BY <1>1, <1>5, <3>2 DEF Settled, Working
      <4>. QED
        BY <1>2, <1>5, <4>1, PromisesGrow
    <3>. QED
      BY <1>2, <2>1, <2>2, <3>1, <3>2
  <2>3. ASSUME NEW k \in AllKeys, txn'[s].keys[k] # None
        PROVE  \E i \in DOMAIN x.batch : i < x.next + 1 /\ KeyOf(x.batch[i]) = k
    <3>1. CASE k = KeyOf(m)
      BY <2>1, <3>1
    <3>2. CASE x.keys[k] # None
      <4>1. PICK i \in DOMAIN x.batch : i < x.next /\ KeyOf(x.batch[i]) = k
        BY <1>1, <3>2 DEF Settled
      <4>. QED
        BY <1>2, <2>1, <4>1
    <3>. QED
      BY <1>5, <2>3, <3>1, <3>2
  <2>. QED
    BY <1>5, <2>2, <2>3 DEF Settled
<1>6. CASE Absorb(s)
  <2>1. /\ UNCHANGED <<stored, keys>> /\ x.pc = "write" /\ Absorbed(s)
        /\ txn'[s].pc \in {"lookup", "commit"}
        /\ txn'[s].batch = x.batch /\ txn'[s].next = x.next + 1
        /\ txn'[s].rows = x.rows /\ txn'[s].keys = x.keys
    BY <1>6, AbsorbStep DEF db
  <2>2. /\ \A t : HasRow(x, stored, t) = HasRow(txn'[s], stored, t)
        /\ \A k : HasKey(x, keys, k) = HasKey(txn'[s], keys, k)
    BY <2>1 DEF HasRow, HasKey
  <2>3. Promises(txn'[s], stored, keys, m)
    BY <2>1, <2>2, AbsorbSettles DEF Promises
  <2>. QED
    BY <1>5, <2>1, <2>2, <2>3
<1>7. CASE Flush(s)
  <2>1. /\ UNCHANGED <<stored, keys>> /\ x.pc = "write"
        /\ txn'[s].pc \in {"lookup", "commit"}
        /\ txn'[s].batch = x.batch /\ txn'[s].next = x.next + 1
    BY <1>7, FlushStep DEF db
  <2>. QED
    BY <1>5, <1>7, <2>1, FlushSettles
<1>8. CASE Reject(s) \/ BreakDeadlock(s) \/ Die(s) \/ Release(s) \/ Commit(s)
  <2>1. txn'[s].pc \in {"ok", "idle", "failed"} /\ txn'[s].keys = NoKeys
    BY <1>8, NothingHeld
  <2>2. \A k \in AllKeys : txn'[s].keys[k] = None
    BY <2>1 DEF NoKeys
  <2>. QED
    BY <2>1, <2>2 DEF Settled, Working
<1>. QED
  BY <1>3, <1>4, <1>6, <1>7, <1>8 DEF SessionStep

LEMMA SettledPreserved ==
    ASSUME TypeInv, Copied, SettledInv, [IngestionNext]_ingestionVars
    PROVE  SettledInv'
<1>1. txn \in [Sessions -> SessionType]
  BY DEF TypeInv, IngestionTypeOK, SessionType
<1>2. CASE UNCHANGED ingestionVars
  BY <1>2 DEF ingestionVars, SettledInv
<1>3. ASSUME NEW s \in Sessions,
             \/ \E batch \in Requests : Submit(s, batch)
             \/ SessionStep(s) \/ Die(s) \/ Release(s)
      PROVE  SettledInv'
  <2>1. Alone(s) /\ Settled(txn'[s], stored', keys')
    BY <1>3, SessionsMove, SettledMoves
  <2>2. \A r \in Sessions : r = s \/ txn'[r] = txn[r]
    BY <1>1, <2>1 DEF Alone
  <2>3. \A r \in Sessions : Settled(txn[r], stored', keys')
    BY <1>1, RecordsStay, SettledGrows DEF SettledInv
  <2>. QED
    BY <2>1, <2>2, <2>3 DEF SettledInv
<1>. QED
  BY <1>2, <1>3 DEF IngestionNext

-----------------------------------------------------------------------------
(* The steps of sessions are steps of the service.                         *)

RequestSeen == [s \in Sessions |-> [pc |-> SeenPc(s), batch |-> SeenBatch(s)]]
RecordedSeen == {t \in Traces : stored[t] # None} \cup {k \in AllKeys : keys[k] # None}

LEMMA SeenMoves ==
    ASSUME TypeInv, NEW s \in Sessions, Alone(s)
    PROVE  RequestSeen' = [RequestSeen EXCEPT ![s] = [pc |-> SeenPc(s)', batch |-> SeenBatch(s)']]
<1>1. \A r \in Sessions : r = s \/ txn'[r] = txn[r]
  BY DEF Alone, TypeInv, IngestionTypeOK
<1>2. \A r \in Sessions : r # s => SeenPc(r)' = SeenPc(r) /\ SeenBatch(r)' = SeenBatch(r)
  BY <1>1 DEF SeenPc, SeenBatch
<1>. QED
  BY <1>2 DEF RequestSeen

\* What is recorded by a commit: what every message promises, and nothing the
\* messages do not mention.
LEMMA CommitRecords ==
    ASSUME TypeInv, SettledInv, NEW s \in Sessions, Commit(s)
    PROVE  LET messages == ToSet(txn[s].batch) IN
           \E more \in SUBSET UNION {Mentioned(m) : m \in messages} :
               RecordedSeen' = RecordedSeen \cup more \cup UNION {Promised(m) : m \in messages}
<1>. DEFINE b == txn[s].batch
            messages == ToSet(b)
            newRows == {t \in Traces : txn[s].rows[t] # None}
            newKeys == {k \in AllKeys : txn[s].keys[k] # None}
            more == newRows \cup newKeys
<1>1. txn[s] \in SessionType /\ Placed(txn[s]) /\ Settled(txn[s], stored, keys)
  BY DEF TypeInv, IngestionTypeOK, SessionType, SettledInv
<1>2. txn[s].pc = "commit" /\ txn[s].next = Len(b) + 1 /\ b \in Seq(Messages)
  BY <1>1, EndSteps DEF Placed, SessionType
<1>3. \A t \in Traces : stored'[t] # None <=> HasRow(txn[s], stored, t)
  BY CommitStep DEF Base, HasRow
<1>4. \A k \in AllKeys : keys'[k] # None <=> HasKey(txn[s], keys, k)
  BY CommitStep DEF KeyValue, HasKey
<1>5. RecordedSeen' = RecordedSeen \cup more
  BY <1>3, <1>4 DEF RecordedSeen, HasRow, HasKey
<1>6. messages = {b[i] : i \in DOMAIN b}
  BY DEF ToSet
<1>7. ASSUME NEW x \in newRows
      PROVE  \E m \in messages : x \in Mentioned(m)
  <2>1. PICK i \in DOMAIN b : b[i].of = x
    BY <1>1, <1>7 DEF Placed
  <2>. QED
    BY <1>6, <2>1, NoneApart DEF Mentioned
<1>8. ASSUME NEW x \in newKeys
      PROVE  \E m \in messages : x \in Mentioned(m)
  <2>1. PICK i \in DOMAIN b : KeyOf(b[i]) = x
    BY <1>1, <1>8 DEF Settled
  <2>. QED
    BY <1>6, <2>1, NoneApart DEF Mentioned
<1>9. more \in SUBSET UNION {Mentioned(m) : m \in messages}
  <2>. HIDE DEF newRows, newKeys, messages
  <2>. QED
    BY <1>7, <1>8
<1>10. ASSUME NEW m \in messages, NEW x \in Promised(m)
       PROVE  x \in RecordedSeen'
  <2>1. PICK i \in DOMAIN b : m = b[i]
    BY <1>6
  <2>2. Promises(txn[s], stored, keys, m) /\ m \in Messages
    BY <1>1, <1>2, <2>1 DEF Settled, Working
  <2>3. m.of \in Traces
    BY <2>2, MessageTypes
  <2>4. CASE m.kind = "event"
    <3>1. /\ x \in {m.of, KeyOf(m)} /\ KeyOf(m) \in AllKeys
          /\ HasRow(txn[s], stored, m.of) /\ HasKey(txn[s], keys, KeyOf(m))
      BY <1>10, <2>2, <2>4 DEF Promised, Promises
    <3>2. stored'[m.of] # None /\ keys'[KeyOf(m)] # None
      BY <1>3, <1>4, <2>3, <3>1
    <3>. QED
      BY <2>3, <3>1, <3>2 DEF RecordedSeen
  <2>5. CASE m.kind # "event"
    <3>1. x = m.of /\ HasRow(txn[s], stored, m.of)
      BY <1>10, <2>2, <2>5, MessageTypes, NoneApart DEF Promised, Promises
    <3>. QED
      BY <1>3, <2>3, <3>1 DEF RecordedSeen
  <2>. QED
    BY <2>4, <2>5
<1>11. RecordedSeen' = RecordedSeen \cup more \cup UNION {Promised(m) : m \in messages}
  <2>1. UNION {Promised(m) : m \in messages} \subseteq RecordedSeen'
    BY <1>10
  <2>. HIDE DEF more, messages
  <2>. QED
    BY <1>5, <2>1
<1>. QED
  BY <1>9, <1>11

LEMMA StepsAreServed ==
    ASSUME TypeInv, Copied, SettledInv, [IngestionNext]_ingestionVars
    PROVE  [Service!ServiceNext]_(Service!serviceVars)
<1>1. CASE UNCHANGED ingestionVars
  BY <1>1 DEF ingestionVars, Service!serviceVars, SeenPc, SeenBatch
<1>2. ASSUME NEW s \in Sessions,
             \/ \E batch \in Requests : Submit(s, batch)
             \/ SessionStep(s) \/ Die(s) \/ Release(s)
      PROVE  Service!ServiceNext \/ UNCHANGED Service!serviceVars
  <2>1. RequestSeen' = [RequestSeen EXCEPT ![s] = [pc |-> SeenPc(s)', batch |-> SeenBatch(s)']]
    BY <1>2, SessionsMove, SeenMoves
  <2>2. RequestSeen[s].pc = SeenPc(s) /\ RequestSeen[s].batch = SeenBatch(s)
        /\ RequestSeen[s] = [pc |-> SeenPc(s), batch |-> SeenBatch(s)]
        /\ DOMAIN RequestSeen = Sessions
    BY DEF RequestSeen
  <2>3. ASSUME NEW batch \in Requests, Submit(s, batch)
        PROVE  Service!ServiceNext
    <3>1. /\ txn[s].pc = "idle" /\ UNCHANGED db
          /\ txn'[s].pc \in {"commit", "lookup"} /\ txn'[s].batch = batch
      BY <2>3, SubmitStep
    <3>2. SeenPc(s) = "idle" /\ SeenPc(s)' = "busy" /\ SeenBatch(s)' = batch
      BY <3>1 DEF SeenPc, SeenBatch
    <3>3. RecordedSeen' = RecordedSeen
      BY <3>1 DEF RecordedSeen, db
    <3>4. Service!Accept(s, batch)
      BY <2>1, <2>2, <3>2, <3>3 DEF Service!Accept, RequestSeen, RecordedSeen
    <3>. QED
      BY <3>4 DEF Service!ServiceNext
  <2>4. ASSUME Lookup(s) \/ Absorb(s) \/ Flush(s)
        PROVE  UNCHANGED Service!serviceVars
    <3>1. /\ txn[s].pc \in Working /\ txn'[s].pc \in Working /\ UNCHANGED db
          /\ txn'[s].batch = txn[s].batch
      BY <2>4, LookupStep, AbsorbStep, FlushStep DEF Working
    <3>2. SeenPc(s)' = SeenPc(s) /\ SeenBatch(s)' = SeenBatch(s)
      BY <3>1 DEF SeenPc, SeenBatch, Working
    <3>3. RequestSeen' = RequestSeen
      <4>1. RequestSeen' = [RequestSeen EXCEPT ![s] = RequestSeen[s]]
        BY <2>1, <2>2, <3>2
      <4>2. RequestSeen = [r \in Sessions |-> [pc |-> SeenPc(r), batch |-> SeenBatch(r)]]
        BY DEF RequestSeen
      <4>. QED
        BY <4>1, <4>2
    <3>4. RecordedSeen' = RecordedSeen
      BY <3>1 DEF RecordedSeen, db
    <3>. QED
      BY <3>3, <3>4 DEF Service!serviceVars, RequestSeen, RecordedSeen
  <2>5. ASSUME Reject(s) \/ BreakDeadlock(s) \/ Die(s)
        PROVE  Service!ServiceNext
    <3>1. txn[s].pc \in Working /\ UNCHANGED db /\ txn'[s] = Failed
      BY <2>5, EndSteps
    <3>2. SeenPc(s) = "busy" /\ SeenPc(s)' = "failed" /\ SeenBatch(s)' = <<>>
      BY <3>1, IdleType DEF SeenPc, SeenBatch, Working
    <3>3. RecordedSeen' = RecordedSeen
      BY <3>1 DEF RecordedSeen, db
    <3>4. Service!Fail(s)
      BY <2>1, <2>2, <3>2, <3>3 DEF Service!Fail, Service!Idle, RequestSeen, RecordedSeen
    <3>. QED
      BY <3>4 DEF Service!ServiceNext
  <2>6. ASSUME Release(s)
        PROVE  Service!ServiceNext
    <3>1. txn[s].pc \in {"ok", "failed"} /\ UNCHANGED db /\ txn'[s] = IdleSession
      BY <2>6, EndSteps
    <3>2. SeenPc(s) \in {"ok", "failed"} /\ SeenPc(s)' = "idle" /\ SeenBatch(s)' = <<>>
      BY <3>1 DEF SeenPc, SeenBatch, IdleSession
    <3>3. RecordedSeen' = RecordedSeen
      BY <3>1 DEF RecordedSeen, db
    <3>4. Service!Release(s)
      BY <2>1, <2>2, <3>2, <3>3
         DEF Service!Release, Service!Answered, Service!Idle, RequestSeen, RecordedSeen
    <3>. QED
      BY <3>4 DEF Service!ServiceNext
  <2>7. ASSUME Commit(s)
        PROVE  Service!ServiceNext
    <3>1. txn[s].pc = "commit" /\ txn'[s].pc = "ok" /\ txn'[s].batch = txn[s].batch
      BY <2>7, EndSteps, NothingHeld
    <3>2. /\ SeenPc(s) = "busy" /\ SeenBatch(s) = txn[s].batch
          /\ SeenPc(s)' = "ok" /\ SeenBatch(s)' = txn[s].batch
      BY <3>1 DEF SeenPc, SeenBatch
    <3>3. RequestSeen' = [RequestSeen EXCEPT ![s].pc = "ok"]
      BY <2>1, <2>2, <3>2
    <3>4. \E more \in SUBSET UNION {Mentioned(m) : m \in ToSet(RequestSeen[s].batch)} :
              RecordedSeen' = RecordedSeen \cup more
                  \cup UNION {Promised(m) : m \in ToSet(RequestSeen[s].batch)}
      BY <2>2, <2>7, <3>2, CommitRecords
    <3>5. Service!ToSet(RequestSeen[s].batch) = ToSet(RequestSeen[s].batch)
      BY DEF Service!ToSet, ToSet
    <3>6. RequestSeen[s].pc = "busy"
      BY <2>2, <3>2
    <3>7. Service!Succeed(s)
      BY <3>3, <3>4, <3>5, <3>6, Zenon DEF Service!Succeed, RequestSeen, RecordedSeen
    <3>. QED
      BY <3>7 DEF Service!ServiceNext
  <2>. QED
    BY <1>2, <2>3, <2>4, <2>5, <2>6, <2>7 DEF SessionStep
<1>. QED
  BY <1>1, <1>2 DEF IngestionNext

\* To its clients the server is the service of IngestionService: a request
\* takes effect as a whole or not at all, and what an accepted one was about is
\* recorded from then on (the one commit at the end of every handler).
THEOREM IngestionServes == IngestionSpec => ImplementsService
<1>1. IngestionInit => TypeInv /\ Copied /\ SettledInv
  <2>1. IngestionInit => SettledInv
    BY DEF IngestionInit, SettledInv, Settled, IdleSession, NoKeys, Working
  <2>. QED
    BY <2>1, TypeInitially
<1>2. TypeInv /\ Copied /\ SettledInv /\ [IngestionNext]_ingestionVars => SettledInv'
  BY SettledPreserved
<1>3. IngestionInit => Service!ServiceInit
  BY DEF IngestionInit, Service!ServiceInit, Service!Idle, SeenPc, SeenBatch,
         IdleSession, NoRows, NoKeys
<1>4. TypeInv /\ Copied /\ SettledInv /\ [IngestionNext]_ingestionVars
          => [Service!ServiceNext]_(Service!serviceVars)
  BY StepsAreServed
<1>. QED
  BY <1>1, <1>2, <1>3, <1>4, TypeInvariant, PTL
     DEF IngestionSpec, ImplementsService, Service!ServiceSpec

-----------------------------------------------------------------------------
(* A flushed row or key belongs to one session, and is about a message that *)
(* no one has acknowledged.                                                *)

Exclusive ==
    \A r, s \in Sessions : r # s =>
        /\ \A t \in Traces : txn[r].rows[t] = None \/ txn[s].rows[t] = None
        /\ \A k \in AllKeys : txn[r].keys[k] = None \/ txn[s].keys[k] = None

KeysAreNew == \A s \in Sessions : \A k \in AllKeys : txn[s].keys[k] # None => keys[k] = None

\* What a message has left, seen from the database and from a session.
Recorded(st, ks, m) ==
    /\ m.kind = "event" => st[m.of] # None /\ ks[KeyOf(m)] # None
    /\ m.kind = "trace" => st[m.of] # None \/ (m.key \in AllKeys /\ ks[m.key] # None)

Pending(x, st, m) ==
    IF m.kind = "event"
    THEN x.keys[KeyOf(m)] # None \/ (x.rows[m.of] # None /\ st[m.of] = None)
    ELSE /\ x.rows[m.of] # None /\ st[m.of] = None
         /\ m.key \in AllKeys => x.keys[m.key] # None

Writes(x) ==
    \/ \E t \in Traces : x.rows[t] # None
    \/ \E k \in AllKeys : x.keys[k] # None

Holds(x, st) ==
    Writes(x) => \E i \in DOMAIN x.batch : i < x.next /\ Pending(x, st, x.batch[i])

RetryInv ==
    /\ Exclusive /\ KeysAreNew
    /\ \A m \in acked : Recorded(stored, keys, m)
    /\ \A s \in Sessions : Holds(txn[s], stored)

LEMMA EventKeyType ==
    ASSUME NEW m \in Messages, m.kind = "event"
    PROVE  KeyOf(m) \in AllKeys
<1>1. KeyOf(m) \in EventKeys
  BY MessageTypes DEF KeyOf, EventMessages, EventKeys, Projects
<1>. QED
  BY <1>1 DEF AllKeys

\* What is pending with a session is recorded by nobody.
LEMMA PendingIsNew ==
    ASSUME TypeInv, RetryInv, NEW s \in Sessions, NEW m \in Messages,
           Pending(txn[s], stored, m)
    PROVE  m \notin acked
<1>1. \A k \in AllKeys : txn[s].keys[k] # None => keys[k] = None
  BY DEF RetryInv, KeysAreNew
<1>2. m \in acked => Recorded(stored, keys, m)
  BY DEF RetryInv
<1>3. m.kind = "event" => KeyOf(m) \in AllKeys
  BY EventKeyType
<1>. QED
  BY <1>1, <1>2, <1>3, MessageTypes DEF Pending, Recorded

\* A flush is about a message that is new.
LEMMA FlushIsNew ==
    ASSUME TypeInv, Copied, NEW s \in Sessions, Flush(s)
    PROVE  Pending(txn'[s], stored, Current(s))
<1>. DEFINE m == Current(s)
<1>1. txn[s] \in SessionType
  BY DEF TypeInv, IngestionTypeOK, SessionType
<1>2. /\ txn[s].pc = "write" /\ ~Absorbed(s) /\ ~Conflict(s)
      /\ txn'[s].rows = [txn[s].rows EXCEPT ![m.of] = NewRow(s)]
      /\ txn'[s].keys = [k \in AllKeys |->
                            IF k = NewKey(s) THEN ResourceOf(m) ELSE txn[s].keys[k]]
  BY FlushStep
<1>3. m \in Messages /\ m.of \in Traces
  BY <1>2, CurrentType
<1>4. NewRow(s) # None /\ ResourceOf(m) # None
  BY <1>2, <1>3, FlushedRow, KeyTypes, NoneApart
<1>5. txn'[s].rows[m.of] # None
  BY <1>1, <1>2, <1>3, <1>4 DEF SessionType
<1>6. \A k \in AllKeys : k = NewKey(s) => txn'[s].keys[k] # None
  BY <1>2, <1>4
<1>7. Copy(s) = None => stored[m.of] = None
  BY <1>2 DEF Conflict
<1>8. CASE m.kind = "event"
  <2>1. KeyOf(m) \in AllKeys
    BY <1>3, <1>8, EventKeyType
  <2>2. txn[s].seen => Copy(s) = None
    BY <1>2, <1>8 DEF Absorbed
  <2>. QED
    BY <1>5, <1>6, <1>7, <1>8, <2>1, <2>2 DEF Pending, NewKey
<1>9. CASE m.kind # "event"
  <2>1. ~txn[s].seen /\ Copy(s) = None
    BY <1>2, <1>9 DEF Absorbed
  <2>. QED
    BY <1>5, <1>6, <1>7, <1>9, <2>1 DEF Pending, NewKey, KeyOf
<1>. QED
  BY <1>8, <1>9

\* What the session that moves keeps to itself.
LEMMA OwnMoves ==
    ASSUME TypeInv, Copied, RetryInv, NEW s \in Sessions,
           \/ \E batch \in Requests : Submit(s, batch)
           \/ SessionStep(s) \/ Die(s) \/ Release(s)
    PROVE  /\ Holds(txn'[s], stored')
           /\ \A k \in AllKeys : txn'[s].keys[k] # None => keys'[k] = None
           /\ \A r \in Sessions \ {s} :
                  /\ \A t \in Traces : txn[r].rows[t] = None \/ txn'[s].rows[t] = None
                  /\ \A k \in AllKeys : txn[r].keys[k] = None \/ txn'[s].keys[k] = None
<1>. DEFINE x == txn[s]
            m == Current(s)
            Apart == \A r \in Sessions \ {s} :
                         /\ \A t \in Traces : txn[r].rows[t] = None \/ txn'[s].rows[t] = None
                         /\ \A k \in AllKeys : txn[r].keys[k] = None \/ txn'[s].keys[k] = None
<1>1. /\ x \in SessionType /\ Holds(x, stored)
      /\ \A k \in AllKeys : x.keys[k] # None => keys[k] = None
  BY DEF TypeInv, IngestionTypeOK, SessionType, RetryInv, KeysAreNew
<1>2. \A r \in Sessions \ {s} :
          /\ \A t \in Traces : txn[r].rows[t] = None \/ x.rows[t] = None
          /\ \A k \in AllKeys : txn[r].keys[k] = None \/ x.keys[k] = None
  BY DEF RetryInv, Exclusive
<1>3. ASSUME txn'[s].rows = NoRows, txn'[s].keys = NoKeys
      PROVE  /\ Holds(txn'[s], stored') /\ Apart
             /\ \A k \in AllKeys : txn'[s].keys[k] # None => keys'[k] = None
  <2>1. /\ \A t \in Traces : txn'[s].rows[t] = None
        /\ \A k \in AllKeys : txn'[s].keys[k] = None
    BY <1>3 DEF NoRows, NoKeys
  <2>. QED
    BY <2>1 DEF Holds, Writes
<1>4. CASE \E batch \in Requests : Submit(s, batch)
  BY <1>3, <1>4, SubmitStep
<1>5. CASE Reject(s) \/ BreakDeadlock(s) \/ Die(s) \/ Release(s) \/ Commit(s)
  BY <1>3, <1>5, NothingHeld
<1>6. CASE Lookup(s) \/ Absorb(s)
  <2>1. /\ UNCHANGED <<stored, keys>> /\ txn'[s].batch = x.batch
        /\ txn'[s].next \in {x.next, x.next + 1}
        /\ txn'[s].rows = x.rows /\ txn'[s].keys = x.keys
    BY <1>6, LookupStep, AbsorbStep DEF db
  <2>2. Holds(txn'[s], stored')
    <3>1. Writes(txn'[s]) = Writes(x)
      BY <2>1 DEF Writes
    <3>2. \A p : Pending(txn'[s], stored', p) = Pending(x, stored, p)
      BY <2>1 DEF Pending
    <3>3. x.next \in Nat /\ \A i \in DOMAIN x.batch : i \in Nat
      BY <1>1 DEF SessionType
    <3>4. \A i \in DOMAIN x.batch : i < x.next => i < txn'[s].next
      BY <2>1, <3>3
    <3>. QED
      BY <1>1, <2>1, <3>1, <3>2, <3>4 DEF Holds
  <2>. QED
    BY <1>1, <1>2, <2>1, <2>2
<1>7. CASE Flush(s)
  <2>1. /\ UNCHANGED <<stored, keys>> /\ x.pc = "write" /\ ~Absorbed(s) /\ ~Conflict(s)
        /\ \A r \in Sessions : ~Blocks(r, s)
        /\ txn'[s].batch = x.batch /\ txn'[s].next = x.next + 1
        /\ txn'[s].rows = [x.rows EXCEPT ![m.of] = NewRow(s)]
        /\ txn'[s].keys = [k \in AllKeys |->
                              IF k = NewKey(s) THEN ResourceOf(m) ELSE x.keys[k]]
    BY <1>7, FlushStep DEF db
  <2>2. Holds(txn'[s], stored')
    <3>1. x.next \in DOMAIN x.batch /\ m = x.batch[x.next] /\ x.next \in Nat
      BY <1>1, <2>1, CurrentType DEF Current, SessionType
    <3>2. Pending(txn'[s], stored, m)
      BY <1>7, FlushIsNew
    <3>. QED
      BY <2>1, <3>1, <3>2 DEF Holds
  <2>3. ASSUME NEW k \in AllKeys, txn'[s].keys[k] # None
        PROVE  keys'[k] = None
    <3>1. CASE k = NewKey(s)
      BY <2>1, <3>1, NoneApart DEF Conflict, KeyValue
    <3>2. CASE k # NewKey(s)
      BY <1>1, <2>1, <2>3, <3>2
    <3>. QED
      BY <3>1, <3>2
  <2>4. ASSUME NEW r \in Sessions \ {s}
        PROVE  /\ \A t \in Traces : txn[r].rows[t] = None \/ txn'[s].rows[t] = None
               /\ \A k \in AllKeys : txn[r].keys[k] = None \/ txn'[s].keys[k] = None
    <3>1. /\ txn[r].rows[m.of] = None
          /\ NewKey(s) # None => txn[r].keys[NewKey(s)] = None
      BY <2>1 DEF Blocks
    <3>2. \A t \in Traces : t # m.of => txn'[s].rows[t] = x.rows[t]
      BY <1>1, <2>1 DEF SessionType
    <3>3. \A k \in AllKeys : k # NewKey(s) => txn'[s].keys[k] = x.keys[k]
      BY <2>1
    <3>. QED
      BY <1>2, <3>1, <3>2, <3>3, NoneApart
  <2>. QED
    BY <2>2, <2>3, <2>4
<1>. QED
  BY <1>4, <1>5, <1>6, <1>7 DEF SessionStep

\* What a commit records is out of reach of the other sessions.
LEMMA OthersKeep ==
    ASSUME TypeInv, Copied, RetryInv, NEW s \in Sessions, NEW r \in Sessions \ {s},
           \/ \E batch \in Requests : Submit(s, batch)
           \/ SessionStep(s) \/ Die(s) \/ Release(s)
    PROVE  /\ Holds(txn[r], stored')
           /\ \A k \in AllKeys : txn[r].keys[k] # None => keys'[k] = None
<1>1. Holds(txn[r], stored) /\ \A k \in AllKeys : txn[r].keys[k] # None => keys[k] = None
  BY DEF RetryInv, KeysAreNew
<1>2. CASE UNCHANGED <<stored, keys>>
  BY <1>1, <1>2
<1>3. CASE Commit(s)
  <2>1. /\ \A t \in Traces : txn[r].rows[t] # None => stored'[t] = stored[t]
        /\ \A k \in AllKeys : txn[r].keys[k] # None => keys'[k] = keys[k]
    BY <1>3, CommitStep DEF RetryInv, Exclusive, Base, KeyValue
  <2>2. txn[r] \in SessionType
    BY DEF TypeInv, IngestionTypeOK, SessionType
  <2>3. \A i \in DOMAIN txn[r].batch : txn[r].batch[i].of \in Traces
    BY <2>2, MessageTypes DEF SessionType
  <2>4. ASSUME NEW i \in DOMAIN txn[r].batch, Pending(txn[r], stored, txn[r].batch[i])
        PROVE  Pending(txn[r], stored', txn[r].batch[i])
    BY <2>1, <2>3, <2>4 DEF Pending
  <2>. QED
    BY <1>1, <2>1, <2>4 DEF Holds
<1>. QED
  BY <1>2, <1>3, SubmitStep, LookupStep, AbsorbStep, FlushStep, EndSteps DEF SessionStep, db

\* What is acknowledged is recorded.
LEMMA AckedRecorded ==
    ASSUME TypeInv, Copied, SettledInv, RetryInv, NEW s \in Sessions,
           \/ \E batch \in Requests : Submit(s, batch)
           \/ SessionStep(s) \/ Die(s) \/ Release(s)
    PROVE  \A m \in acked' : Recorded(stored', keys', m)
<1>1. \A m \in acked : Recorded(stored, keys, m) /\ m \in Messages
  BY DEF RetryInv, TypeInv, IngestionTypeOK
<1>2. CASE UNCHANGED <<stored, keys, acked>>
  BY <1>1, <1>2
<1>3. CASE Commit(s)
  <2>. DEFINE b == txn[s].batch
  <2>1. txn[s] \in SessionType /\ Placed(txn[s]) /\ Settled(txn[s], stored, keys)
    BY DEF TypeInv, IngestionTypeOK, SessionType, SettledInv
  <2>2. txn[s].pc = "commit" /\ txn[s].next = Len(b) + 1 /\ b \in Seq(Messages)
    BY <1>3, <2>1, EndSteps DEF Placed, SessionType
  <2>3. /\ \A t \in Traces : stored'[t] # None <=> HasRow(txn[s], stored, t)
        /\ \A k \in AllKeys : keys'[k] # None <=> HasKey(txn[s], keys, k)
    BY <1>3, CommitStep DEF Base, HasRow, KeyValue, HasKey
  <2>4. acked' = acked \cup {b[i] : i \in DOMAIN b}
    BY <1>3, CommitStep DEF ToSet
  <2>5. ASSUME NEW i \in DOMAIN b
        PROVE  Recorded(stored', keys', b[i])
    <3>1. Promises(txn[s], stored, keys, b[i]) /\ b[i] \in Messages
      BY <2>1, <2>2 DEF Settled, Working
    <3>. QED
      BY <2>3, <3>1, MessageTypes DEF Promises, Recorded
  <2>6. ASSUME NEW m \in acked
        PROVE  Recorded(stored', keys', m)
    <3>1. Recorded(stored, keys, m) /\ m \in Messages
      BY <1>1
    <3>2. /\ \A t \in Traces : stored[t] # None => stored'[t] # None
          /\ \A k \in AllKeys : keys[k] # None => keys'[k] # None
      BY <1>3, CommitStep
    <3>. QED
      BY <3>1, <3>2, MessageTypes, EventKeyType DEF Recorded
  <2>. QED
    BY <2>4, <2>5, <2>6
<1>. QED
  BY <1>2, <1>3, SubmitStep, LookupStep, AbsorbStep, FlushStep, EndSteps
     DEF SessionStep, db, history

LEMMA RetryPreserved ==
    ASSUME TypeInv, Copied, SettledInv, RetryInv, [IngestionNext]_ingestionVars
    PROVE  RetryInv'
<1>1. txn \in [Sessions -> SessionType]
  BY DEF TypeInv, IngestionTypeOK, SessionType
<1>2. CASE UNCHANGED ingestionVars
  BY <1>2 DEF ingestionVars, RetryInv, Exclusive, KeysAreNew
<1>3. ASSUME NEW s \in Sessions,
             \/ \E batch \in Requests : Submit(s, batch)
             \/ SessionStep(s) \/ Die(s) \/ Release(s)
      PROVE  RetryInv'
  <2>1. \A r \in Sessions \ {s} : txn'[r] = txn[r]
    BY <1>1, <1>3, SessionsMove DEF Alone
  <2>2. /\ Holds(txn'[s], stored')
        /\ \A k \in AllKeys : txn'[s].keys[k] # None => keys'[k] = None
        /\ \A r \in Sessions \ {s} :
               /\ \A t \in Traces : txn[r].rows[t] = None \/ txn'[s].rows[t] = None
               /\ \A k \in AllKeys : txn[r].keys[k] = None \/ txn'[s].keys[k] = None
    BY <1>3, OwnMoves
  <2>3. \A r \in Sessions \ {s} :
            /\ Holds(txn[r], stored')
            /\ \A k \in AllKeys : txn[r].keys[k] # None => keys'[k] = None
    BY <1>3, OthersKeep
  <2>4. \A m \in acked' : Recorded(stored', keys', m)
    BY <1>3, AckedRecorded
  <2>5. Exclusive'
    BY <2>1, <2>2 DEF RetryInv, Exclusive
  <2>6. KeysAreNew'
    BY <2>1, <2>2, <2>3 DEF KeysAreNew
  <2>7. \A r \in Sessions : Holds(txn'[r], stored')
    BY <2>1, <2>2, <2>3
  <2>. QED
    BY <2>4, <2>5, <2>6, <2>7 DEF RetryInv
<1>. QED
  BY <1>2, <1>3 DEF IngestionNext

\* A session with nothing but acknowledged messages has written nothing.
LEMMA RetryIsAbsorbed ==
    ASSUME TypeInv, Copied, RetryInv, [IngestionNext]_ingestionVars, NEW s \in Sessions,
           txn[s].pc = "commit", txn'[s].pc = "ok", ToSet(txn[s].batch) \subseteq acked
    PROVE  UNCHANGED db
<1>1. SUFFICES ASSUME NEW r \in Sessions, Commit(r)
               PROVE  UNCHANGED db
  BY SubmitStep, LookupStep, AbsorbStep, FlushStep, EndSteps
     DEF IngestionNext, SessionStep, ingestionVars, db
<1>2. r = s
  <2>1. txn \in [Sessions -> SessionType] /\ Alone(r)
    BY <1>1, EndSteps DEF TypeInv, IngestionTypeOK, SessionType
  <2>. QED
    BY <2>1 DEF Alone
<1>3. ~Writes(txn[s])
  <2>1. \A i \in DOMAIN txn[s].batch : txn[s].batch[i] \in acked /\ txn[s].batch[i] \in Messages
    BY DEF ToSet, TypeInv, IngestionTypeOK
  <2>2. Holds(txn[s], stored)
    BY DEF RetryInv
  <2>. QED
    BY <2>1, <2>2, PendingIsNew DEF Holds
<1>4. stored' = stored
  BY <1>1, <1>2, <1>3, CommitStep DEF Writes, Base, TypeInv, IngestionTypeOK
<1>5. keys' = keys
  BY <1>1, <1>2, <1>3, CommitStep DEF Writes, KeyValue, TypeInv, IngestionTypeOK
<1>. QED
  BY <1>4, <1>5 DEF db

\* A request of acknowledged messages changes nothing, however late it comes
\* and whatever runs beside it: to have flushed something its session must
\* have found it new, and no one else can commit it while it holds the lock
\* (the unique keys of ingestion.py and of the tables).
THEOREM RetriesAreAbsorbed == IngestionSpec => RetryAbsorbed
<1>1. IngestionInit => RetryInv /\ SettledInv
  <2>1. IngestionInit => SettledInv
    BY DEF IngestionInit, SettledInv, Settled, IdleSession, NoKeys, Working
  <2>2. IngestionInit => RetryInv
    BY DEF IngestionInit, RetryInv, Exclusive, KeysAreNew, Holds, Writes, IdleSession,
           NoRows, NoKeys
  <2>. QED
    BY <2>1, <2>2
<1>2. TypeInv /\ Copied /\ SettledInv /\ [IngestionNext]_ingestionVars => SettledInv'
  BY SettledPreserved
<1>3. TypeInv /\ Copied /\ SettledInv /\ RetryInv /\ [IngestionNext]_ingestionVars => RetryInv'
  BY RetryPreserved
<1>4. TypeInv /\ Copied /\ RetryInv /\ [IngestionNext]_ingestionVars =>
          [\A s \in Sessions :
              txn[s].pc = "commit" /\ txn'[s].pc = "ok" /\ ToSet(txn[s].batch) \subseteq acked
                  => UNCHANGED db]_ingestionVars
  BY RetryIsAbsorbed
<1>. QED
  BY <1>1, <1>2, <1>3, <1>4, TypeInvariant, PTL DEF IngestionSpec, RetryAbsorbed

-----------------------------------------------------------------------------
(* Waiting.                                                                *)

\* Whoever others wait for is at work on a request.
LEMMA BlockersWork ==
    ASSUME TypeInv, NEW r \in Sessions, NEW s \in Sessions, Blocks(r, s)
    PROVE  txn[r].pc \in Working
<1>1. Placed(txn[r])
  BY DEF TypeInv
<1>2. Current(s).of \in Traces /\ NewKey(s) \in AllKeys \cup {None}
  <2>1. Current(s) \in Messages /\ Current(s).of \in Traces
    BY CurrentType DEF Blocks
  <2>. QED
    BY <2>1, KeyTypes DEF NewKey
<1>3. CASE txn[r].rows[Current(s).of] # None
  BY <1>1, <1>2, <1>3 DEF Placed, NoRows
<1>4. CASE NewKey(s) # None /\ txn[r].keys[NewKey(s)] # None
  BY <1>1, <1>2, <1>4 DEF Placed, NoKeys
<1>. QED
  BY <1>3, <1>4 DEF Blocks

\* Whatever requests wait for each other, one of them can go on or the database
\* has a circle to break: a request that is over holds no row and no key
\* (the sessions of the ingestion handlers).
THEOREM RequestsAreUnstuck == IngestionSpec => []RequestsUnstuck
<1>1. ASSUME TypeInv
      PROVE  RequestsUnstuck
  <2>. SUFFICES ASSUME NEW s \in Sessions, txn[s].pc \in Working,
                       NEW waited \in SUBSET Sessions, s \in waited,
                       \A x \in waited, y \in Sessions : Blocks(y, x) => y \in waited,
                       \A r \in waited : ~Ready(r)
                PROVE  Deadlocked(s)
    BY DEF RequestsUnstuck, Working
  <2>. DEFINE circle == {x \in waited : txn[x].pc \in Working}
  <2>1. ASSUME NEW x \in circle
        PROVE  \E y \in circle : Blocks(y, x)
    <3>1. x \in Sessions /\ x \in waited /\ ~Ready(x) /\ txn[x].pc \in Working
      OBVIOUS
    <3>. HIDE DEF circle
    <3>2. txn[x].pc = "write"
      BY <3>1 DEF Ready, Working
    <3>3. ~ \A y \in Sessions : ~Blocks(y, x)
      BY <3>1, <3>2 DEF Ready
    <3>4. PICK y \in Sessions : Blocks(y, x)
      BY <3>3, Zenon
    <3>5. y \in waited
      BY <3>1, <3>4, Zenon
    <3>6. txn[y].pc \in Working
      BY <1>1, <3>1, <3>4, BlockersWork
    <3>. QED
      BY <3>4, <3>5, <3>6 DEF circle
  <2>2. s \in circle /\ circle \in SUBSET Sessions
    OBVIOUS
  <2>. HIDE DEF circle
  <2>. QED
    BY <2>1, <2>2 DEF Deadlocked
<1>. QED
  BY <1>1, TypeInvariant, PTL

\* A copy is what the database has, flushed rows included.
UpToDate ==
    \A s \in Sessions : \A t \in Traces :
        /\ txn[s].view[t] # None => Base(s, t) = txn[s].view[t]
        /\ txn[s].rows[t] # None => txn[s].view[t] # None

\* As long as one session works at a time, its copies stay up to date.
LEMMA UpToDatePreserved ==
    ASSUME \A r, s \in Sessions : r = s,
           TypeInv, Copied, UpToDate, stale = {}, [IngestionNext]_ingestionVars
    PROVE  UpToDate' /\ stale' = {}
<1>1. txn \in [Sessions -> SessionType]
  BY DEF TypeInv, IngestionTypeOK, SessionType
<1>2. CASE UNCHANGED ingestionVars
  BY <1>2 DEF ingestionVars, UpToDate, Base
<1>3. ASSUME NEW s \in Sessions,
             \/ \E batch \in Requests : Submit(s, batch)
             \/ SessionStep(s) \/ Die(s) \/ Release(s)
      PROVE  UpToDate' /\ stale' = {}
  <2>1. ASSUME NEW t \in Traces
        PROVE  /\ txn'[s].view[t] # None => Base(s, t)' = txn'[s].view[t]
               /\ txn'[s].rows[t] # None => txn'[s].view[t] # None
    <3>1. CASE \E batch \in Requests : Submit(s, batch)
      <4>1. /\ txn'[s].view = NoRows /\ txn'[s].rows = NoRows
        BY <3>1, SubmitStep
      <4>. QED
        BY <4>1 DEF NoRows
    <3>2. CASE Lookup(s)
      <4>. DEFINE u == Current(s).of
      <4>1. /\ txn'[s].view = [txn[s].view EXCEPT ![u] = Visible(s, u)]
            /\ txn'[s].rows = txn[s].rows /\ txn[s].pc = "lookup" /\ stored' = stored
        BY <3>2, LookupStep DEF db
      <4>2. txn'[s].view[t] = IF t = u THEN Visible(s, u) ELSE txn[s].view[t]
        BY <1>1, <4>1 DEF SessionType
      <4>. HIDE DEF u
      <4>. QED
        BY <4>1, <4>2 DEF UpToDate, Base, Visible
    <3>3. CASE Absorb(s)
      BY <3>3, AbsorbStep DEF UpToDate, Base, db
    <3>4. CASE Flush(s)
      <4>. DEFINE u == Current(s).of
      <4>1. /\ txn'[s].view = [txn[s].view EXCEPT ![u] = Written(s)]
            /\ txn'[s].rows = [txn[s].rows EXCEPT ![u] = NewRow(s)]
            /\ txn[s].pc = "write" /\ ~Absorbed(s) /\ stored' = stored
        BY <3>4, FlushStep DEF db
      <4>2. u \in Traces
        BY <4>1, CurrentType
      <4>3. Copy(s) # None => Base(s, u) = Copy(s)
        BY <4>2 DEF UpToDate, Copy
      <4>4. NewRow(s) = Written(s) /\ Written(s) # None
        <5>1. Written(s) \in Rows
          BY <4>1, WrittenRow
        <5>2. CASE Copy(s) = None
          BY <5>1, <5>2, NoneApart DEF NewRow
        <5>3. CASE Copy(s) # None
          BY <4>1, <4>3, <5>1, <5>3, FlushedRow, NoneApart
        <5>. QED
          BY <5>2, <5>3
      <4>5. /\ txn'[s].view[t] = IF t = u THEN Written(s) ELSE txn[s].view[t]
            /\ txn'[s].rows[t] = IF t = u THEN NewRow(s) ELSE txn[s].rows[t]
        BY <1>1, <4>1 DEF SessionType
      <4>. HIDE DEF u
      <4>. QED
        BY <4>1, <4>4, <4>5 DEF UpToDate, Base
    <3>5. CASE Reject(s) \/ BreakDeadlock(s) \/ Die(s) \/ Release(s) \/ Commit(s)
      BY <3>5, NothingHeld DEF NoRows
    <3>. QED
      BY <1>3, <3>1, <3>2, <3>3, <3>4, <3>5 DEF SessionStep
  <2>2. UpToDate'
    BY <2>1 DEF UpToDate
  <2>3. CASE Flush(s)
    <3>1. Current(s).of \in Traces
      BY <2>3, FlushStep, CurrentType
    <3>2. Copy(s) # None => Base(s, Current(s).of) = Copy(s)
      BY <3>1 DEF UpToDate, Copy
    <3>. QED
      BY <2>2, <2>3, <3>2, FlushStep
  <2>4. CASE ~Flush(s)
    <3>1. stale' = stale
      BY <1>3, <2>4
         DEF SessionStep, Submit, Lookup, Absorb, Reject, BreakDeadlock, Commit, Die,
             Release, history
    <3>. QED
      BY <2>2, <3>1
  <2>. QED
    BY <2>3, <2>4
<1>. QED
  BY <1>2, <1>3 DEF IngestionNext

\* Only concurrent requests lose updates: with one session at a time no update
\* is made from an outdated copy, so what the other theorems say of the traces
\* that are not in stale holds of all of them.
THEOREM SerialIngestionNeverStale ==
    ASSUME \A r, s \in Sessions : r = s
    PROVE  IngestionSpec => [](stale = {})
<1>1. IngestionInit => UpToDate /\ stale = {}
  BY DEF IngestionInit, UpToDate, IdleSession, NoRows
<1>2. TypeInv /\ Copied /\ UpToDate /\ stale = {} /\ [IngestionNext]_ingestionVars
        => UpToDate' /\ (stale = {})'
  BY UpToDatePreserved
<1>. QED
  BY <1>1, <1>2, TypeInvariant, PTL DEF IngestionSpec

=============================================================================
