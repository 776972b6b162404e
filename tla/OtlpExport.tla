----------------------------- MODULE OtlpExport -----------------------------
(***************************************************************************)
(* What the server makes of an OpenTelemetry export (services/otel.py and  *)
(* the /v1/otel handlers of main.py): one request, with one step event for *)
(* each span that can be named, in the project that the span or the API    *)
(* key tells.                                                              *)
(***************************************************************************)
EXTENDS TraceIngestion

CONSTANTS OtelId,       \* span or trace id of OpenTelemetry -> id of Hyoka
          NoId,         \* the id of a span that has none
          NoTime,       \* the time of a span that has none
          Exports       \* what exporters send, when, and the API key's project

ASSUME OtelIdInjective ==
    \A x, y \in DOMAIN OtelId : x # y => OtelId[x] # OtelId[y]

Ids == DOMAIN OtelId \cup {NoId}
Spans == [trace : Ids, id : Ids, parent : Ids, project : Projects \cup {NoId, "default"},
          ok : BOOLEAN, start : Nat \cup {NoTime}, end : Nat \cup {NoTime}]

Everywhere == "*"

ASSUME ExportsOK ==
    \A x \in Exports : x.spans \in Seq(Spans) /\ x.key \in Projects \cup {Everywhere}

-----------------------------------------------------------------------------

\* _duration_ms; what is absent counts as nothing.
SpanMs(span) ==
    IF NoTime \in {span.start, span.end} \/ span.end < span.start
    THEN 0 ELSE span.end - span.start

SpanEventId(span) == OtelId[span.id]

\* A span that names no project is in the default one, and the default project
\* is that of the key (_ingest_otlp_json, _resolve_payload_project).
ProjectOfSpan(span, key) ==
    LET default == IF key = Everywhere THEN "default" ELSE key
        project == IF span.project = NoId THEN default ELSE span.project
    IN  IF key # Everywhere /\ project = "default" THEN key ELSE project

TraceOf(span, key) == [project |-> ProjectOfSpan(span, key), name |-> OtelId[span.trace]]

\* A span of any kind is one step: _step_type never yields a start or an end.
\* Without a start its time is the present.
SpanEvent(span, now, key) ==
    [kind |-> "event", type |-> "step", of |-> TraceOf(span, key),
     reached |-> key \in {Everywhere, ProjectOfSpan(span, key)},
     id |-> SpanEventId(span), status |-> IF span.ok THEN "ok" ELSE "error",
     ms |-> SpanMs(span), at |-> IF span.start = NoTime THEN now ELSE span.start]

HasIds(span) == span.trace # NoId /\ span.id # NoId

\* The loop of otlp_json_to_events: spans without ids are skipped.
OtlpRequest(x) ==
    LET events[n \in 0 .. Len(x.spans)] ==
            IF n = 0 THEN <<>>
            ELSE IF HasIds(x.spans[n])
                 THEN Append(events[n - 1], SpanEvent(x.spans[n], x.now, x.key))
                 ELSE events[n - 1]
    IN  events[Len(x.spans)]

-----------------------------------------------------------------------------

\* Among the events acknowledged in its project, id stands for steps of one
\* trace only.
IdOfOneTrace(id, of) ==
    \A m \in acked : m.kind = "event" /\ m.of.project = of.project /\ m.id = id =>
                        m.of = of /\ m.type = "step"

\* The steps that a message tells of.
StepsTold(m) ==
    IF m.kind = "event" THEN {m.id} ELSE {m.steps[i].id : i \in DOMAIN m.steps}

\* An export is taken as a whole or not at all.  Once it is acknowledged every
\* span of it that has ids is a step of its trace, under its own id, whatever
\* spans the export skips and whoever else posts: unless its id means something
\* else in the project, or an update from an outdated copy undid it.  With a span
\* in a project that its key does not reach it is never acknowledged; and no
\* trace has a step that no acknowledged request tells of, although the spans
\* before the one that is refused were flushed (otlp_json_to_events,
\* _ingest_otlp_json, ingest_event).
ExportIsWhole ==
    /\ \A x \in Exports : ToSet(OtlpRequest(x)) \subseteq acked =>
           \A i \in DOMAIN x.spans :
               LET span == x.spans[i]
                   of == TraceOf(span, x.key)
               IN  HasIds(span) =>
                   /\ x.key \in {Everywhere, of.project}
                   /\ of \notin stale /\ IdOfOneTrace(OtelId[span.id], of) =>
                          stored[of] # None /\ OtelId[span.id] \in StepIdsOf(stored[of])
    /\ \A t \in Traces : stored[t] # None =>
           \A id \in StepIdsOf(stored[t]) :
               \E m \in acked : m.of = t /\ id \in StepsTold(m)

=============================================================================
