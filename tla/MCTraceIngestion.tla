-------------------------- MODULE MCTraceIngestion --------------------------
\* TraceIngestion on small instances.
EXTENDS OtlpExport, Imports

CONSTANTS s1, s2, header

\* Two traces of an OpenTelemetry export; clients add to both.  One of the same
\* name is in another project.
Told == [project |-> "p", name |-> "otel_a"]
Posted == [project |-> "p", name |-> "otel_d"]
Elsewhere == [project |-> "q", name |-> "otel_d"]
MCTraces == {Told, Posted, Elsewhere}

MCOtelId == [x \in {"a", "b", "c", "d"} |->
                CASE x = "a" -> "otel_a" [] x = "b" -> "otel_b"
                  [] x = "c" -> "otel_c" [] OTHER -> "otel_d"]

Span(trace, name, parent, where, fine, from, to) ==
    [trace |-> trace, id |-> name, parent |-> parent, project |-> where,
     ok |-> fine, start |-> from, end |-> to]

\* A span of each trace, one of which failed on a clock that went back, and a
\* span without id; none of another project.
MCExport ==
    [key |-> "p", now |-> 9,
     spans |-> <<Span("a", "b", "c", NoId, FALSE, 3, 2),
                 Span("d", "c", NoId, "default", TRUE, 2, 4),
                 Span("a", NoId, "b", "q", TRUE, NoTime, 2)>>]

\* The second span of this one is refused.
Foreign ==
    [key |-> "p", now |-> 9,
     spans |-> <<Span("d", "c", NoId, "p", TRUE, 2, 4),
                 Span("d", "b", "c", "q", TRUE, 3, 4)>>]

MCExports == {MCExport, Foreign}

Export == OtlpRequest(MCExport)

Event(name, what, duration, time) ==
    [kind |-> "event", of |-> Told, reached |-> TRUE, id |-> name, type |-> what,
     status |-> "cancelled", ms |-> duration, at |-> time]

\* Its end, with a duration of its own and a clock that is behind.
End == Event("e3", "trace_end", 5, 1)

Post(trace, step, k) ==
    [kind |-> "trace", of |-> trace, reached |-> TRUE, status |-> "ok", ms |-> 4, started |-> 1, ended |-> 2,
     steps |-> <<[id |-> step, status |-> "ok", ms |-> 3]>>, key |-> k]

\* A page that tells the export once more, the other way round, the end, and a
\* trace with a step that is a span as well.
Item(m) == [fields |-> IF m.kind = "event" THEN {"type", "trace_id"} ELSE {"trace_id"},
            body |-> m]
Page == <<Item(Export[2]), Item(Export[1]), Item(End), Item(Post(Told, "otel_b", None))>>

MCStepIds == {"otel_b", "otel_c", "e3", "x"}
MCEventIds == {"otel_b", "otel_c", "e3"}
MCRequests ==
    {Export, OtlpRequest(Foreign), <<Post(Posted, "x", header)>>} \cup Range(ScrapeRequests(Page))
=============================================================================
