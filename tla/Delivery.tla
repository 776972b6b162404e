------------------------------ MODULE Delivery ------------------------------
(***************************************************************************)
(* How clients deliver traces to the service of IngestionService: one      *)
(* HyokaClient (packages/sdk-py/hyoka/sdk.py) with the functions it traces *)
(* and the threads or tasks that flush it; or, with no change to a         *)
(* program, the proxy of ProxyCapture.                                     *)
(***************************************************************************)
EXTENDS Naturals, Sequences, SequencesExt

CONSTANTS Sessions,     \* requests under way at the server
          Traced,       \* traces of functions wrapped by @trace
          Steps,        \* steps that @tool and the like record
          Emitted,      \* events emit_event is called with, of a traced function or none
          Malformed,    \* events among them that the schema rejects
          Flushers,     \* threads and tasks that call flush or aflush
          Calls,        \* calls through the proxy
          MaxFaults,    \* bound on requests that fail and replies that get lost
          None

VARIABLES integration,  \* "sdk" or "proxy": they share nothing but the server
          request,      \* the requests under way, as IngestionService has them
          recorded,     \* the traces and events it has recorded
          spans,        \* trace -> the steps its context has recorded
          phase,        \* trace -> "new", "open" or "ended"
          buffer,       \* client._buffer, by trace: a payload shares its steps
          eventBuffer,  \* client._event_buffer
          flusher,      \* the flushes under way
          call,         \* the calls of the proxy
          faults,
          emitted,      \* history: the events emit_event was called with
          due,          \* history: the steps of a trace when it ended
          exposed,      \* history: what was enqueued while a flush was under way
          early,        \* history: traces of which events were posted before their end
          arrived       \* history: the steps in the first accepted post of a trace

PromisedOf(m) == IF m.kind = "event" THEN {m.of, m} ELSE {m.of}

Service ==
    INSTANCE IngestionService WITH
        Requests <- {}, Promised <- PromisedOf, Mentioned <- PromisedOf

ASSUME DeliveryConstantsOK ==
    /\ Malformed \subseteq Emitted
    /\ \A e \in Emitted : e = [kind |-> "event", of |-> e.of, id |-> e.id]
    /\ MaxFaults \in Nat
    /\ Traced \cap (Calls \cup Emitted) = {}
    /\ None \notin Sessions \cup Seq(Steps \cup {"error"})

server == <<request, recorded, arrived>>
program == <<spans, phase, due>>
buffers == <<buffer, eventBuffer, emitted, exposed, early>>
sdk == <<program, buffers, flusher>>
vars == <<integration, server, sdk, call, faults>>

Proxy == INSTANCE ProxyCapture

NoRequest == [pc |-> "idle", on |-> None]

Init ==
    /\ integration \in {"sdk", "proxy"}
    /\ Service!ServiceInit
    /\ Proxy!CallsInit
    /\ spans = [t \in Traced |-> <<>>]
    /\ phase = [t \in Traced |-> "new"]
    /\ buffer = <<>> /\ eventBuffer = <<>>
    /\ flusher = [f \in Flushers |-> NoRequest]
    /\ faults = 0
    /\ due = [t \in Traced |-> {}]
    /\ emitted = {} /\ exposed = {} /\ early = {}
    /\ arrived = [t \in Traced |-> None]

-----------------------------------------------------------------------------
(* The server.                                                             *)

Succeed(s) ==
    /\ Service!Succeed(s)
    /\ arrived' = [t \in Traced |->
           LET posts == {m \in ToSet(request[s].batch) : m.kind = "trace" /\ m.of = t}
           IN  IF t \notin recorded /\ posts # {}
               THEN (CHOOSE m \in posts : TRUE).steps ELSE arrived[t]]
    /\ UNCHANGED <<sdk, call, integration, faults>>

Fail(s) ==
    /\ Service!Fail(s)
    /\ faults < MaxFaults
    /\ faults' = faults + 1
    /\ UNCHANGED <<arrived, sdk, call, integration>>

\* The reply to a request nobody waits for.
Drop(s) ==
    /\ Service!Release(s)
    /\ \A f \in Flushers : flusher[f].on # s
    /\ \A c \in Calls : call[c].on # s
    /\ UNCHANGED <<arrived, sdk, call, integration, faults>>

-----------------------------------------------------------------------------
(* The traced program.                                                     *)

Flushing == \E f \in Flushers : flusher[f].pc # "idle"

StartTrace(t) ==
    /\ phase[t] = "new"
    /\ phase' = [phase EXCEPT ![t] = "open"]
    /\ UNCHANGED <<server, spans, due, buffers, flusher, faults>>

\* _append_step: whoever has the context appends to the list of the trace, a
\* task that outlives the traced function too.
RecordStep(t, x) ==
    /\ phase[t] # "new"
    /\ x \notin ToSet(spans[t])
    /\ spans' = [spans EXCEPT ![t] = Append(@, x)]
    /\ UNCHANGED <<server, phase, due, buffers, flusher, faults>>

\* enqueue_trace and enqueue_event append to a buffer that a flush may clear.
Exposed(item) == IF Flushing THEN exposed \cup {item} ELSE exposed

\* The end of _run_trace_sync and _run_trace_async; an exception is a step.
EndTrace(t, raised) ==
    LET steps == IF raised THEN Append(spans[t], "error") ELSE spans[t] IN
    /\ phase[t] = "open"
    /\ phase' = [phase EXCEPT ![t] = "ended"]
    /\ spans' = [spans EXCEPT ![t] = steps]
    /\ due' = [due EXCEPT ![t] = ToSet(steps)]
    /\ buffer' = Append(buffer, t)
    /\ exposed' = Exposed(t)
    /\ UNCHANGED <<server, eventBuffer, emitted, early, flusher, faults>>

\* An event in the context of a trace carries its id.
EmitEvent(e) ==
    /\ e.of \in Traced => phase[e.of] # "new"
    /\ e \notin emitted
    /\ emitted' = emitted \cup {e}
    /\ eventBuffer' = Append(eventBuffer, e)
    /\ exposed' = Exposed(e)
    /\ UNCHANGED <<server, program, buffer, early, flusher, faults>>

-----------------------------------------------------------------------------
(* flush and aflush.                                                       *)

\* The body is encoded when it is sent: steps of a trace in the buffer count,
\* though they came after its end.
Payloads ==
    [i \in DOMAIN buffer |->
        [kind |-> "trace", of |-> buffer[i], steps |-> spans[buffer[i]]]]

Acceptable == ToSet(eventBuffer) \cap Malformed = {}

PostTraces(f, s) ==
    /\ buffer # <<>>
    /\ Service!Accept(s, Payloads)
    /\ flusher' = [flusher EXCEPT ![f] = [pc |-> "traces", on |-> s]]
    /\ UNCHANGED early

EarlyIn(events) ==
    {t \in Traced : phase[t] = "open" /\ \E e \in ToSet(events) : e.of = t}

\* A body the schema rejects is an error at once.
PostEvents(f, s) ==
    /\ eventBuffer # <<>> /\ Acceptable
    /\ request' = [request EXCEPT ![s] = [pc |-> "busy", batch |-> eventBuffer]]
    /\ flusher' = [flusher EXCEPT ![f] = [pc |-> "events", on |-> s]]
    /\ early' = early \cup EarlyIn(eventBuffer)
    /\ UNCHANGED recorded

\* A wrong version of StartFlush: the events are posted first.
StartWithEvents(f, s) ==
    /\ flusher[f].pc = "idle" /\ request[s].pc = "idle"
    /\ PostEvents(f, s) \/ (eventBuffer = <<>> /\ PostTraces(f, s))
    /\ UNCHANGED <<arrived, program, buffer, eventBuffer, emitted, exposed, faults>>

\* A wrong version of StartFlush: one bad event holds up the traces as well.
StartIfAcceptable(f, s) ==
    /\ flusher[f].pc = "idle" /\ request[s].pc = "idle" /\ Acceptable
    /\ PostTraces(f, s) \/ (buffer = <<>> /\ PostEvents(f, s))
    /\ UNCHANGED <<arrived, program, buffer, eventBuffer, emitted, exposed, faults>>

StartFlush(f, s) ==
    /\ flusher[f].pc = "idle" /\ request[s].pc = "idle"
    /\ PostTraces(f, s) \/ (buffer = <<>> /\ PostEvents(f, s))
    /\ UNCHANGED <<arrived, program, buffer, eventBuffer, emitted, exposed, faults>>

Accepted(f) == flusher[f].on # None /\ request[flusher[f].on].pc = "ok"

\* The post of the traces was accepted: the events there are by then follow.
ContinueFlush(f) ==
    /\ flusher[f].pc = "traces" /\ Accepted(f)
    /\ PostEvents(f, flusher[f].on)
    /\ UNCHANGED <<arrived, program, buffer, eventBuffer, emitted, exposed, faults>>

\* A wrong version of EndFlush: no events are sent with traces.
EndAnyFlush(f) ==
    /\ Accepted(f)
    /\ buffer' = <<>> /\ eventBuffer' = <<>>
    /\ flusher' = [flusher EXCEPT ![f] = NoRequest]
    /\ Service!Release(flusher[f].on)
    /\ UNCHANGED <<arrived, program, emitted, exposed, early, faults>>

\* Everything was accepted: the buffers are cleared as they are by then.
EndFlush(f) ==
    /\ Accepted(f)
    /\ flusher[f].pc = "events" \/ eventBuffer = <<>>
    /\ buffer' = <<>> /\ eventBuffer' = <<>>
    /\ flusher' = [flusher EXCEPT ![f] = NoRequest]
    /\ Service!Release(flusher[f].on)
    /\ UNCHANGED <<arrived, program, emitted, exposed, early, faults>>

Refused(f) ==
    /\ flusher[f].on # None
    /\ \/ request[flusher[f].on].pc = "failed"
       \/ flusher[f].pc = "traces" /\ Accepted(f) /\ ~Acceptable

\* A wrong version of FailFlush: what was accepted is removed, with the rest.
FailAndClear(f) ==
    /\ Refused(f)
    /\ buffer' = <<>> /\ eventBuffer' = <<>>
    /\ flusher' = [flusher EXCEPT ![f] = NoRequest]
    /\ Service!Release(flusher[f].on)
    /\ UNCHANGED <<arrived, program, emitted, exposed, early, faults>>

\* A post was refused: flush raises and leaves the buffers alone.
FailFlush(f) ==
    /\ Refused(f)
    /\ flusher' = [flusher EXCEPT ![f] = NoRequest]
    /\ Service!Release(flusher[f].on)
    /\ UNCHANGED <<arrived, program, buffers, faults>>

\* The client's timeout, or a lost connection; the server goes on.
LoseReply(f) ==
    /\ flusher[f].pc # "idle"
    /\ faults < MaxFaults
    /\ faults' = faults + 1
    /\ flusher' = [flusher EXCEPT ![f] = NoRequest]
    /\ UNCHANGED <<server, program, buffers>>

FlushStep(f) ==
    \/ \E s \in Sessions : StartFlush(f, s)
    \/ ContinueFlush(f) \/ EndFlush(f) \/ FailFlush(f)

-----------------------------------------------------------------------------

SdkStep ==
    \/ \E t \in Traced : \/ StartTrace(t)
                         \/ \E x \in Steps : RecordStep(t, x)
                         \/ \E raised \in BOOLEAN : EndTrace(t, raised)
    \/ \E e \in Emitted : EmitEvent(e)
    \/ \E f \in Flushers : FlushStep(f) \/ LoseReply(f)

UseSdk(step) == integration = "sdk" /\ step /\ UNCHANGED <<call, integration>>

UseProxy(step) == integration = "proxy" /\ step /\ UNCHANGED <<arrived, sdk, integration>>

Next ==
    \/ \E s \in Sessions : Succeed(s) \/ Fail(s) \/ Drop(s)
    \/ UseSdk(SdkStep)
    \/ UseProxy(\E c \in Calls : Proxy!CallStep(c))

Spec == Init /\ [][Next]_vars

\* The server answers, the program keeps flushing, and the proxy does its work.
FairSpec ==
    /\ Spec
    /\ \A s \in Sessions : WF_vars(Succeed(s)) /\ WF_vars(Drop(s))
    /\ \A f \in Flushers : WF_vars(UseSdk(FlushStep(f)))
    /\ \A c \in Calls : WF_vars(UseProxy(Proxy!CallReply(c)))

-----------------------------------------------------------------------------
(* What is promised of delivery.                                           *)

\* No finished trace and no emitted event gets lost on the way: unless it was
\* enqueued while a flush was under way, it is in its buffer or recorded,
\* whichever of the posts fail, get lost or run twice (flush, aflush).
NothingElseLost ==
    /\ \A t \in Traced \ exposed : phase[t] = "ended" =>
           t \in ToSet(buffer) \cup recorded
    /\ emitted \ exposed \subseteq ToSet(eventBuffer) \cup recorded

\* A trace arrives with every step it had when it ended, the exception that
\* ended it included.  Excepted is a trace of which an event was posted before
\* its end, which the server then knows by that event alone, and one enqueued
\* during a flush (order of the posts in flush; _run_trace_sync).
TraceWhole ==
    \A t \in (Traced \cap recorded) \ (early \cup exposed) :
        arrived[t] # None /\ due[t] \subseteq ToSet(arrived[t])

\* A client that keeps flushing gets its traces through, also past events that
\* the server rejects: the traces are posted first.
TraceArrives ==
    \A t \in Traced : t \in ToSet(buffer) ~> t \in recorded \cup exposed

\* So it does its events, unless one of them is malformed: that one stays in
\* the buffer and every later flush fails on it.
EventArrives ==
    \A e \in Emitted : e \in ToSet(eventBuffer) ~>
        e \in recorded \cup exposed \/ ~Acceptable

\* The promise of the proxy, as ProxyCapture states it.
CallAnswered == Proxy!CallAnswered

=============================================================================
