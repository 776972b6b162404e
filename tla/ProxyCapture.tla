---------------------------- MODULE ProxyCapture ----------------------------
(***************************************************************************)
(* Calls through the proxy (apps/proxy/hyoka_proxy/main.py): it forwards a *)
(* call to the provider, posts what it saw as a trace to the service of    *)
(* IngestionService, and only then answers its caller.  Delivery composes  *)
(* it with the server.                                                     *)
(***************************************************************************)
EXTENDS Naturals, SequencesExt

CONSTANTS Calls,
          Sessions,    \* requests under way at the server
          MaxFaults,   \* bound on posts that fail and replies that come too late
          None

VARIABLES request, recorded,   \* as IngestionService has them
          call,                \* the calls, with what the provider has answered
          faults

PromisedOf(m) == {m.of}
Service ==
    INSTANCE IngestionService WITH
        Requests <- {}, Promised <- PromisedOf, Mentioned <- PromisedOf

server == <<request, recorded>>

CallsInit == call = [c \in Calls |-> [pc |-> "new", reply |-> "none", on |-> None]]

\* The provider answers, as a stream, whole in the usual shape, or whole in a
\* shape the extraction of the captured figures does not expect (as with a
\* "usage" of null); or the request to it raises.
CallProvider(c, reply) ==
    /\ call[c].pc = "new"
    /\ call' = [call EXCEPT ![c] =
           [pc |-> IF reply = "none" THEN "raised" ELSE "answered",
            reply |-> reply, on |-> None]]
    /\ UNCHANGED <<server, faults>>

\* Other paths and bodies are not captured, and a server that cannot be
\* reached captures nothing.
SkipCapture(c) ==
    /\ call[c].pc = "answered"
    /\ call' = [call EXCEPT ![c].pc = "done"]
    /\ UNCHANGED <<server, faults>>

\* _emit_trace; of a stream it reads no figures.
Capture(c, s) ==
    /\ call[c].pc = "answered" /\ call[c].reply \in {"stream", "usual"}
    /\ Service!Accept(s, <<[kind |-> "trace", of |-> c, steps |-> <<>>]>>)
    /\ call' = [call EXCEPT ![c].pc = "capturing", ![c].on = s]
    /\ UNCHANGED faults

\* The trace is put together before the try.
CaptureRaises(c) ==
    /\ call[c].pc = "answered" /\ call[c].reply = "odd"
    /\ call' = [call EXCEPT ![c].pc = "failed"]
    /\ UNCHANGED <<server, faults>>

\* A wrong version of AnswerCaller: what goes wrong with the post is raised.
AnswerIfStored(c) ==
    /\ call[c].pc = "capturing"
    /\ Service!Release(call[c].on)
    /\ call' = [call EXCEPT ![c].on = None,
                   ![c].pc = IF request[call[c].on].pc = "ok" THEN "done" ELSE "failed"]
    /\ UNCHANGED faults

\* The post was answered or refused: the caller gets the provider's answer.
AnswerCaller(c) ==
    /\ call[c].pc = "capturing"
    /\ Service!Release(call[c].on)
    /\ call' = [call EXCEPT ![c].pc = "done", ![c].on = None]
    /\ UNCHANGED faults

\* The ten seconds of the post are over; the server goes on.
StopWaiting(c) ==
    /\ call[c].pc = "capturing"
    /\ faults < MaxFaults
    /\ faults' = faults + 1
    /\ call' = [call EXCEPT ![c].pc = "done", ![c].on = None]
    /\ UNCHANGED server

CallReply(c) ==
    \/ SkipCapture(c) \/ CaptureRaises(c) \/ AnswerCaller(c)
    \/ \E s \in Sessions : Capture(c, s)

CallStep(c) ==
    \/ \E reply \in {"none", "stream", "usual", "odd"} : CallProvider(c, reply)
    \/ CallReply(c) \/ StopWaiting(c)

\* "Proxy capture should not fail the caller's provider response": whatever
\* becomes of the post, be it refused, lost or too late, the response reaches
\* the caller, and soon.  It does not if the response has a shape that the
\* reading of its figures, outside the try, does not expect.
CallAnswered ==
    \A c \in Calls : call[c].pc = "answered" /\ call[c].reply # "odd" ~> call[c].pc = "done"

=============================================================================
