--------------------------- MODULE DeliveryProofs ---------------------------
(***************************************************************************)
(* Theorems about Delivery for any number of traced functions, steps,      *)
(* events, threads that flush, calls and faults.                           *)
(***************************************************************************)
EXTENDS Delivery, TLAPS

-----------------------------------------------------------------------------
(* What is sent and what is kept.                                          *)

LEMMA AppendedSet ==
    ASSUME NEW S, NEW q \in Seq(S), NEW x \in S
    PROVE  Append(q, x) \in Seq(S) /\ ToSet(Append(q, x)) = ToSet(q) \cup {x}
<1>1. /\ Append(q, x) \in Seq(S)
      /\ DOMAIN Append(q, x) = DOMAIN q \cup {Len(q) + 1}
      /\ \A i \in DOMAIN q : Append(q, x)[i] = q[i]
      /\ Append(q, x)[Len(q) + 1] = x
  OBVIOUS
<1>. QED
  BY <1>1 DEF ToSet

LEMMA EmptySet == ToSet(<<>>) = {}
  BY DEF ToSet

RequestPcs == {"idle", "busy", "ok", "failed"}

RequestsOK ==
    /\ DOMAIN request = Sessions
    /\ request = [s \in Sessions |-> request[s]]
    /\ \A s \in Sessions : /\ request[s] = [pc |-> request[s].pc, batch |-> request[s].batch]
                           /\ request[s].pc \in RequestPcs

SdkOK ==
    /\ integration \in {"sdk", "proxy"}
    /\ buffer \in Seq(Traced) /\ eventBuffer \in Seq(Emitted)
    /\ spans \in [Traced -> Seq(Steps \cup {"error"})]
    /\ phase \in [Traced -> {"new", "open", "ended"}]
    /\ due \in [Traced -> SUBSET (Steps \cup {"error"})]
    /\ flusher \in [Flushers -> [pc : {"idle", "traces", "events"}, on : Sessions \cup {None}]]
    /\ emitted \subseteq Emitted
    /\ DOMAIN arrived = Traced

\* A request of the service moves on, the others stay.
Moves(s, p, b) ==
    /\ request' = [request EXCEPT ![s] = [pc |-> p, batch |-> b]]

LEMMA RequestMoves ==
    ASSUME RequestsOK, NEW s \in Sessions, NEW p \in RequestPcs, NEW b, Moves(s, p, b)
    PROVE  /\ RequestsOK'
           /\ request'[s].pc = p /\ request'[s].batch = b
           /\ \A r \in Sessions : r # s => request'[r] = request[r]
<1>. DEFINE x == [pc |-> p, batch |-> b]
<1>1. DOMAIN request' = Sessions /\ request'[s] = x
  BY DEF Moves, RequestsOK
<1>2. \A r \in Sessions : r # s => request'[r] = request[r]
  BY DEF Moves, RequestsOK
<1>3. x.pc = p /\ x.batch = b /\ x = [pc |-> x.pc, batch |-> x.batch]
  OBVIOUS
<1>. HIDE DEF x
<1>4. request' = [r \in Sessions |-> request'[r]]
  <2>1. request' = [r \in Sessions |-> IF r = s THEN x ELSE request[r]]
    BY DEF Moves, RequestsOK, x
  <2>. QED
    BY <2>1
<1>5. ASSUME NEW r \in Sessions
      PROVE  /\ request'[r] = [pc |-> request'[r].pc, batch |-> request'[r].batch]
             /\ request'[r].pc \in RequestPcs
  BY <1>1, <1>2, <1>3 DEF RequestsOK
<1>. QED
  BY <1>1, <1>2, <1>3, <1>4, <1>5 DEF RequestsOK

Promises(messages) == UNION {PromisedOf(m) : m \in messages}

LEMMA ServiceMoves ==
    ASSUME RequestsOK, NEW s \in Sessions
    PROVE  /\ Service!Succeed(s) =>
                  /\ request[s].pc = "busy" /\ Moves(s, "ok", request[s].batch)
                  /\ recorded' = recorded \cup Promises(ToSet(request[s].batch))
           /\ Service!Fail(s) =>
                  request[s].pc = "busy" /\ Moves(s, "failed", <<>>) /\ UNCHANGED recorded
           /\ Service!Release(s) =>
                  /\ request[s].pc \in {"ok", "failed"}
                  /\ Moves(s, "idle", <<>>) /\ UNCHANGED recorded
           /\ \A b : Service!Accept(s, b) =>
                  request[s].pc = "idle" /\ Moves(s, "busy", b) /\ UNCHANGED recorded
<1>1. request[s] = [pc |-> request[s].pc, batch |-> request[s].batch] /\ DOMAIN request = Sessions
  BY DEF RequestsOK
<1>2. ASSUME Service!Succeed(s)
      PROVE  /\ request[s].pc = "busy" /\ Moves(s, "ok", request[s].batch)
             /\ recorded' = recorded \cup Promises(ToSet(request[s].batch))
  <2>1. Service!ToSet(request[s].batch) = ToSet(request[s].batch)
    BY DEF Service!ToSet, ToSet
  <2>2. PICK more \in SUBSET Promises(ToSet(request[s].batch)) :
            recorded' = recorded \cup more \cup Promises(ToSet(request[s].batch))
    BY <1>2, <2>1, Zenon DEF Service!Succeed, Promises
  <2>3. recorded' = recorded \cup Promises(ToSet(request[s].batch))
    BY <2>2
  <2>4. request[s].pc = "busy" /\ request' = [request EXCEPT ![s].pc = "ok"]
    BY <1>2, Zenon DEF Service!Succeed
  <2>5. [request[s] EXCEPT !.pc = "ok"] = [pc |-> "ok", batch |-> request[s].batch]
    BY <1>1
  <2>. QED
    BY <2>3, <2>4, <2>5 DEF Moves
<1>3. Service!Fail(s) =>
          request[s].pc = "busy" /\ Moves(s, "failed", <<>>) /\ UNCHANGED recorded
  BY DEF Service!Fail, Service!Idle, Moves
<1>4. Service!Release(s) =>
          /\ request[s].pc \in {"ok", "failed"}
          /\ Moves(s, "idle", <<>>) /\ UNCHANGED recorded
  BY DEF Service!Release, Service!Answered, Service!Idle, Moves
<1>5. \A b : Service!Accept(s, b) =>
          request[s].pc = "idle" /\ Moves(s, "busy", b) /\ UNCHANGED recorded
  BY DEF Service!Accept, Moves
<1>. QED
  BY <1>2, <1>3, <1>4, <1>5

\* The calls of the proxy.
CallsOK ==
    /\ call \in [Calls -> [pc : {"new", "raised", "answered", "capturing", "done", "failed"},
                           reply : {"none", "stream", "usual", "odd"},
                           on : Sessions \cup {None}]]
    /\ \A c \in Calls : call[c].pc = "capturing" => call[c].on \in Sessions

\* A request with nothing about the traces of the program.
Foreign(b) == \A m \in ToSet(b) : m.kind = "trace" /\ m.of \in Calls

LEMMA ProxyMoves ==
    ASSUME RequestsOK, CallsOK, NEW c \in Calls, Proxy!CallStep(c)
    PROVE  /\ CallsOK' /\ UNCHANGED recorded
           /\ \/ UNCHANGED request
              \/ \E s \in Sessions : Moves(s, "idle", <<>>)
              \/ \E s \in Sessions : \E b :
                     request[s].pc = "idle" /\ Moves(s, "busy", b) /\ Foreign(b)
<1>5. ASSUME NEW reply \in {"none", "stream", "usual", "odd"}, Proxy!CallProvider(c, reply)
      PROVE  CallsOK' /\ UNCHANGED <<request, recorded>>
  BY <1>5 DEF Proxy!CallProvider, Proxy!server, CallsOK
<1>6. ASSUME Proxy!SkipCapture(c) \/ Proxy!CaptureRaises(c)
      PROVE  CallsOK' /\ UNCHANGED <<request, recorded>>
  BY <1>6 DEF Proxy!SkipCapture, Proxy!CaptureRaises, Proxy!server, CallsOK
<1>7. ASSUME Proxy!StopWaiting(c)
      PROVE  CallsOK' /\ UNCHANGED <<request, recorded>>
  BY <1>7 DEF Proxy!StopWaiting, Proxy!server, CallsOK
<1>8. ASSUME NEW s \in Sessions, Proxy!Capture(c, s)
      PROVE  /\ CallsOK' /\ UNCHANGED recorded /\ request[s].pc = "idle"
             /\ \E b : Moves(s, "busy", b) /\ Foreign(b)
  <2>. DEFINE m == [kind |-> "trace", of |-> c, steps |-> <<>>]
  <2>1. /\ request[s].pc = "idle" /\ UNCHANGED recorded
        /\ Moves(s, "busy", <<m>>)
    BY <1>8 DEF Proxy!Capture, Proxy!Service!Accept, Moves
  <2>2. call' = [call EXCEPT ![c].pc = "capturing", ![c].on = s]
    BY <1>8 DEF Proxy!Capture
  <2>3. ToSet(<<m>>) = {m} /\ m.kind = "trace" /\ m.of = c
    <3>1. m.kind = "trace" /\ m.of = c
      OBVIOUS
    <3>. HIDE DEF m
    <3>2. DOMAIN <<m>> = {1} /\ <<m>>[1] = m
      OBVIOUS
    <3>. QED
      BY <3>1, <3>2 DEF ToSet
  <2>. HIDE DEF m
  <2>4. Foreign(<<m>>)
    BY <2>3 DEF Foreign
  <2>5. CallsOK'
    BY ZenonT(40), <2>2 DEF CallsOK
  <2>. QED
    BY <2>1, <2>4, <2>5
<1>9. ASSUME Proxy!AnswerCaller(c)
      PROVE  CallsOK' /\ UNCHANGED recorded /\ Moves(call[c].on, "idle", <<>>)
             /\ call[c].on \in Sessions
  <2>1. UNCHANGED recorded /\ Moves(call[c].on, "idle", <<>>)
    BY <1>9 DEF Proxy!AnswerCaller, Proxy!Service!Release, Proxy!Service!Idle, Moves
  <2>2. /\ call[c].pc = "capturing"
        /\ call' = [call EXCEPT ![c].pc = "done", ![c].on = None]
    BY <1>9 DEF Proxy!AnswerCaller
  <2>3. CallsOK' /\ call[c].on \in Sessions
    BY <2>2 DEF CallsOK
  <2>. QED
    BY <2>1, <2>3
<1>. QED
  BY <1>5, <1>6, <1>7, <1>8, <1>9 DEF Proxy!CallStep, Proxy!CallReply

-----------------------------------------------------------------------------
(* What a flush under way has in hand.                                     *)

Waiting == ToSet(buffer) \ exposed
WaitingEvents == ToSet(eventBuffer) \ exposed

CarriedBy(x, r, traces, events, rec) ==
    /\ x.pc = "traces" =>
           /\ r.pc = "busy" =>
                  \A t \in traces : \E m \in ToSet(r.batch) : m.kind = "trace" /\ m.of = t
           /\ r.pc = "ok" => traces \subseteq rec
    /\ x.pc = "events" =>
           /\ traces \subseteq rec
           /\ r.pc = "busy" => events \subseteq ToSet(r.batch)
           /\ r.pc = "ok" => events \subseteq rec

FlushersApart ==
    \A f \in Flushers :
        /\ flusher[f].pc = "idle" <=> flusher[f].on = None
        /\ flusher[f].on # None => request[flusher[f].on].pc # "idle"
        /\ \A g \in Flushers : g # f /\ flusher[f].on # None => flusher[g].on # flusher[f].on

\* With the proxy no function is traced.
Quiet ==
    integration = "proxy" =>
        /\ \A f \in Flushers : flusher[f] = NoRequest
        /\ \A t \in Traced : phase[t] = "new"
        /\ emitted = {}

Carried ==
    \A f \in Flushers :
        CarriedBy(flusher[f], request[flusher[f].on], Waiting, WaitingEvents, recorded)

TypeInv == RequestsOK /\ SdkOK /\ CallsOK
LostInv == FlushersApart /\ Quiet /\ Carried /\ NothingElseLost

LEMMA CarriedLess ==
    ASSUME NEW x, NEW r, NEW traces1, NEW events1, NEW rec1, NEW traces2, NEW events2, NEW rec2,
           traces2 \subseteq traces1, events2 \subseteq events1, rec1 \subseteq rec2,
           CarriedBy(x, r, traces1, events1, rec1)
    PROVE  CarriedBy(x, r, traces2, events2, rec2)
  BY DEF CarriedBy

\* The program and its clients see nothing of it.
ServerOnly == UNCHANGED <<spans, phase, due, buffer, eventBuffer, emitted, exposed, early,
                          flusher, integration>>

LEMMA ServerKeeps ==
    ASSUME TypeInv, LostInv, NEW s \in Sessions, Succeed(s) \/ Fail(s) \/ Drop(s)
    PROVE  TypeInv' /\ LostInv'
<1>0. ServerOnly /\ UNCHANGED call
  BY DEF Succeed, Fail, Drop, ServerOnly, sdk, program, buffers
<1>1. /\ Succeed(s) => Service!Succeed(s)
      /\ Fail(s) => Service!Fail(s)
      /\ Drop(s) => /\ Service!Release(s)
                    /\ \A f \in Flushers : flusher[f].on # s
      /\ DOMAIN arrived' = Traced
  BY DEF Succeed, Fail, Drop, TypeInv, SdkOK
<1>2. TypeInv' /\ recorded \subseteq recorded'
      /\ \A r \in Sessions : r # s => request'[r] = request[r]
  <2>1. RequestsOK' /\ recorded \subseteq recorded'
        /\ \A r \in Sessions : r # s => request'[r] = request[r]
    BY <1>1, ServiceMoves, RequestMoves DEF TypeInv, RequestPcs
  <2>2. SdkOK'
    BY <1>0, <1>1 DEF TypeInv, SdkOK, ServerOnly
  <2>3. CallsOK'
    BY <1>0 DEF TypeInv, CallsOK
  <2>. QED
    BY <2>1, <2>2, <2>3 DEF TypeInv
<1>3. Waiting' = Waiting /\ WaitingEvents' = WaitingEvents /\ flusher' = flusher
  BY <1>0 DEF ServerOnly, Waiting, WaitingEvents
<1>4. ASSUME NEW f \in Flushers
      PROVE  /\ CarriedBy(flusher[f], request'[flusher[f].on], Waiting, WaitingEvents, recorded')
             /\ flusher[f].on # None => request'[flusher[f].on].pc # "idle"
  <2>0. flusher[f] \in [pc : {"idle", "traces", "events"}, on : Sessions \cup {None}]
    BY DEF TypeInv, SdkOK
  <2>1. /\ CarriedBy(flusher[f], request[flusher[f].on], Waiting, WaitingEvents, recorded)
        /\ flusher[f].on # None => request[flusher[f].on].pc # "idle"
        /\ flusher[f].pc = "idle" <=> flusher[f].on = None
    BY DEF LostInv, Carried, FlushersApart
  <2>2. CASE flusher[f].on = None
    BY <2>1, <2>2 DEF CarriedBy
  <2>3. CASE flusher[f].on # s /\ flusher[f].on # None
    <3>1. request'[flusher[f].on] = request[flusher[f].on]
      BY <1>2, <2>0, <2>3
    <3>. QED
      BY <1>2, <2>1, <3>1, CarriedLess
  <2>4. CASE flusher[f].on = s /\ Succeed(s)
    <3>1. /\ request[s].pc = "busy" /\ request'[s].pc = "ok"
          /\ request'[s].batch = request[s].batch
          /\ recorded' = recorded \cup Promises(ToSet(request[s].batch))
      BY <1>1, <2>4, ServiceMoves, RequestMoves DEF TypeInv, RequestPcs
    <3>2. \A m \in ToSet(request[s].batch) : PromisedOf(m) \subseteq recorded'
      BY <3>1 DEF Promises
    <3>3. \A m : m.of \in PromisedOf(m) /\ (m.kind = "event" => m \in PromisedOf(m))
      BY DEF PromisedOf
    <3>4. \A e \in WaitingEvents : e.kind = "event"
      <4>1. ToSet(eventBuffer) \subseteq Emitted
        BY DEF TypeInv, SdkOK, ToSet
      <4>2. \A e \in Emitted : e = [kind |-> "event", of |-> e.of, id |-> e.id]
        BY DeliveryConstantsOK
      <4>. QED
        BY <4>1, <4>2 DEF WaitingEvents
    <3>5. flusher[f].pc = "traces" => Waiting \subseteq recorded'
      <4>1. ASSUME flusher[f].pc = "traces", NEW t \in Waiting
            PROVE  t \in recorded'
        <5>1. PICK m \in ToSet(request[s].batch) : m.kind = "trace" /\ m.of = t
          BY <2>1, <2>4, <3>1, <4>1 DEF CarriedBy
        <5>. QED
          BY <3>2, <3>3, <5>1
      <4>. QED
        BY <4>1
    <3>6. flusher[f].pc = "events" => Waiting \subseteq recorded' /\ WaitingEvents \subseteq recorded'
      <4>1. ASSUME flusher[f].pc = "events"
            PROVE  Waiting \subseteq recorded /\ WaitingEvents \subseteq ToSet(request[s].batch)
        BY <2>1, <2>4, <3>1, <4>1 DEF CarriedBy
      <4>. QED
        BY <1>2, <3>2, <3>3, <3>4, <4>1
    <3>. QED
      BY <2>4, <3>1, <3>5, <3>6 DEF CarriedBy
  <2>5. CASE flusher[f].on = s /\ Fail(s)
    <3>1. request'[s].pc = "failed" /\ recorded' = recorded
      BY <1>1, <2>5, ServiceMoves, RequestMoves DEF TypeInv, RequestPcs
    <3>. QED
      BY <2>1, <2>5, <3>1 DEF CarriedBy
  <2>. QED
    BY <1>1, <2>2, <2>3, <2>4, <2>5
<1>5. NothingElseLost'
  BY <1>0, <1>2 DEF LostInv, NothingElseLost, ServerOnly
<1>6. Quiet'
  BY <1>0 DEF LostInv, Quiet, ServerOnly
<1>. QED
  BY <1>2, <1>3, <1>4, <1>5, <1>6 DEF LostInv, Carried, FlushersApart

LEMMA ProxyKeeps ==
    ASSUME TypeInv, LostInv, UseProxy(\E c \in Calls : Proxy!CallStep(c))
    PROVE  TypeInv' /\ LostInv'
<1>1. PICK c \in Calls : Proxy!CallStep(c)
  BY DEF UseProxy
<1>2. integration = "proxy" /\ ServerOnly /\ UNCHANGED arrived
  BY DEF UseProxy, ServerOnly, sdk, program, buffers
<1>3. CallsOK' /\ RequestsOK' /\ UNCHANGED recorded
  <2>1. /\ CallsOK' /\ UNCHANGED recorded
        /\ \/ UNCHANGED request
           \/ \E s \in Sessions : Moves(s, "idle", <<>>)
           \/ \E s \in Sessions : \E b : Moves(s, "busy", b)
    BY <1>1, ProxyMoves DEF TypeInv
  <2>2. ASSUME UNCHANGED request
        PROVE  RequestsOK'
    BY <2>2 DEF TypeInv, RequestsOK
  <2>. QED
    BY <2>1, <2>2, RequestMoves DEF TypeInv, RequestPcs
<1>4. SdkOK'
  BY <1>2 DEF TypeInv, SdkOK, ServerOnly
<1>5. \A f \in Flushers : flusher[f] = NoRequest /\ flusher'[f] = NoRequest
  BY <1>2 DEF LostInv, Quiet, ServerOnly
<1>6. \A f \in Flushers : flusher'[f].pc = "idle" /\ flusher'[f].on = None
  BY <1>5 DEF NoRequest
<1>7. FlushersApart'
  BY <1>6 DEF FlushersApart
<1>8. Carried'
  <2>1. ASSUME NEW x, NEW r, NEW traces, NEW events, NEW rec, x.pc = "idle"
        PROVE  CarriedBy(x, r, traces, events, rec)
    BY <2>1 DEF CarriedBy
  <2>. QED
    BY <1>6, <2>1 DEF Carried
<1>9. NothingElseLost'
  <2>1. NothingElseLost /\ ServerOnly /\ UNCHANGED recorded
    BY <1>2, <1>3 DEF LostInv
  <2>. QED
    BY <2>1 DEF NothingElseLost, ServerOnly
<1>10. Quiet'
  <2>1. Quiet /\ ServerOnly
    BY <1>2 DEF LostInv
  <2>. QED
    BY <2>1 DEF Quiet, ServerOnly
<1>. QED
  BY <1>3, <1>4, <1>7, <1>8, <1>9, <1>10 DEF TypeInv, LostInv

\* What the program puts in a buffer while a flush is under way is exposed.
LEMMA ProgramCarries ==
    ASSUME TypeInv, LostInv, UNCHANGED <<request, recorded, flusher>>,
           \/ Waiting' \subseteq Waiting /\ WaitingEvents' \subseteq WaitingEvents
           \/ ~Flushing
    PROVE  RequestsOK' /\ FlushersApart' /\ Carried'
<1>1. RequestsOK' /\ FlushersApart'
  BY DEF TypeInv, RequestsOK, LostInv, FlushersApart
<1>2. ASSUME Waiting' \subseteq Waiting, WaitingEvents' \subseteq WaitingEvents, NEW f \in Flushers
      PROVE  CarriedBy(flusher[f], request[flusher[f].on], Waiting', WaitingEvents', recorded)
  <2>1. CarriedBy(flusher[f], request[flusher[f].on], Waiting, WaitingEvents, recorded)
    BY DEF LostInv, Carried
  <2>. QED
    BY <1>2, <2>1, CarriedLess
<1>3. ASSUME ~Flushing, NEW f \in Flushers
      PROVE  CarriedBy(flusher[f], request[flusher[f].on], Waiting', WaitingEvents', recorded)
  <2>1. flusher[f].pc = "idle"
    BY <1>3 DEF Flushing
  <2>. QED
    BY <2>1 DEF CarriedBy
<1>. QED
  BY <1>1, <1>2, <1>3 DEF Carried

LEMMA ProgramKeeps ==
    ASSUME TypeInv, LostInv, integration = "sdk", UNCHANGED <<call, integration>>,
           \/ \E t \in Traced : \/ StartTrace(t)
                                \/ \E x \in Steps : RecordStep(t, x)
                                \/ \E raised \in BOOLEAN : EndTrace(t, raised)
           \/ \E e \in Emitted : EmitEvent(e)
    PROVE  TypeInv' /\ LostInv'
<1>0. CallsOK' /\ Quiet'
  BY DEF TypeInv, CallsOK, Quiet
<1>1. ASSUME NEW t \in Traced, StartTrace(t) \/ \E x \in Steps : RecordStep(t, x)
      PROVE  TypeInv' /\ LostInv'
  <2>1. UNCHANGED <<request, recorded, arrived, flusher, buffer, eventBuffer, emitted, exposed, due>>
    BY <1>1 DEF StartTrace, RecordStep, server, buffers
  <2>2. Waiting' = Waiting /\ WaitingEvents' = WaitingEvents
    BY <2>1 DEF Waiting, WaitingEvents
  <2>3. /\ phase' \in [Traced -> {"new", "open", "ended"}]
        /\ spans' \in [Traced -> Seq(Steps \cup {"error"})]
        /\ \A u \in Traced : phase'[u] = "ended" => phase[u] = "ended"
    <3>1. CASE StartTrace(t)
      BY <3>1 DEF StartTrace, TypeInv, SdkOK
    <3>2. ASSUME NEW x \in Steps, RecordStep(t, x)
          PROVE  UNCHANGED phase /\ spans' \in [Traced -> Seq(Steps \cup {"error"})]
      <4>1. /\ UNCHANGED phase /\ spans' = [spans EXCEPT ![t] = Append(spans[t], x)]
            /\ spans \in [Traced -> Seq(Steps \cup {"error"})]
        BY <3>2 DEF RecordStep, TypeInv, SdkOK
      <4>2. Append(spans[t], x) \in Seq(Steps \cup {"error"})
        BY <4>1, AppendedSet
      <4>. QED
        BY <4>1, <4>2
    <3>. QED
      BY <1>1, <3>1, <3>2 DEF TypeInv, SdkOK
  <2>4. SdkOK'
    BY <2>1, <2>3 DEF TypeInv, SdkOK
  <2>5. NothingElseLost'
    BY <2>1, <2>3 DEF LostInv, NothingElseLost
  <2>. QED
    BY <1>0, <2>1, <2>2, <2>4, <2>5, ProgramCarries DEF TypeInv, LostInv
<1>2. ASSUME NEW t \in Traced, NEW raised \in BOOLEAN, EndTrace(t, raised)
      PROVE  TypeInv' /\ LostInv'
  <2>. DEFINE steps == IF raised THEN Append(spans[t], "error") ELSE spans[t]
  <2>1. /\ UNCHANGED <<request, recorded, arrived, flusher, eventBuffer, emitted>>
        /\ phase[t] = "open" /\ phase' = [phase EXCEPT ![t] = "ended"]
        /\ spans' = [spans EXCEPT ![t] = steps]
        /\ due' = [due EXCEPT ![t] = ToSet(steps)]
        /\ buffer' = Append(buffer, t) /\ exposed' = Exposed(t)
    BY <1>2 DEF EndTrace, server
  <2>2. steps \in Seq(Steps \cup {"error"}) /\ ToSet(steps) \subseteq Steps \cup {"error"}
    <3>1. spans[t] \in Seq(Steps \cup {"error"})
      BY DEF TypeInv, SdkOK
    <3>2. steps \in Seq(Steps \cup {"error"})
      BY <3>1, AppendedSet
    <3>. HIDE DEF steps
    <3>. QED
      BY <3>2 DEF ToSet
  <2>. HIDE DEF steps
  <2>3. buffer' \in Seq(Traced) /\ ToSet(buffer') = ToSet(buffer) \cup {t}
    BY <2>1, AppendedSet DEF TypeInv, SdkOK
  <2>4. SdkOK'
    BY <2>1, <2>2, <2>3 DEF TypeInv, SdkOK
  <2>5. exposed \subseteq exposed' /\ (Flushing => t \in exposed')
    BY <2>1 DEF Exposed
  <2>6. (Waiting' \subseteq Waiting /\ WaitingEvents' \subseteq WaitingEvents) \/ ~Flushing
    BY <2>1, <2>3, <2>5 DEF Waiting, WaitingEvents
  <2>7. \A u \in Traced : phase'[u] = "ended" => u = t \/ phase[u] = "ended"
    BY <2>1 DEF TypeInv, SdkOK
  <2>8. NothingElseLost'
    BY <2>1, <2>3, <2>5, <2>7 DEF LostInv, NothingElseLost
  <2>. QED
    BY <1>0, <2>1, <2>4, <2>6, <2>8, ProgramCarries DEF TypeInv, LostInv
<1>3. ASSUME NEW e \in Emitted, EmitEvent(e)
      PROVE  TypeInv' /\ LostInv'
  <2>1. /\ UNCHANGED <<request, recorded, arrived, flusher, buffer, spans, phase, due>>
        /\ emitted' = emitted \cup {e} /\ eventBuffer' = Append(eventBuffer, e)
        /\ exposed' = Exposed(e)
    BY <1>3 DEF EmitEvent, server, program
  <2>2. eventBuffer' \in Seq(Emitted) /\ ToSet(eventBuffer') = ToSet(eventBuffer) \cup {e}
    BY <2>1, AppendedSet DEF TypeInv, SdkOK
  <2>3. SdkOK'
    BY <2>1, <2>2 DEF TypeInv, SdkOK
  <2>4. exposed \subseteq exposed' /\ (Flushing => e \in exposed')
    BY <2>1 DEF Exposed
  <2>5. (Waiting' \subseteq Waiting /\ WaitingEvents' \subseteq WaitingEvents) \/ ~Flushing
    BY <2>1, <2>2, <2>4 DEF Waiting, WaitingEvents
  <2>6. NothingElseLost'
    BY <2>1, <2>2, <2>4 DEF LostInv, NothingElseLost
  <2>. QED
    BY <1>0, <2>1, <2>3, <2>5, <2>6, ProgramCarries DEF TypeInv, LostInv
<1>. QED
  BY <1>1, <1>2, <1>3

\* A flusher takes a request up, goes on with it or lets go of it.
LEMMA HandOver ==
    ASSUME TypeInv, LostInv, NEW f \in Flushers, NEW s \in Sessions, NEW p \in RequestPcs, NEW b,
           NEW y \in [pc : {"idle", "traces", "events"}, on : Sessions \cup {None}],
           Moves(s, p, b), flusher' = [flusher EXCEPT ![f] = y], UNCHANGED recorded,
           request[s].pc = "idle" \/ flusher[f].on = s,
           y.pc = "idle" <=> y.on = None,
           y.on # None => y.on = s /\ p # "idle",
           Waiting' \subseteq Waiting, WaitingEvents' \subseteq WaitingEvents,
           CarriedBy(y, [pc |-> p, batch |-> b], Waiting, WaitingEvents, recorded)
    PROVE  RequestsOK' /\ FlushersApart' /\ Carried'
<1>1. /\ RequestsOK' /\ request'[s].pc = p /\ request'[s].batch = b
      /\ \A r \in Sessions : r # s => request'[r] = request[r]
  BY RequestMoves DEF TypeInv
<1>2. request'[s] = [pc |-> p, batch |-> b]
  BY <1>1 DEF RequestsOK
<1>3. /\ flusher \in [Flushers -> [pc : {"idle", "traces", "events"}, on : Sessions \cup {None}]]
      /\ flusher'[f] = y /\ \A g \in Flushers : g # f => flusher'[g] = flusher[g]
  BY DEF TypeInv, SdkOK
<1>4. None \notin Sessions
  BY DeliveryConstantsOK
<1>5. ASSUME NEW g \in Flushers, g # f, flusher[g].on # None
      PROVE  flusher[g].on # s /\ request'[flusher[g].on] = request[flusher[g].on]
             /\ flusher[g].on \in Sessions
  BY <1>1, <1>3, <1>4, <1>5 DEF LostInv, FlushersApart
<1>6. FlushersApart'
  <2>1. ASSUME NEW g \in Flushers
        PROVE  /\ flusher'[g].pc = "idle" <=> flusher'[g].on = None
               /\ flusher'[g].on # None => request'[flusher'[g].on].pc # "idle"
    <3>1. CASE g = f
      BY <1>1, <1>3, <3>1
    <3>2. CASE g # f
      BY <1>3, <1>5, <3>2 DEF LostInv, FlushersApart
    <3>. QED
      BY <3>1, <3>2
  <2>2. ASSUME NEW g \in Flushers, NEW h \in Flushers, h # g, flusher'[g].on # None
        PROVE  flusher'[h].on # flusher'[g].on
    <3>1. CASE g = f
      BY <1>3, <1>5, <2>2, <3>1
    <3>2. CASE h = f
      BY <1>3, <1>5, <2>2, <3>2
    <3>3. CASE g # f /\ h # f
      BY <1>3, <2>2, <3>3 DEF LostInv, FlushersApart
    <3>. QED
      BY <3>1, <3>2, <3>3
  <2>. QED
    BY <2>1, <2>2 DEF FlushersApart
<1>7. ASSUME NEW g \in Flushers
      PROVE  CarriedBy(flusher'[g], request'[flusher'[g].on], Waiting', WaitingEvents', recorded')
  <2>1. CASE g = f /\ y.on # None
    BY <1>2, <1>3, <2>1, CarriedLess
  <2>2. CASE g = f /\ y.on = None
    BY <1>3, <2>2 DEF CarriedBy
  <2>3. CASE g # f /\ flusher[g].on # None
    BY <1>3, <1>5, <2>3, CarriedLess DEF LostInv, Carried
  <2>4. CASE g # f /\ flusher[g].on = None
    BY <1>3, <2>4 DEF LostInv, FlushersApart, CarriedBy
  <2>. QED
    BY <2>1, <2>2, <2>3, <2>4
<1>. QED
  BY <1>1, <1>6, <1>7 DEF Carried

\* What the actions of a flush do, each of its request and its flusher.
FlushFrame == UNCHANGED <<arrived, recorded, spans, phase, due, emitted, exposed>>

Handle(p, s) == [pc |-> p, on |-> s]

LEMMA StartTracesStep ==
    ASSUME TypeInv, NEW f \in Flushers, NEW s \in Sessions, StartFlush(f, s), PostTraces(f, s)
    PROVE  /\ FlushFrame /\ UNCHANGED <<buffer, eventBuffer, early>>
           /\ request[s].pc = "idle" /\ flusher[f].pc = "idle" /\ buffer # <<>>
           /\ Moves(s, "busy", Payloads)
           /\ flusher' = [flusher EXCEPT ![f] = Handle("traces", s)]
  BY DEF StartFlush, PostTraces, Service!Accept, Moves, FlushFrame, program, Handle

LEMMA StartEventsStep ==
    ASSUME TypeInv, NEW f \in Flushers, NEW s \in Sessions,
           StartFlush(f, s), buffer = <<>>, PostEvents(f, s)
    PROVE  /\ FlushFrame /\ UNCHANGED <<buffer, eventBuffer>>
           /\ request[s].pc = "idle" /\ flusher[f].pc = "idle"
           /\ Moves(s, "busy", eventBuffer)
           /\ flusher' = [flusher EXCEPT ![f] = Handle("events", s)]
           /\ early' = early \cup EarlyIn(eventBuffer)
  BY DEF StartFlush, PostEvents, Moves, FlushFrame, program, Handle

LEMMA ContinueStep ==
    ASSUME TypeInv, NEW f \in Flushers, ContinueFlush(f)
    PROVE  LET s == flusher[f].on IN
           /\ s \in Sessions /\ flusher[f].pc = "traces" /\ request[s].pc = "ok"
           /\ FlushFrame /\ UNCHANGED <<buffer, eventBuffer>>
           /\ Moves(s, "busy", eventBuffer)
           /\ flusher' = [flusher EXCEPT ![f] = Handle("events", s)]
           /\ early' = early \cup EarlyIn(eventBuffer)
<1>1. flusher[f].on \in Sessions \cup {None}
  BY DEF TypeInv, SdkOK
<1>. QED
  BY <1>1 DEF ContinueFlush, Accepted, PostEvents, Moves, FlushFrame, program, Handle

LEMMA FinishStep ==
    ASSUME TypeInv, NEW f \in Flushers, EndFlush(f) \/ FailFlush(f)
    PROVE  LET s == flusher[f].on IN
           /\ s \in Sessions /\ FlushFrame /\ UNCHANGED early
           /\ Moves(s, "idle", <<>>)
           /\ flusher' = [flusher EXCEPT ![f] = NoRequest]
           /\ EndFlush(f) => /\ request[s].pc = "ok"
                             /\ flusher[f].pc = "events" \/ eventBuffer = <<>>
                             /\ buffer' = <<>> /\ eventBuffer' = <<>>
           /\ FailFlush(f) => UNCHANGED <<buffer, eventBuffer>>
<1>1. flusher[f].on \in Sessions \cup {None}
  BY DEF TypeInv, SdkOK
<1>2. /\ flusher[f].on # None /\ Service!Release(flusher[f].on)
      /\ flusher' = [flusher EXCEPT ![f] = NoRequest]
      /\ UNCHANGED <<arrived, spans, phase, due, emitted, exposed, early>>
  BY DEF EndFlush, FailFlush, Accepted, Refused, program, buffers
<1>3. Moves(flusher[f].on, "idle", <<>>) /\ UNCHANGED recorded
  BY <1>1, <1>2, ServiceMoves DEF TypeInv
<1>4. EndFlush(f) => /\ request[flusher[f].on].pc = "ok"
                     /\ flusher[f].pc = "events" \/ eventBuffer = <<>>
                     /\ buffer' = <<>> /\ eventBuffer' = <<>>
  BY DEF EndFlush, Accepted
<1>5. FailFlush(f) => UNCHANGED <<buffer, eventBuffer>>
  BY DEF FailFlush, buffers
<1>. QED
  BY <1>1, <1>2, <1>3, <1>4, <1>5 DEF FlushFrame

LEMMA LoseStep ==
    ASSUME TypeInv, NEW f \in Flushers, LoseReply(f)
    PROVE  /\ FlushFrame /\ UNCHANGED <<request, buffer, eventBuffer, early>>
           /\ flusher' = [flusher EXCEPT ![f] = NoRequest]
  BY DEF LoseReply, server, program, buffers, FlushFrame

\* Every trace in the buffer is posted.
LEMMA PayloadsCover ==
    ASSUME TypeInv
    PROVE  /\ \A t \in ToSet(buffer) : \E m \in ToSet(Payloads) : m.kind = "trace" /\ m.of = t
           /\ \A m \in ToSet(Payloads) :
                  m.kind = "trace" /\ m.of \in ToSet(buffer) /\ m.steps = spans[m.of]
<1>. DEFINE P(i) == [kind |-> "trace", of |-> buffer[i], steps |-> spans[buffer[i]]]
<1>1. Payloads = [i \in DOMAIN buffer |-> P(i)]
  BY DEF Payloads
<1>2. \A i : P(i).kind = "trace" /\ P(i).of = buffer[i] /\ P(i).steps = spans[buffer[i]]
  OBVIOUS
<1>. HIDE DEF P
<1>3. DOMAIN Payloads = DOMAIN buffer /\ \A i \in DOMAIN buffer : Payloads[i] = P(i)
  BY <1>1
<1>. QED
  BY <1>2, <1>3 DEF ToSet

LEMMA FlushersKeep ==
    ASSUME TypeInv, LostInv, integration = "sdk", UNCHANGED <<call, integration>>,
           NEW f \in Flushers, FlushStep(f) \/ LoseReply(f)
    PROVE  TypeInv' /\ LostInv'
<1>0. CallsOK' /\ Quiet'
  BY DEF TypeInv, CallsOK, Quiet
<1>. DEFINE Handles == [pc : {"idle", "traces", "events"}, on : Sessions \cup {None}]
<1>1. /\ flusher \in [Flushers -> Handles]
      /\ CarriedBy(flusher[f], request[flusher[f].on], Waiting, WaitingEvents, recorded)
      /\ flusher[f].pc = "idle" <=> flusher[f].on = None
      /\ None \notin Sessions
  BY DeliveryConstantsOK DEF TypeInv, SdkOK, LostInv, Carried, FlushersApart
<1>2. \A p \in {"traces", "events"} : \A s \in Sessions :
          Handle(p, s) \in Handles /\ Handle(p, s).pc = p /\ Handle(p, s).on = s
  BY DEF Handle
<1>3. NoRequest \in Handles /\ NoRequest.pc = "idle" /\ NoRequest.on = None
  BY DEF NoRequest
<1>4. \A r, traces, events, rec : CarriedBy(NoRequest, r, traces, events, rec)
  BY <1>3 DEF CarriedBy
<1>. HIDE DEF Handles
<1>5. ASSUME FlushFrame, UNCHANGED <<buffer, eventBuffer>>, NEW y \in Handles,
             flusher' = [flusher EXCEPT ![f] = y]
      PROVE  /\ SdkOK' /\ NothingElseLost'
             /\ Waiting' = Waiting /\ WaitingEvents' = WaitingEvents /\ UNCHANGED recorded
  <2>1. flusher' \in [Flushers -> Handles]
    BY <1>1, <1>5
  <2>2. SdkOK'
    BY <1>5, <2>1 DEF TypeInv, SdkOK, FlushFrame, Handles
  <2>3. NothingElseLost
    BY DEF LostInv
  <2>. QED
    BY <1>5, <2>2, <2>3 DEF NothingElseLost, FlushFrame, Waiting, WaitingEvents
<1>6. ASSUME NEW s \in Sessions, StartFlush(f, s), PostTraces(f, s)
      PROVE  TypeInv' /\ LostInv'
  <2>1. /\ FlushFrame /\ UNCHANGED <<buffer, eventBuffer>> /\ request[s].pc = "idle"
        /\ Moves(s, "busy", Payloads) /\ flusher' = [flusher EXCEPT ![f] = Handle("traces", s)]
    BY <1>6, StartTracesStep
  <2>2. CarriedBy(Handle("traces", s), [pc |-> "busy", batch |-> Payloads],
                  Waiting, WaitingEvents, recorded)
    BY <1>2, PayloadsCover DEF CarriedBy, Waiting
  <2>3. /\ SdkOK' /\ NothingElseLost' /\ UNCHANGED recorded
        /\ Waiting' = Waiting /\ WaitingEvents' = WaitingEvents
    BY <1>2, <1>5, <2>1
  <2>4. RequestsOK' /\ FlushersApart' /\ Carried'
    <3>. DEFINE y == Handle("traces", s)
    <3>1. y \in Handles /\ y.pc # "idle" /\ y.on = s /\ s # None
      BY <1>1, <1>2
    <3>2. Waiting' \subseteq Waiting /\ WaitingEvents' \subseteq WaitingEvents
      BY <2>3
    <3>. HIDE DEF y
    <3>. QED
      BY <2>1, <2>2, <2>3, <3>1, <3>2, HandOver DEF RequestPcs, Handles, y
  <2>. QED
    BY <1>0, <2>3, <2>4 DEF TypeInv, LostInv
<1>7. ASSUME NEW s \in Sessions, FlushFrame, UNCHANGED <<buffer, eventBuffer>>,
             request[s].pc = "idle" \/ flusher[f].on = s,
             Moves(s, "busy", eventBuffer),
             flusher' = [flusher EXCEPT ![f] = Handle("events", s)], Waiting \subseteq recorded
      PROVE  TypeInv' /\ LostInv'
  <2>1. CarriedBy(Handle("events", s), [pc |-> "busy", batch |-> eventBuffer],
                  Waiting, WaitingEvents, recorded)
    BY <1>2, <1>7 DEF CarriedBy, WaitingEvents
  <2>2. /\ SdkOK' /\ NothingElseLost' /\ UNCHANGED recorded
        /\ Waiting' = Waiting /\ WaitingEvents' = WaitingEvents
    BY <1>2, <1>5, <1>7
  <2>3. RequestsOK' /\ FlushersApart' /\ Carried'
    <3>. DEFINE y == Handle("events", s)
    <3>1. y \in Handles /\ y.pc # "idle" /\ y.on = s /\ s # None
      BY <1>1, <1>2
    <3>2. Waiting' \subseteq Waiting /\ WaitingEvents' \subseteq WaitingEvents
      BY <2>2
    <3>. HIDE DEF y
    <3>. QED
      BY <1>7, <2>1, <2>2, <3>1, <3>2, HandOver DEF RequestPcs, Handles, y
  <2>. QED
    BY <1>0, <2>2, <2>3 DEF TypeInv, LostInv
<1>8. ASSUME NEW s \in Sessions, StartFlush(f, s), ~PostTraces(f, s)
      PROVE  TypeInv' /\ LostInv'
  <2>1. buffer = <<>> /\ PostEvents(f, s)
    BY <1>8 DEF StartFlush
  <2>2. Waiting = {}
    BY <2>1, EmptySet DEF Waiting
  <2>. QED
    BY <1>7, <1>8, <2>1, <2>2, StartEventsStep
<1>9. CASE ContinueFlush(f)
  <2>1. Waiting \subseteq recorded
    BY <1>1, <1>9, ContinueStep DEF CarriedBy
  <2>. QED
    BY <1>7, <1>9, <2>1, ContinueStep
<1>10. CASE EndFlush(f)
  <2>. DEFINE s == flusher[f].on
  <2>1. /\ s \in Sessions /\ FlushFrame /\ Moves(s, "idle", <<>>) /\ request[s].pc = "ok"
        /\ flusher[f].pc = "events" \/ eventBuffer = <<>>
        /\ flusher' = [flusher EXCEPT ![f] = NoRequest]
        /\ buffer' = <<>> /\ eventBuffer' = <<>>
    BY <1>10, FinishStep
  <2>2. flusher[f].pc \in {"traces", "events"}
    BY <1>1, <2>1 DEF Handles
  <2>3. Waiting \subseteq recorded /\ WaitingEvents \subseteq recorded
    BY <1>1, <2>1, <2>2, EmptySet DEF CarriedBy, WaitingEvents
  <2>4. Waiting' = {} /\ WaitingEvents' = {}
    BY <2>1, EmptySet DEF Waiting, WaitingEvents
  <2>5. NothingElseLost'
    BY <2>1, <2>3 DEF LostInv, NothingElseLost, FlushFrame, Waiting, WaitingEvents
  <2>6. SdkOK'
    BY <1>1, <1>3, <2>1 DEF TypeInv, SdkOK, FlushFrame, Handles
  <2>7. RequestsOK' /\ FlushersApart' /\ Carried'
    BY <1>1, <1>3, <1>4, <2>1, <2>4, HandOver DEF RequestPcs, FlushFrame, Handles
  <2>. QED
    BY <1>0, <2>5, <2>6, <2>7 DEF TypeInv, LostInv
<1>11. CASE FailFlush(f)
  <2>. DEFINE s == flusher[f].on
  <2>1. /\ s \in Sessions /\ FlushFrame /\ Moves(s, "idle", <<>>)
        /\ flusher' = [flusher EXCEPT ![f] = NoRequest] /\ UNCHANGED <<buffer, eventBuffer>>
    BY <1>11, FinishStep
  <2>2. /\ SdkOK' /\ NothingElseLost' /\ UNCHANGED recorded
        /\ Waiting' = Waiting /\ WaitingEvents' = WaitingEvents
    BY <1>3, <1>5, <2>1
  <2>3. RequestsOK' /\ FlushersApart' /\ Carried'
    BY <1>3, <1>4, <2>1, <2>2, HandOver DEF RequestPcs, Handles
  <2>. QED
    BY <1>0, <2>2, <2>3 DEF TypeInv, LostInv
<1>12. CASE LoseReply(f)
  <2>1. /\ FlushFrame /\ UNCHANGED <<request, buffer, eventBuffer>>
        /\ flusher' = [flusher EXCEPT ![f] = NoRequest]
    BY <1>12, LoseStep
  <2>2. /\ SdkOK' /\ NothingElseLost' /\ UNCHANGED recorded
        /\ Waiting' = Waiting /\ WaitingEvents' = WaitingEvents
    BY <1>3, <1>5, <2>1
  <2>3. RequestsOK'
    BY <2>1 DEF TypeInv, RequestsOK
  <2>4. \A g \in Flushers : flusher'[g] = IF g = f THEN NoRequest ELSE flusher[g]
    BY <1>1, <2>1
  <2>5. FlushersApart'
    BY <1>3, <2>1, <2>4 DEF LostInv, FlushersApart
  <2>6. ASSUME NEW g \in Flushers
        PROVE  CarriedBy(flusher'[g], request'[flusher'[g].on], Waiting, WaitingEvents, recorded)
    <3>1. CASE g = f
      BY <1>4, <2>4, <3>1
    <3>2. CASE g # f
      BY <2>1, <2>4, <3>2 DEF LostInv, Carried
    <3>. QED
      BY <3>1, <3>2
  <2>7. Carried'
    BY <2>2, <2>6 DEF Carried
  <2>. QED
    BY <1>0, <2>2, <2>3, <2>5, <2>7 DEF TypeInv, LostInv
<1>. QED
  BY <1>6, <1>8, <1>9, <1>10, <1>11, <1>12 DEF FlushStep

LEMMA LostInvariant == Spec => [](TypeInv /\ LostInv)
<1>1. Init => TypeInv /\ LostInv
  <2>. SUFFICES ASSUME Init
                PROVE  TypeInv /\ LostInv
    OBVIOUS
  <2>1. RequestsOK
    BY DEF Init, Service!ServiceInit, Service!Idle, RequestsOK, RequestPcs
  <2>2. CallsOK
    BY DEF Init, Proxy!CallsInit, CallsOK
  <2>3. SdkOK
    BY DEF Init, SdkOK, NoRequest
  <2>4. \A f \in Flushers : flusher[f] = NoRequest /\ flusher[f].pc = "idle" /\ flusher[f].on = None
    BY DEF Init, NoRequest
  <2>5. FlushersApart /\ Carried
    BY <2>4 DEF FlushersApart, Carried, CarriedBy
  <2>6. Quiet /\ NothingElseLost
    BY <2>4, EmptySet DEF Init, Quiet, NothingElseLost
  <2>. QED
    BY <2>1, <2>2, <2>3, <2>5, <2>6 DEF TypeInv, LostInv
<1>2. TypeInv /\ LostInv /\ [Next]_vars => (TypeInv /\ LostInv)'
  <2>. SUFFICES ASSUME TypeInv, LostInv, [Next]_vars
                PROVE  TypeInv' /\ LostInv'
    OBVIOUS
  <2>1. CASE UNCHANGED vars
    <3>1. ServerOnly /\ UNCHANGED <<request, recorded, arrived, call>>
      BY <2>1 DEF vars, server, sdk, program, buffers, ServerOnly
    <3>2. RequestsOK' /\ CallsOK' /\ SdkOK'
      BY <3>1 DEF TypeInv, RequestsOK, CallsOK, SdkOK, ServerOnly
    <3>3. Waiting' = Waiting /\ WaitingEvents' = WaitingEvents
      BY <3>1 DEF ServerOnly, Waiting, WaitingEvents
    <3>4. FlushersApart' /\ Carried'
      BY <3>1, <3>3 DEF LostInv, FlushersApart, Carried, ServerOnly
    <3>5. Quiet' /\ NothingElseLost'
      BY <3>1 DEF LostInv, Quiet, NothingElseLost, ServerOnly
    <3>. QED
      BY <3>2, <3>4, <3>5 DEF TypeInv, LostInv
  <2>2. CASE UseSdk(SdkStep)
    <3>1. integration = "sdk" /\ UNCHANGED <<call, integration>> /\ SdkStep
      BY <2>2 DEF UseSdk
    <3>. QED
      BY <3>1, ProgramKeeps, FlushersKeep DEF SdkStep
  <2>. QED
    BY <2>1, <2>2, ServerKeeps, ProxyKeeps DEF Next
<1>. QED
  BY <1>1, <1>2, PTL DEF Spec

\* No finished trace and no event is lost, for any number of threads that
\* flush and of requests that fail or whose reply is lost: a flush that clears
\* the buffers has what was in them accepted, unless it came while a flush was
\* under way (flush and aflush of sdk.py).
THEOREM NothingIsLost == Spec => []NothingElseLost
<1>1. LostInv => NothingElseLost
  BY DEF LostInv
<1>. QED
  BY <1>1, LostInvariant, PTL

-----------------------------------------------------------------------------
(* What the requests under way tell of traces.                             *)

WellMade(m, ph, du, known) ==
    \/ m.kind = "trace" /\ m.of \in Calls
    \/ /\ m.kind = "trace" /\ m.of \in Traced /\ ph[m.of] = "ended"
       /\ m.steps \in Seq(Steps \cup {"error"}) /\ du[m.of] \subseteq ToSet(m.steps)
    \/ m \in Emitted /\ (m.of \in Traced => m.of \in known)

Known == early \cup exposed \cup recorded

\* A request under way says of a trace all that it had, or is of a trace that
\* is known or excepted.
InHand ==
    \A s \in Sessions : request[s].pc = "busy" =>
        \A m \in ToSet(request[s].batch) : WellMade(m, phase, due, Known)

Whole ==
    \A t \in (Traced \cap recorded) \ (early \cup exposed) :
        phase[t] = "ended" /\ arrived[t] # None /\ due[t] \subseteq ToSet(arrived[t])

InMemory ==
    /\ \A t \in Traced : phase[t] = "ended" => due[t] \subseteq ToSet(spans[t])
    /\ \A t \in ToSet(buffer) : phase[t] = "ended"
    /\ ToSet(eventBuffer) \subseteq emitted
    /\ \A e \in emitted : e.of \in Traced => phase[e.of] # "new"

WholeInv == InHand /\ Whole /\ InMemory

LEMMA WellMadeStays ==
    ASSUME NEW m, NEW ph1, NEW ph2, NEW du1, NEW du2, NEW known1, NEW known2,
           \A t \in Traced : ph1[t] = "ended" => ph2[t] = "ended" /\ du2[t] = du1[t],
           known1 \subseteq known2, WellMade(m, ph1, du1, known1)
    PROVE  WellMade(m, ph2, du2, known2)
  BY DEF WellMade

\* What the program may do to its traces meanwhile.
Grows ==
    /\ \A t \in Traced : phase[t] = "ended" => phase'[t] = "ended" /\ due'[t] = due[t]
    /\ early \subseteq early' /\ exposed \subseteq exposed'

LEMMA WholeStays ==
    ASSUME WholeInv, Grows, UNCHANGED <<recorded, arrived>>
    PROVE  /\ Whole' /\ Known \subseteq Known'
           /\ \A m : WellMade(m, phase, due, Known) => WellMade(m, phase', due', Known')
<1>1. Known \subseteq Known'
  BY DEF Grows, Known
<1>2. Whole'
  BY DEF WholeInv, Whole, Grows
<1>3. \A m : WellMade(m, phase, due, Known) => WellMade(m, phase', due', Known')
  BY <1>1, WellMadeStays DEF Grows
<1>. QED
  BY <1>1, <1>2, <1>3

\* A request that is accepted in a state where what it says holds.
LEMMA HandStays ==
    ASSUME TypeInv, WholeInv, NEW s \in Sessions, NEW p \in RequestPcs, NEW b, Moves(s, p, b),
           \A m : WellMade(m, phase, due, Known) => WellMade(m, phase', due', Known'),
           p = "busy" => \A m \in ToSet(b) : WellMade(m, phase', due', Known')
    PROVE  InHand'
<1>1. /\ request'[s].pc = p /\ request'[s].batch = b
      /\ \A r \in Sessions : r # s => request'[r] = request[r]
  BY RequestMoves DEF TypeInv
<1>2. ASSUME NEW r \in Sessions, request'[r].pc = "busy", NEW m \in ToSet(request'[r].batch)
      PROVE  WellMade(m, phase', due', Known')
  <2>1. CASE r = s
    BY <1>1, <1>2, <2>1
  <2>2. CASE r # s
    BY <1>1, <1>2, <2>2 DEF WholeInv, InHand
  <2>. QED
    BY <2>1, <2>2
<1>. QED
  BY <1>2 DEF InHand

LEMMA EmittedKind == \A e \in Emitted : e.kind = "event"
<1>1. \A e \in Emitted : e = [kind |-> "event", of |-> e.of, id |-> e.id]
  BY DeliveryConstantsOK
<1>. QED
  BY <1>1

\* A trace becomes recorded by a post of it, or is excepted.
LEMMA SucceedWhole ==
    ASSUME TypeInv, WholeInv, NEW s \in Sessions, Succeed(s)
    PROVE  WholeInv'
<1>. DEFINE messages == ToSet(request[s].batch)
            posts(t) == {m \in messages : m.kind = "trace" /\ m.of = t}
<1>1. Service!Succeed(s) /\ ServerOnly
  BY DEF Succeed, ServerOnly, sdk, program, buffers
<1>2. /\ request[s].pc = "busy" /\ Moves(s, "ok", request[s].batch)
      /\ recorded' = recorded \cup Promises(messages)
  BY <1>1, ServiceMoves DEF TypeInv
<1>3. \A t \in Traced : arrived'[t] = IF t \notin recorded /\ posts(t) # {}
                                      THEN (CHOOSE m \in posts(t) : TRUE).steps
                                      ELSE arrived[t]
  BY DEF Succeed
<1>4. \A m \in messages : WellMade(m, phase, due, Known)
  BY <1>2 DEF WholeInv, InHand
<1>5. /\ \A m : WellMade(m, phase, due, Known) => WellMade(m, phase', due', Known')
      /\ UNCHANGED <<phase, due, early, exposed>>
  <2>1. UNCHANGED <<phase, due, early, exposed>>
    BY <1>1 DEF ServerOnly
  <2>2. Known \subseteq Known'
    BY <1>2, <2>1 DEF Known
  <2>. QED
    BY <2>1, <2>2, WellMadeStays
<1>6. InHand'
  BY <1>2, <1>5, HandStays DEF RequestPcs
<1>7. InMemory'
  BY <1>1 DEF WholeInv, InMemory, ServerOnly
<1>8. ASSUME NEW t \in Traced, t \in recorded', t \notin early \cup exposed
      PROVE  phase[t] = "ended" /\ arrived'[t] # None /\ due[t] \subseteq ToSet(arrived'[t])
  <2>1. CASE t \in recorded
    <3>1. arrived'[t] = arrived[t]
      BY <1>3, <2>1
    <3>. QED
      BY <1>8, <2>1, <3>1 DEF WholeInv, Whole
  <2>2. CASE t \notin recorded
    <3>1. PICK m \in messages : t \in PromisedOf(m)
      BY <1>2, <1>8, <2>2 DEF Promises
    <3>2. t \notin Calls /\ t \notin Emitted
      BY DeliveryConstantsOK
    <3>3. ASSUME NEW e \in messages, e.kind = "trace", e.of = t
          PROVE  /\ phase[t] = "ended" /\ due[t] \subseteq ToSet(e.steps)
                 /\ e.steps \in Seq(Steps \cup {"error"})
      BY <1>4, <3>2, <3>3, EmittedKind DEF WellMade
    <3>4. m.kind = "trace" /\ m.of = t
      <4>1. CASE m \in Emitted
        <5>1. t = m.of
          BY <3>1, <3>2, <4>1 DEF PromisedOf
        <5>2. t \in Known
          BY <1>4, <4>1, <5>1, EmittedKind DEF WellMade
        <5>. QED
          BY <1>8, <2>2, <5>2 DEF Known
      <4>2. CASE m \notin Emitted
        BY <1>4, <3>1, <4>2 DEF WellMade, PromisedOf
      <4>. QED
        BY <4>1, <4>2
    <3>5. (CHOOSE e \in posts(t) : TRUE) \in posts(t) /\ posts(t) # {}
      <4>1. m \in posts(t)
        BY <3>4
      <4>. HIDE DEF posts
      <4>. QED
        BY <4>1
    <3>6. PICK e \in messages : e.kind = "trace" /\ e.of = t /\ arrived'[t] = e.steps
      BY <1>3, <2>2, <3>5
    <3>7. None \notin Seq(Steps \cup {"error"})
      BY DeliveryConstantsOK
    <3>. QED
      BY <3>3, <3>6, <3>7
  <2>. QED
    BY <2>1, <2>2
<1>. QED
  BY <1>5, <1>6, <1>7, <1>8 DEF WholeInv, Whole

LEMMA ServerWhole ==
    ASSUME TypeInv, WholeInv, NEW s \in Sessions, Fail(s) \/ Drop(s)
    PROVE  WholeInv'
<1>1. ServerOnly /\ UNCHANGED arrived /\ (Service!Fail(s) \/ Service!Release(s))
  BY DEF Fail, Drop, ServerOnly, sdk, program, buffers
<1>2. UNCHANGED recorded /\ \E p \in {"failed", "idle"} : Moves(s, p, <<>>)
  BY <1>1, ServiceMoves DEF TypeInv
<1>3. Grows
  BY <1>1 DEF Grows, ServerOnly
<1>4. Whole' /\ \A m : WellMade(m, phase, due, Known) => WellMade(m, phase', due', Known')
  BY <1>1, <1>2, <1>3, WholeStays
<1>5. InHand'
  BY <1>2, <1>4, HandStays DEF RequestPcs
<1>6. InMemory'
  BY <1>1 DEF WholeInv, InMemory, ServerOnly
<1>. QED
  BY <1>4, <1>5, <1>6 DEF WholeInv

LEMMA ProxyWhole ==
    ASSUME TypeInv, WholeInv, UseProxy(\E c \in Calls : Proxy!CallStep(c))
    PROVE  WholeInv'
<1>1. PICK c \in Calls : Proxy!CallStep(c)
  BY DEF UseProxy
<1>2. ServerOnly /\ UNCHANGED arrived
  BY DEF UseProxy, ServerOnly, sdk, program, buffers
<1>3. /\ UNCHANGED recorded
      /\ \/ UNCHANGED request
         \/ \E s \in Sessions : Moves(s, "idle", <<>>)
         \/ \E s \in Sessions : \E b : Moves(s, "busy", b) /\ Foreign(b)
  BY <1>1, ProxyMoves DEF TypeInv
<1>4. Grows
  BY <1>2 DEF Grows, ServerOnly
<1>5. Whole' /\ \A m : WellMade(m, phase, due, Known) => WellMade(m, phase', due', Known')
  BY <1>2, <1>3, <1>4, WholeStays
<1>6. CASE UNCHANGED request
  BY <1>5, <1>6 DEF WholeInv, InHand, Whole, InMemory, ServerOnly, Known, UseProxy, sdk,
                    program, buffers
<1>7. ASSUME NEW s \in Sessions, NEW b, NEW p \in RequestPcs, Moves(s, p, b),
             p = "busy" => Foreign(b)
      PROVE  InHand'
  <2>1. p = "busy" => \A m \in ToSet(b) : WellMade(m, phase', due', Known')
    BY <1>7 DEF Foreign, WellMade
  <2>. QED
    BY <1>5, <1>7, <2>1, HandStays
<1>8. InMemory'
  BY <1>2 DEF WholeInv, InMemory, ServerOnly
<1>9. InHand' \/ UNCHANGED request
  BY <1>3, <1>7 DEF RequestPcs
<1>. QED
  BY <1>5, <1>6, <1>8, <1>9 DEF WholeInv

LEMMA ProgramWhole ==
    ASSUME TypeInv, WholeInv,
           \/ \E t \in Traced : \/ StartTrace(t)
                                \/ \E x \in Steps : RecordStep(t, x)
                                \/ \E raised \in BOOLEAN : EndTrace(t, raised)
           \/ \E e \in Emitted : EmitEvent(e)
    PROVE  WholeInv'
<1>1. ASSUME Grows, UNCHANGED <<request, recorded, arrived>>, InMemory'
      PROVE  WholeInv'
  <2>1. Whole' /\ \A m : WellMade(m, phase, due, Known) => WellMade(m, phase', due', Known')
    BY <1>1, WholeStays
  <2>2. InHand'
    BY <1>1, <2>1 DEF WholeInv, InHand
  <2>. QED
    BY <1>1, <2>1, <2>2 DEF WholeInv
<1>2. InMemory /\ SdkOK
  BY DEF WholeInv, TypeInv
<1>3. ASSUME NEW t \in Traced, StartTrace(t)
      PROVE  WholeInv'
  <2>1. /\ UNCHANGED <<request, recorded, arrived, spans, due, buffer, eventBuffer, emitted,
                       exposed, early>>
        /\ phase[t] = "new" /\ phase' = [phase EXCEPT ![t] = "open"]
    BY <1>3 DEF StartTrace, server, buffers
  <2>2. \A u \in Traced : phase'[u] = IF u = t THEN "open" ELSE phase[u]
    BY <1>2, <2>1 DEF SdkOK
  <2>3. Grows
    BY <2>1, <2>2 DEF Grows
  <2>4. ToSet(buffer) \subseteq Traced
    BY <1>2 DEF SdkOK, ToSet
  <2>5. InMemory'
    BY <1>2, <2>1, <2>2, <2>4 DEF InMemory
  <2>. QED
    BY <1>1, <2>1, <2>3, <2>5
<1>4. ASSUME NEW t \in Traced, NEW x \in Steps, RecordStep(t, x)
      PROVE  WholeInv'
  <2>1. /\ UNCHANGED <<request, recorded, arrived, phase, due, buffer, eventBuffer, emitted,
                       exposed, early>>
        /\ spans' = [spans EXCEPT ![t] = Append(spans[t], x)]
    BY <1>4 DEF RecordStep, server, buffers
  <2>2. ToSet(Append(spans[t], x)) = ToSet(spans[t]) \cup {x}
    BY <1>2, AppendedSet DEF SdkOK
  <2>3. \A u \in Traced : ToSet(spans[u]) \subseteq ToSet(spans'[u])
    BY <1>2, <2>1, <2>2 DEF SdkOK
  <2>4. Grows
    BY <2>1 DEF Grows
  <2>5. InMemory'
    BY <1>2, <2>1, <2>3 DEF InMemory
  <2>. QED
    BY <1>1, <2>1, <2>4, <2>5
<1>5. ASSUME NEW t \in Traced, NEW raised \in BOOLEAN, EndTrace(t, raised)
      PROVE  WholeInv'
  <2>. DEFINE steps == IF raised THEN Append(spans[t], "error") ELSE spans[t]
  <2>1. /\ UNCHANGED <<request, recorded, arrived, eventBuffer, emitted, early>>
        /\ phase[t] = "open" /\ phase' = [phase EXCEPT ![t] = "ended"]
        /\ spans' = [spans EXCEPT ![t] = steps]
        /\ due' = [due EXCEPT ![t] = ToSet(steps)]
        /\ buffer' = Append(buffer, t) /\ exposed' = Exposed(t)
    BY <1>5 DEF EndTrace, server
  <2>. HIDE DEF steps
  <2>2. ToSet(buffer') = ToSet(buffer) \cup {t} /\ ToSet(buffer) \subseteq Traced
    <3>1. buffer \in Seq(Traced)
      BY <1>2 DEF SdkOK
    <3>2. ToSet(buffer') = ToSet(buffer) \cup {t}
      BY <2>1, <3>1, AppendedSet
    <3>3. ToSet(buffer) \subseteq Traced
      BY <3>1 DEF ToSet
    <3>. QED
      BY <3>2, <3>3
  <2>3. /\ \A u \in Traced : /\ phase'[u] = IF u = t THEN "ended" ELSE phase[u]
                             /\ spans'[u] = IF u = t THEN steps ELSE spans[u]
                             /\ due'[u] = IF u = t THEN ToSet(steps) ELSE due[u]
    BY <1>2, <2>1 DEF SdkOK
  <2>4. Grows
    BY <2>1, <2>3 DEF Grows, Exposed
  <2>5. InMemory'
    BY <1>2, <2>1, <2>2, <2>3 DEF InMemory
  <2>. QED
    BY <1>1, <2>1, <2>4, <2>5
<1>6. ASSUME NEW e \in Emitted, EmitEvent(e)
      PROVE  WholeInv'
  <2>1. /\ UNCHANGED <<request, recorded, arrived, spans, phase, due, buffer, early>>
        /\ e.of \in Traced => phase[e.of] # "new"
        /\ emitted' = emitted \cup {e} /\ eventBuffer' = Append(eventBuffer, e)
        /\ exposed' = Exposed(e)
    BY <1>6 DEF EmitEvent, server, program
  <2>2. ToSet(eventBuffer') = ToSet(eventBuffer) \cup {e}
    BY <1>2, <2>1, AppendedSet DEF SdkOK
  <2>3. Grows
    BY <2>1 DEF Grows, Exposed
  <2>4. InMemory'
    BY <1>2, <2>1, <2>2 DEF InMemory
  <2>. QED
    BY <1>1, <2>1, <2>3, <2>4
<1>. QED
  BY <1>3, <1>4, <1>5, <1>6

LEMMA FlushersWhole ==
    ASSUME TypeInv, LostInv, WholeInv, NEW f \in Flushers, FlushStep(f) \/ LoseReply(f)
    PROVE  WholeInv'
<1>1. ASSUME FlushFrame, early \subseteq early',
             \/ UNCHANGED <<buffer, eventBuffer>>
             \/ buffer' = <<>> /\ eventBuffer' = <<>>
      PROVE  /\ Whole' /\ InMemory'
             /\ \A m : WellMade(m, phase, due, Known) => WellMade(m, phase', due', Known')
  <2>1. Grows /\ UNCHANGED <<recorded, arrived>>
    BY <1>1 DEF Grows, FlushFrame
  <2>2. InMemory'
    BY <1>1, EmptySet DEF WholeInv, InMemory, FlushFrame
  <2>. QED
    BY <2>1, <2>2, WholeStays
<1>2. /\ flusher[f].on \in Sessions \cup {None}
      /\ CarriedBy(flusher[f], request[flusher[f].on], Waiting, WaitingEvents, recorded)
      /\ ToSet(buffer) \subseteq Traced /\ ToSet(eventBuffer) \subseteq Emitted
  BY DEF TypeInv, SdkOK, LostInv, Carried, ToSet
<1>3. ASSUME NEW s \in Sessions, StartFlush(f, s), PostTraces(f, s)
      PROVE  WholeInv'
  <2>1. /\ FlushFrame /\ UNCHANGED <<buffer, eventBuffer, early>>
        /\ Moves(s, "busy", Payloads)
    BY <1>3, StartTracesStep
  <2>2. ASSUME NEW m \in ToSet(Payloads)
        PROVE  WellMade(m, phase', due', Known')
    <3>1. m.kind = "trace" /\ m.of \in ToSet(buffer) /\ m.steps = spans[m.of]
      BY PayloadsCover
    <3>2. m.of \in Traced /\ phase[m.of] = "ended" /\ due[m.of] \subseteq ToSet(spans[m.of])
      BY <1>2, <3>1 DEF WholeInv, InMemory
    <3>3. spans[m.of] \in Seq(Steps \cup {"error"})
      BY <3>2 DEF TypeInv, SdkOK
    <3>4. WellMade(m, phase, due, Known)
      BY <3>1, <3>2, <3>3 DEF WellMade
    <3>. QED
      BY <1>1, <2>1, <3>4
  <2>. QED
    BY <1>1, <2>1, <2>2, HandStays DEF WholeInv, RequestPcs
<1>4. ASSUME NEW s \in Sessions, FlushFrame, UNCHANGED <<buffer, eventBuffer>>,
             early' = early \cup EarlyIn(eventBuffer),
             Moves(s, "busy", eventBuffer), Waiting \subseteq recorded
      PROVE  WholeInv'
  <2>1. ASSUME NEW m \in ToSet(eventBuffer)
        PROVE  WellMade(m, phase', due', Known')
    <3>1. m \in Emitted /\ m \in emitted
      BY <1>2 DEF WholeInv, InMemory
    <3>2. ASSUME m.of \in Traced, phase[m.of] = "open"
          PROVE  m.of \in early'
      BY <1>4, <3>2 DEF EarlyIn
    <3>3. ASSUME m.of \in Traced, phase[m.of] = "ended"
          PROVE  m.of \in exposed \cup recorded
      BY <1>4, <3>3 DEF LostInv, NothingElseLost, Waiting
    <3>4. m.of \in Traced => phase[m.of] \in {"open", "ended"}
      BY <3>1 DEF WholeInv, InMemory, TypeInv, SdkOK
    <3>. QED
      BY <1>4, <3>1, <3>2, <3>3, <3>4 DEF WellMade, Known, FlushFrame
  <2>. QED
    BY <1>1, <1>4, <2>1, HandStays DEF WholeInv, RequestPcs
<1>5. ASSUME NEW s \in Sessions, StartFlush(f, s), ~PostTraces(f, s)
      PROVE  WholeInv'
  <2>1. buffer = <<>> /\ PostEvents(f, s)
    BY <1>5 DEF StartFlush
  <2>2. Waiting \subseteq recorded
    BY <2>1, EmptySet DEF Waiting
  <2>. QED
    BY <1>4, <1>5, <2>1, <2>2, StartEventsStep
<1>6. CASE ContinueFlush(f)
  <2>1. Waiting \subseteq recorded
    BY <1>2, <1>6, ContinueStep DEF CarriedBy
  <2>. QED
    BY <1>4, <1>6, <2>1, ContinueStep
<1>7. CASE EndFlush(f) \/ FailFlush(f)
  <2>. DEFINE s == flusher[f].on
  <2>1. /\ s \in Sessions /\ FlushFrame /\ early' = early /\ Moves(s, "idle", <<>>)
        /\ \/ UNCHANGED <<buffer, eventBuffer>>
           \/ buffer' = <<>> /\ eventBuffer' = <<>>
    BY <1>7, FinishStep
  <2>. QED
    BY <1>1, <2>1, HandStays DEF WholeInv, RequestPcs
<1>8. CASE LoseReply(f)
  <2>1. FlushFrame /\ UNCHANGED <<request, buffer, eventBuffer, early>>
    BY <1>8, LoseStep
  <2>2. InHand'
    BY <1>1, <2>1 DEF WholeInv, InHand
  <2>. QED
    BY <1>1, <2>1, <2>2 DEF WholeInv
<1>. QED
  BY <1>3, <1>5, <1>6, <1>7, <1>8 DEF FlushStep

\* A recorded trace has every step it had when it ended, unless an event of it
\* was posted before its end or it was enqueued during a flush: what carries
\* an event of a trace that has ended carries it after the trace (the order of
\* the posts in flush and aflush).
THEOREM TracesArriveWhole == Spec => []TraceWhole
<1>1. Init => WholeInv
  <2>. SUFFICES ASSUME Init
                PROVE  WholeInv
    OBVIOUS
  <2>1. \A s \in Sessions : request[s].pc = "idle"
    BY DEF Init, Service!ServiceInit, Service!Idle
  <2>2. recorded = {}
    BY DEF Init, Service!ServiceInit
  <2>3. InHand /\ Whole
    BY <2>1, <2>2 DEF InHand, Whole
  <2>4. InMemory
    BY EmptySet DEF Init, InMemory
  <2>. QED
    BY <2>3, <2>4 DEF WholeInv
<1>2. TypeInv /\ LostInv /\ WholeInv /\ [Next]_vars => WholeInv'
  <2>. SUFFICES ASSUME TypeInv, LostInv, WholeInv, [Next]_vars
                PROVE  WholeInv'
    OBVIOUS
  <2>1. CASE UNCHANGED vars
    <3>1. ServerOnly /\ UNCHANGED <<request, recorded, arrived>>
      BY <2>1 DEF vars, server, sdk, program, buffers, ServerOnly
    <3>2. Grows
      BY <3>1 DEF ServerOnly, Grows
    <3>3. Whole' /\ \A m : WellMade(m, phase, due, Known) => WellMade(m, phase', due', Known')
      BY <3>1, <3>2, WholeStays
    <3>4. InHand'
      BY <3>1, <3>3 DEF WholeInv, InHand
    <3>5. InMemory'
      BY <3>1 DEF WholeInv, InMemory, ServerOnly
    <3>. QED
      BY <3>3, <3>4, <3>5 DEF WholeInv
  <2>2. CASE UseSdk(SdkStep)
    <3>1. SdkStep
      BY <2>2 DEF UseSdk
    <3>. QED
      BY <3>1, ProgramWhole, FlushersWhole DEF SdkStep
  <2>. QED
    BY <2>1, <2>2, SucceedWhole, ServerWhole, ProxyWhole DEF Next
<1>3. WholeInv => TraceWhole
  BY DEF WholeInv, Whole, TraceWhole
<1>. QED
  BY <1>1, <1>2, <1>3, LostInvariant, PTL DEF Spec
=============================================================================
