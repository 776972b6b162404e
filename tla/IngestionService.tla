-------------------------- MODULE IngestionService --------------------------
(***************************************************************************)
(* What a client may assume of the ingestion endpoints: a request succeeds *)
(* as a whole or not at all, and once it has succeeded what it was about   *)
(* is recorded for good.                                                   *)
(***************************************************************************)
EXTENDS SequencesExt

CONSTANTS Sessions,      \* requests under way
          Requests,      \* sequences of messages that clients send
          Promised(_),   \* what an accepted message leaves recorded
          Mentioned(_)   \* what it may leave recorded

VARIABLES request, recorded

serviceVars == <<request, recorded>>

Idle == [pc |-> "idle", batch |-> <<>>]

ServiceInit ==
    /\ request = [s \in Sessions |-> Idle]
    /\ recorded = {}

Accept(s, batch) ==
    /\ request[s].pc = "idle"
    /\ request' = [request EXCEPT ![s] = [pc |-> "busy", batch |-> batch]]
    /\ UNCHANGED recorded

Succeed(s) ==
    LET messages == ToSet(request[s].batch) IN
    /\ request[s].pc = "busy"
    /\ request' = [request EXCEPT ![s].pc = "ok"]
    /\ \E more \in SUBSET UNION {Mentioned(m) : m \in messages} :
           recorded' = recorded \cup more \cup UNION {Promised(m) : m \in messages}

Fail(s) ==
    /\ request[s].pc = "busy"
    /\ request' = [request EXCEPT ![s] = [Idle EXCEPT !.pc = "failed"]]
    /\ UNCHANGED recorded

Answered(s) == request[s].pc \in {"ok", "failed"}

Release(s) ==
    /\ Answered(s)
    /\ request' = [request EXCEPT ![s] = Idle]
    /\ UNCHANGED recorded

ServiceNext ==
    \E s \in Sessions : \/ Succeed(s) \/ Fail(s) \/ Release(s)
                        \/ \E batch \in Requests : Accept(s, batch)

ServiceSpec == ServiceInit /\ [][ServiceNext]_serviceVars
=============================================================================
