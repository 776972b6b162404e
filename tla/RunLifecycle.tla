---------------------------- MODULE RunLifecycle ----------------------------
(***************************************************************************)
(* What a replay run promises to whoever created it, with no workers,      *)
(* leases or attempts in sight: it is queued, it may start once nobody has *)
(* asked to cancel it, every case gets one verdict that is kept, and it    *)
(* ends exactly once.  RunExecution is shown to implement this module.     *)
(***************************************************************************)

CONSTANTS Runs,   \* identities of the runs that can be created
          Cases   \* the cases of each run

VARIABLES phase,        \* run -> where the run is
          verdict,      \* run -> case -> what is known of the case
          cancelAsked   \* run -> a client asked to cancel it

vars == <<phase, verdict, cancelAsked>>

Ended == {"completed", "failed", "cancelled"}
Phases == {"absent", "queued", "running"} \cup Ended

\* An "error" is a verdict that a later attempt may still replace; the kept
\* ones are final.
Kept == {"passed", "failed", "flaky"}
Verdicts == {"open", "error", "skipped"} \cup Kept

Init ==
    /\ phase = [r \in Runs |-> "absent"]
    /\ verdict = [r \in Runs |-> [c \in Cases |-> "open"]]
    /\ cancelAsked = [r \in Runs |-> FALSE]

Create(r) ==
    /\ phase[r] = "absent"
    /\ phase' = [phase EXCEPT ![r] = "queued"]
    /\ UNCHANGED <<verdict, cancelAsked>>

AskCancel(r) ==
    /\ phase[r] # "absent"
    /\ cancelAsked' = [cancelAsked EXCEPT ![r] = TRUE]
    /\ UNCHANGED <<phase, verdict>>

Start(r) ==
    /\ phase[r] = "queued"
    /\ ~cancelAsked[r]
    /\ phase' = [phase EXCEPT ![r] = "running"]
    /\ UNCHANGED <<verdict, cancelAsked>>

Settle(r, c, v) ==
    /\ phase[r] = "running"
    /\ verdict[r][c] = "open"
    /\ verdict' = [verdict EXCEPT ![r][c] = v]
    /\ UNCHANGED <<phase, cancelAsked>>

Retry(r, c) ==
    /\ phase[r] = "running"
    /\ verdict[r][c] = "error"
    /\ verdict' = [verdict EXCEPT ![r][c] = "open"]
    /\ UNCHANGED <<phase, cancelAsked>>

Complete(r) ==
    /\ phase[r] = "running"
    /\ \A c \in Cases : verdict[r][c] \in Kept \cup {"error"}
    /\ phase' = [phase EXCEPT ![r] = "completed"]
    /\ UNCHANGED <<verdict, cancelAsked>>

Fail(r) ==
    /\ phase[r] = "running"
    /\ phase' = [phase EXCEPT ![r] = "failed"]
    /\ UNCHANGED <<verdict, cancelAsked>>

\* A run may fail over the last of its verdicts.
FailWith(r, c, v) ==
    /\ phase[r] = "running"
    /\ verdict[r][c] = "open"
    /\ phase' = [phase EXCEPT ![r] = "failed"]
    /\ verdict' = [verdict EXCEPT ![r][c] = v]
    /\ UNCHANGED cancelAsked

Cancel(r) ==
    /\ phase[r] = "running"
    /\ cancelAsked[r]
    /\ phase' = [phase EXCEPT ![r] = "cancelled"]
    /\ verdict' = [verdict EXCEPT ![r] =
                     [c \in Cases |-> IF @[c] = "open" THEN "skipped" ELSE @[c]]]
    /\ UNCHANGED cancelAsked

Next ==
    \E r \in Runs :
        \/ Create(r) \/ AskCancel(r) \/ Start(r)
        \/ Complete(r) \/ Fail(r) \/ Cancel(r)
        \/ \E c \in Cases :
              \/ Retry(r, c)
              \/ \E v \in Kept \cup {"error"} : Settle(r, c, v) \/ FailWith(r, c, v)

Spec == Init /\ [][Next]_vars

=============================================================================
