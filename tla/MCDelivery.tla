----------------------------- MODULE MCDelivery -----------------------------
\* Delivery on small instances.
EXTENDS Delivery

CONSTANTS t1, t2, x1

Event(trace, name) == [kind |-> "event", of |-> trace, id |-> name]

\* One event of the traced function, and one the schema may reject.
Routed == Event(t1, "e1")
Other == Event(t2, "e2")
MCEmitted == {Routed, Other}
MCMalformed == {Other}
=============================================================================
