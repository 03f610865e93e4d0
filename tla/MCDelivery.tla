------------------------------- MODULE MCDelivery -------------------------------
(***************************************************************************)
(* Instances of Delivery for TLC.                                          *)
(***************************************************************************)
EXTENDS DeliveryInvariant

CONSTANTS
    a, b,         \* messages of a service
    f,            \* a message of a foreign producer
    inventory,    \* the service that sends a and b
    orchestrator, \* the service that consumes them, and sends the replays
    c1, c2,       \* consumers
    p1, p2,       \* partitions
    o1            \* an operator

OneRelay == {<<inventory, 1>>, <<orchestrator, 1>>}

\* Two instances of the sending service, of which each has a relay.
TwoRelays == OneRelay \cup {<<inventory, 2>>}
=============================================================================
