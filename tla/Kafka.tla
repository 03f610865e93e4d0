--------------------------------- MODULE Kafka ---------------------------------
(***************************************************************************)
(* One topic of the broker and the consumer group that reads it, as the    *)
(* code in pkg/kafka uses them: the writer chooses a partition for every   *)
(* message, the group gives each partition to one consumer, and a consumer *)
(* resumes at the committed offset of a partition when it is given it.     *)
(*                                                                         *)
(* Sources are the messages that were ever meant to be sent; the replays   *)
(* of a dead message are copies of its source, each with an id of its own. *)
(***************************************************************************)
EXTENDS Naturals, Sequences, FiniteSets

CONSTANTS
    Source,    \* messages, before any replay
    MaxCopies, \* bound: replays of one source
    Partition, \* partitions of the topic
    Consumer   \* instances of the consumer group

ASSUME MaxCopiesAssumption == MaxCopies \in Nat
ASSUME ConsumerAssumption == Consumer # {}

VARIABLES
    log,    \* log[p]: the messages of partition p
    owner,  \* owner[p]: the consumer that reads partition p
    cursor, \* cursor[p]: messages that owner[p] has fetched
    offset  \* offset[p]: the committed offset of the group

kafkaVars == <<log, owner, cursor, offset>>

\* message_id: the source's own id, or that of its copy-th replay.
Message == [source : Source, copy : 0 .. MaxCopies]

K_TypeOK ==
    /\ log \in [Partition -> Seq(Message)]
    /\ owner \in [Partition -> Consumer]
    /\ cursor \in [Partition -> Nat]
    /\ offset \in [Partition -> Nat]
    /\ \A p \in Partition : cursor[p] <= Len(log[p])

K_Init ==
    /\ log = [p \in Partition |-> <<>>]
    /\ owner \in [Partition -> Consumer]
    /\ cursor = [p \in Partition |-> 0]
    /\ offset = [p \in Partition |-> 0]

Published == {m \in Message : \E p \in Partition : \E i \in 1 .. Len(log[p]) : log[p][i] = m}

\* kafka.Producer.Send: the LeastBytes balancer looks at the load of the
\* partitions and not at the key, so a message may go to any of them.
Send(m) == \E p \in Partition : log' = [log EXCEPT ![p] = Append(@, m)]

\* Mutant of Fetched: off by one.
FetchedOrNothing(c, p) ==
    /\ owner[p] = c
    /\ cursor[p] <= Len(log[p])
    /\ cursor' = [cursor EXCEPT ![p] = @ + 1]

\* FetchMessage hands the owner of a partition its next message.
Fetched(c, p) ==
    /\ owner[p] = c
    /\ cursor[p] < Len(log[p])
    /\ cursor' = [cursor EXCEPT ![p] = @ + 1]

\* The group moves partitions to other consumers, or gives them back to a
\* consumer that was restarted: they are read from the committed offset again.
Assign(parts, assignment) ==
    /\ owner' = [p \in Partition |-> IF p \in parts THEN assignment[p] ELSE owner[p]]
    /\ cursor' = [p \in Partition |-> IF p \in parts THEN offset[p] ELSE cursor[p]]
=============================================================================
