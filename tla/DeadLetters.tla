------------------------------ MODULE DeadLetters ------------------------------
(***************************************************************************)
(* The operator's side of the dead letter queue: POST                      *)
(* /dead-messages/{id}/replay (orchestrator/internal/handler/dlq.go) and   *)
(* ReplayDeadMessage, which appends a copy of the message, under a new id, *)
(* to the outbox of the orchestrator.                                      *)
(*                                                                         *)
(* The transaction reads the dead message with a plain SELECT, so several  *)
(* requests for one message may read it before the first marks it.         *)
(***************************************************************************)
EXTENDS OutboxRelay, InboxConsumer

CONSTANTS
    Foreign,      \* sources that another producer sends, without a schema_version
    Orchestrator, \* the service whose outbox takes the copies
    Operator      \* requests that may be under way at once

ASSUME OrchestratorAssumption == Orchestrator \in Service

VARIABLES
    replayed, \* ids in dead_message whose replayed_at is set
    request   \* request[o]: the message that the transaction of o replays, if any

replayVars == <<replayed, request>>

NoRequest == [source |-> "none"]

L_TypeOK ==
    /\ replayed \subseteq dead
    /\ request \in [Operator -> {NoRequest} \cup [message : dead]]

L_Init ==
    /\ replayed = {}
    /\ request = [o \in Operator |-> NoRequest]

\* Kafka headers are strings, and writeDLQ stores them as such.  MessageHeaders
\* wants a number for schema_version: a header that is missing decodes, the "1"
\* that outbox.Producer writes, for copies too, does not.  So the replay of a
\* message of the system itself is always answered with an error.
HeadersDecode(m) == m.source \in Foreign /\ m.copy = 0

\* Copies of m's source in the outbox.
Copies(m) == {k \in Rows(Orchestrator) : k.source = m.source /\ k.copy > 0}

\* A message that was replayed is answered with a conflict, and nothing is
\* done.  (So is one without a saga_id; all those in the model have one.)
CanReplay(m) == m \notin replayed

\* FindByID, CanReplay, and the decoding of the headers.  A request that fails here
\* has changed nothing.
RequestReplay(o, m) ==
    /\ request[o] = NoRequest
    /\ CanReplay(m)
    /\ HeadersDecode(m)
    /\ request' = [request EXCEPT ![o] = [message |-> m]]
    /\ UNCHANGED <<rows, replayed>>

\* Append, MarkReplayed, and the commit.
CommitReplay(o) ==
    LET m    == request[o].message
        copy == [source |-> m.source, copy |-> Cardinality(Copies(m)) + 1]
    IN  /\ request[o] # NoRequest
        /\ copy \in Message
        /\ AppendRow(Orchestrator, copy)
        /\ replayed' = replayed \cup {m}
        /\ request' = [request EXCEPT ![o] = NoRequest]

\* A statement fails, the process stops, or the commit fails: all is rolled back.  (In
\* the last case trx.Run has returned nil, and the operator is told that the replay
\* was accepted.)
FailReplay(o) ==
    /\ request[o] # NoRequest
    /\ request' = [request EXCEPT ![o] = NoRequest]
    /\ UNCHANGED <<rows, replayed>>

ReplayStep(o) == (\E m \in dead : RequestReplay(o, m)) \/ CommitReplay(o)
=============================================================================
