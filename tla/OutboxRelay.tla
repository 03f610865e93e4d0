------------------------------ MODULE OutboxRelay ------------------------------
(***************************************************************************)
(* The outbox tables and the relays that publish them (pkg/outbox).  Every *)
(* service has an outbox of its own, and one relay in each of its          *)
(* instances.  A relay's pass is one transaction: it locks a batch of      *)
(* unpublished rows, publishes them one by one, and marks those that were  *)
(* published.  The broker keeps what it was sent when the transaction then *)
(* fails.                                                                  *)
(***************************************************************************)
EXTENDS Kafka, SequencesExt

CONSTANTS
    Service,      \* services whose outbox feeds the topic
    Relay,        \* relays: a service, and the number of its instance
    BatchSize,    \* rows that one pass takes (50 in the code)
    Unpublishable \* sources that the broker refuses, however often they are sent

ASSUME RelayAssumption == Relay \subseteq Service \X Nat
ASSUME BatchSizeAssumption == BatchSize \in Nat \ {0}

VARIABLES
    rows,   \* rows[sv]: the rows of the outbox, ordered by created_at
    marked, \* the messages whose row has a published_at
    pass    \* pass[r]: the transaction of relay r

relayVars == <<rows, marked, pass>>

Rows(sv) == {rows[sv][i] : i \in 1 .. Len(rows[sv])}
AllRows == UNION {Rows(sv) : sv \in Service}

\* No pass is open.
NoPass == [batch |-> {}, todo |-> {}, sent |-> {}]

R_TypeOK ==
    /\ rows \in [Service -> Seq(Message)]
    /\ marked \subseteq Message
    /\ pass \in [Relay -> [batch : SUBSET Message, todo : SUBSET Message, sent : SUBSET Message]]

R_Init ==
    /\ rows = [sv \in Service |-> <<>>]
    /\ marked = {}
    /\ pass = [r \in Relay |-> NoPass]

\* outbox.Repo.Append, when the transaction that called it has committed.
\* created_at was taken before, so a row may appear before rows that are there.
AppendRow(sv, m) ==
    \E i \in 1 .. Len(rows[sv]) + 1 : rows' = [rows EXCEPT ![sv] = InsertAt(@, i, m)]

Before(sv, k, m) ==
    \E i, j \in 1 .. Len(rows[sv]) : i < j /\ rows[sv][i] = k /\ rows[sv][j] = m

\* Rows that are locked FOR UPDATE by the pass of a relay.
Locked == UNION {pass[r].batch : r \in Relay}

\* WHERE published_at IS NULL ... SKIP LOCKED.
Unpublished(sv) == Rows(sv) \ (marked \cup Locked)

\* ORDER BY created_at LIMIT BatchSize.
FetchUnpublished(sv) ==
    {m \in Unpublished(sv) : Cardinality({k \in Unpublished(sv) : Before(sv, k, m)}) < BatchSize}

\* A tick of the relay that finds something to publish.
Poll(r) ==
    /\ pass[r] = NoPass
    /\ FetchUnpublished(r[1]) # {}
    /\ LET batch == FetchUnpublished(r[1])
       IN  pass' = [pass EXCEPT ![r] = [batch |-> batch, todo |-> batch, sent |-> {}]]
    /\ UNCHANGED <<rows, marked, log>>

\* The row of the batch that the loop has come to.
NextRow(r) == {m \in pass[r].todo : \A k \in pass[r].todo : ~Before(r[1], k, m)}

Publish(r) ==
    \E m \in NextRow(r) :
        /\ m.source \notin Unpublishable
        /\ Send(m)
        /\ pass' = [pass EXCEPT ![r].todo = @ \ {m}, ![r].sent = @ \cup {m}]
        /\ UNCHANGED <<rows, marked>>

\* Mutant of Skip: the loop ends at the first row that fails.
SkipRest(r, m) == pass' = [pass EXCEPT ![r].todo = {}]

\* The loop goes on with the next row.
Skip(r, m) == pass' = [pass EXCEPT ![r].todo = @ \ {m}]

\* Publish returns an error: the broker refuses the message.
PublishRefused(r) ==
    \E m \in NextRow(r) :
        /\ m.source \in Unpublishable
        /\ Skip(r, m)
        /\ UNCHANGED <<rows, marked, log>>

\* Publish returns an error, although the broker may have taken the message.
PublishFails(r) ==
    \E m \in NextRow(r) :
        /\ Skip(r, m)
        /\ (m.source \notin Unpublishable /\ Send(m)) \/ UNCHANGED log
        /\ UNCHANGED <<rows, marked>>

\* Mutant of MarkPublished: the whole batch is marked.
MarkBatch(r) == marked' = marked \cup pass[r].batch

MarkPublished(r) == marked' = marked \cup pass[r].sent

\* The loop is through, and the pass commits.
EndPass(r) ==
    /\ pass[r] # NoPass
    /\ pass[r].todo = {}
    /\ MarkPublished(r)
    /\ pass' = [pass EXCEPT ![r] = NoPass]
    /\ UNCHANGED <<rows, log>>

\* The process stops, MarkPublished fails, or the commit does: what was
\* published stays published.
RollBackPass(r) ==
    /\ pass[r] # NoPass
    /\ pass' = [pass EXCEPT ![r] = NoPass]
    /\ UNCHANGED <<rows, marked, log>>

RelayStep(r) == Poll(r) \/ Publish(r) \/ PublishRefused(r) \/ EndPass(r)
RelayFault(r) == PublishFails(r) \/ RollBackPass(r)
=============================================================================
