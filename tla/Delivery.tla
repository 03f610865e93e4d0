-------------------------------- MODULE Delivery --------------------------------
(***************************************************************************)
(* The way of a message from the outbox of one service to the handler of   *)
(* another: relays, topic, consumer group, inbox and dead letter queue,    *)
(* and the replays that go the same way again.                             *)
(***************************************************************************)
EXTENDS DeadLetters

CONSTANT MaxFaults \* bound: faults of a behaviour

ASSUME MaxFaultsAssumption == MaxFaults \in Nat

VARIABLE faults \* faults so far

vars == <<kafkaVars, relayVars, consumerVars, replayVars, faults>>

Delivery_TypeOK ==
    /\ K_TypeOK
    /\ R_TypeOK
    /\ C_TypeOK
    /\ L_TypeOK
    /\ faults \in 0 .. MaxFaults

Init ==
    /\ K_Init
    /\ R_Init
    /\ C_Init
    /\ L_Init
    /\ faults = 0

Original(source) == [source |-> source, copy |-> 0]

\* A service commits a transaction that emits a message.  (The orchestrator's
\* own messages go to other topics; only its replays come here.)
Emit(sv, source) ==
    /\ sv # Orchestrator
    /\ source \notin Foreign
    /\ Original(source) \notin AllRows
    /\ AppendRow(sv, Original(source))
    /\ UNCHANGED <<kafkaVars, marked, pass, consumerVars, replayVars, faults>>

\* Somebody else writes to the topic.
Intrude(source) ==
    /\ source \in Foreign
    /\ Original(source) \notin Published
    /\ Send(Original(source))
    /\ UNCHANGED <<owner, cursor, offset, relayVars, consumerVars, replayVars, faults>>

RelayWorks(r)    == RelayStep(r) /\ UNCHANGED <<owner, cursor, offset, consumerVars, replayVars, faults>>
ConsumerWorks(c) == ConsumerStep(c) /\ UNCHANGED <<relayVars, replayVars, faults>>
OperatorWorks(o) == ReplayStep(o) /\ UNCHANGED <<kafkaVars, marked, pass, consumerVars, faults>>

Fault ==
    /\ faults < MaxFaults
    /\ faults' = faults + 1
    /\ \/ \E r \in Relay :
              RelayFault(r) /\ UNCHANGED <<owner, cursor, offset, consumerVars, replayVars>>
       \/ \E c \in Consumer : ConsumerFault(c) /\ UNCHANGED <<relayVars, replayVars>>
       \/ \E o \in Operator : FailReplay(o) /\ UNCHANGED <<kafkaVars, marked, pass, consumerVars>>

Next ==
    \/ \E sv \in Service, source \in Source : Emit(sv, source)
    \/ \E source \in Source : Intrude(source)
    \/ \E r \in Relay : RelayWorks(r)
    \/ \E c \in Consumer : ConsumerWorks(c)
    \/ \E o \in Operator : OperatorWorks(o)
    \/ Fault

Spec == Init /\ [][Next]_vars

\* Relay.run and Consumer.Run are loops that nothing but the end of the process
\* ends.  What a client, an intruder or an operator does is theirs to choose,
\* and no fault has to happen.
FairSpec ==
    /\ Spec
    /\ \A r \in Relay : WF_vars(RelayWorks(r))
    /\ \A c \in Consumer : WF_vars(ConsumerWorks(c))

(***************************************************************************)
(* Safety.                                                                 *)
(***************************************************************************)
\* The message was handled, or quarantined, or its handling failed in one of
\* the ways that Consumer.Run and trx.Run do not tell from success.
Settled(m) == m \in inbox \cup dead \cup spoiled

\* The offset never overtakes a message that is still to be handled, whichever
\* consumers crashed, lost their partitions or committed late: what is lost is
\* lost to an error that was swallowed, and to nothing else.
CommittedIsSettled ==
    \A p \in Partition : \A i \in 1 .. offset[p] : i <= Len(log[p]) => Settled(log[p][i])

\* Published twice, fetched twice, or fetched by two consumers at once: a message
\* takes effect once, exactly when its id is in the inbox.
HandledOnce == \A m \in Message : effects[m] = IF m \in inbox THEN 1 ELSE 0

\* A row that is marked was published, even if another row of its batch failed,
\* or the pass before this one failed after it had published.
MarkedWasPublished == marked \subseteq Published

\* The promise of Mailbox, on which the rest of the model rests.
Box == INSTANCE Mailbox WITH
    sent  <- AllRows \cup Published,
    times <- effects

ImplementsMailbox == Box!MailboxSpec

(***************************************************************************)
(* Liveness, with the loops of relays and consumers running.               *)
(***************************************************************************)
\* Every row is published, though a later row may be committed before it and the
\* broker may refuse another row for good.  (Published only grows.)
RowIsPublished ==
    []<>(\A m \in AllRows : m.source \notin Unpublishable => m \in Published)

\* Every message in the topic is settled: none blocks those behind it, whatever
\* was refused, and whoever crashed while it held the inbox row.
PublishedIsSettled == []<>(\A m \in Published : Settled(m))

(***************************************************************************)
(* What the repository says and the code does not keep.                    *)
(***************************************************************************)
\* "rely on Kafka redelivery for transient errors": a message that the group is
\* done with was handled or quarantined.
NothingIsLost ==
    \A p \in Partition : \A i \in 1 .. offset[p] :
        i <= Len(log[p]) => log[p][i] \in inbox \cup dead

\* "Guarantees in-order delivery for a single saga ... within a single topic":
\* when a message takes effect, the rows of its outbox that come before it and
\* are published too have been settled.
InOrderDelivery ==
    [][\A sv \in Service : \A k, m \in Rows(sv) :
           Before(sv, k, m) /\ k \in Published /\ m \in inbox' \ inbox => Settled(k)']_vars
=============================================================================
