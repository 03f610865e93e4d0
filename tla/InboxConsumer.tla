----------------------------- MODULE InboxConsumer -----------------------------
(***************************************************************************)
(* Consumer.Run (pkg/kafka) with its handler: it fetches a message, runs   *)
(* the handler's transaction, whose first statement inserts into the inbox *)
(* (pkg/inbox, pkg/trx), has a message that is refused for good written    *)
(* to dead_message (pkg/dlq), and commits the offset, whatever came of it. *)
(*                                                                         *)
(* A consumer that lost its partition finishes the message it is at while  *)
(* the new owner is handed the same message.                               *)
(***************************************************************************)
EXTENDS Kafka

CONSTANTS
    Refused,    \* sources that every handler refuses: malformed headers or payload
    Conditional \* sources that a handler may refuse, for the state of the saga row

VARIABLES
    work,    \* work[c]: the message that consumer c is at, and how far it is
    inbox,   \* ids in the inbox
    effects, \* effects[m]: how often the handling of m was committed
    dead,    \* ids in dead_message
    spoiled  \* history: messages whose handling failed without anybody being told

consumerVars == <<work, inbox, effects, dead, spoiled>>

Idle == [phase |-> "idle"]

\* fetched: the handler was called.     inserted: its inbox row is in, uncommitted.
\* refused: it returned a permanent error.       done: the offset is to be committed.
Phase == {"fetched", "inserted", "refused", "done"}

C_TypeOK ==
    /\ work \in [Consumer -> {Idle} \cup [part : Partition, at : Nat \ {0}, phase : Phase]]
    /\ inbox \subseteq Message
    /\ effects \in [Message -> Nat]
    /\ dead \subseteq Message
    /\ spoiled \subseteq Message
    /\ \A c \in Consumer : work[c] # Idle => work[c].at <= Len(log[work[c].part])

C_Init ==
    /\ work = [c \in Consumer |-> Idle]
    /\ inbox = {}
    /\ effects = [m \in Message |-> 0]
    /\ dead = {}
    /\ spoiled = {}

MessageOf(c) == log[work[c].part][work[c].at]

In(c, phase) == work[c] # Idle /\ work[c].phase = phase
Move(c, phase) == work' = [work EXCEPT ![c].phase = phase]

FetchMessage(c) ==
    /\ work[c] = Idle
    /\ \E p \in Partition :
          /\ Fetched(c, p)
          /\ work' = [work EXCEPT ![c] = [part |-> p, at |-> cursor'[p], phase |-> "fetched"]]
    /\ UNCHANGED <<log, owner, offset, inbox, effects, dead, spoiled>>

\* Mutant of Insertable: a SELECT that sees committed rows only, in place of the
\* unique index.
NotCommitted(m) == m \notin inbox

\* ON CONFLICT waits for a transaction that is inserting the same row.
Insertable(m) == m \notin inbox /\ \A d \in Consumer : In(d, "inserted") => MessageOf(d) # m

\* Dedup inserts the row, and the handler goes on.
InsertInbox(c) ==
    /\ In(c, "fetched")
    /\ Insertable(MessageOf(c))
    /\ Move(c, "inserted")
    /\ UNCHANGED <<kafkaVars, inbox, effects, dead, spoiled>>

\* Dedup finds the row: the handler returns nil at once.
SkipDuplicate(c) ==
    /\ In(c, "fetched")
    /\ MessageOf(c) \in inbox
    /\ Move(c, "done")
    /\ UNCHANGED <<kafkaVars, inbox, effects, dead, spoiled>>

\* Mutant of CommitHandler: the inbox row is not in the handler's transaction.
CommitWithoutInbox(c) ==
    /\ In(c, "inserted")
    /\ MessageOf(c).source \notin Refused
    /\ effects' = [effects EXCEPT ![MessageOf(c)] = @ + 1]
    /\ Move(c, "done")
    /\ UNCHANGED <<kafkaVars, inbox, dead, spoiled>>

\* The business writes are made, and the transaction commits.
CommitHandler(c) ==
    /\ In(c, "inserted")
    /\ MessageOf(c).source \notin Refused
    /\ inbox' = inbox \cup {MessageOf(c)}
    /\ effects' = [effects EXCEPT ![MessageOf(c)] = @ + 1]
    /\ Move(c, "done")
    /\ UNCHANGED <<kafkaVars, dead, spoiled>>

\* Mutant of RefuseMessage: every error is thought to be transient, and the
\* handler is called again.
TryAgain(c) ==
    /\ In(c, "inserted")
    /\ MessageOf(c).source \in Refused \cup Conditional
    /\ Move(c, "fetched")
    /\ UNCHANGED <<kafkaVars, inbox, effects, dead, spoiled>>

\* The handler returns an error that IsPermanent knows, and is rolled back.
RefuseMessage(c) ==
    /\ In(c, "inserted")
    /\ MessageOf(c).source \in Refused \cup Conditional
    /\ Move(c, "refused")
    /\ UNCHANGED <<kafkaVars, inbox, effects, dead, spoiled>>

\* writeDLQ, in a transaction of its own; a second time is ON CONFLICT DO NOTHING.
WriteDLQ(c) ==
    /\ In(c, "refused")
    /\ dead' = dead \cup {MessageOf(c)}
    /\ Move(c, "done")
    /\ UNCHANGED <<kafkaVars, inbox, effects, spoiled>>

\* Mutant of CommitMessages: what the partition's owner has fetched is committed.
CommitCursor(c) ==
    /\ In(c, "done")
    /\ offset' = [offset EXCEPT ![work[c].part] = cursor[work[c].part]]
    /\ work' = [work EXCEPT ![c] = Idle]
    /\ UNCHANGED <<log, owner, cursor, inbox, effects, dead, spoiled>>

\* The next message is fetched as soon as this one's offset is committed.  The
\* group may refuse the commit of a consumer that has lost the partition.
CommitMessages(c) ==
    /\ In(c, "done")
    /\ LET p == work[c].part
       IN  \/ offset' = [offset EXCEPT ![p] = work[c].at]
           \/ owner[p] # c /\ UNCHANGED offset
    /\ work' = [work EXCEPT ![c] = Idle]
    /\ UNCHANGED <<log, owner, cursor, inbox, effects, dead, spoiled>>

ConsumerStep(c) ==
    \/ FetchMessage(c)
    \/ InsertInbox(c)
    \/ SkipDuplicate(c)
    \/ CommitHandler(c)
    \/ RefuseMessage(c)
    \/ WriteDLQ(c)
    \/ CommitMessages(c)

(***************************************************************************)
(* Faults.                                                                 *)
(***************************************************************************)
Spoil(c) ==
    /\ spoiled' = spoiled \cup {MessageOf(c)}
    /\ Move(c, "done")
    /\ UNCHANGED <<kafkaVars, inbox, effects, dead>>

\* The handler returns an error that is not permanent.  Run goes on to commit
\* the offset as after a success.
FailTransiently(c) == (In(c, "fetched") \/ In(c, "inserted")) /\ Spoil(c)

\* Commit fails: trx.Run has its result already, and it is nil.
FailToCommitHandler(c) == In(c, "inserted") /\ Spoil(c)

\* writeDLQ only logs that the insert failed.
FailToWriteDLQ(c) == In(c, "refused") /\ Spoil(c)

\* CommitMessages fails: the loop goes on with the next message.
FailToCommitOffset(c) ==
    /\ In(c, "done")
    /\ work' = [work EXCEPT ![c] = Idle]
    /\ UNCHANGED <<kafkaVars, inbox, effects, dead, spoiled>>

\* The process of the consumer stops: its transaction is rolled back, and its
\* partitions go to whoever is there, itself after its restart included.
Crash(c) ==
    /\ \E assignment \in [Partition -> Consumer] :
           Assign({p \in Partition : owner[p] = c}, assignment)
    /\ work' = [work EXCEPT ![c] = Idle]
    /\ UNCHANGED <<log, offset, inbox, effects, dead, spoiled>>

\* The group takes a partition from a consumer that is running.
Rebalance(c) ==
    /\ \E p \in Partition, d \in Consumer \ {c} :
           owner[p] = c /\ Assign({p}, [q \in Partition |-> d])
    /\ UNCHANGED <<log, offset, work, inbox, effects, dead, spoiled>>

ConsumerFault(c) ==
    \/ FailTransiently(c)
    \/ FailToCommitHandler(c)
    \/ FailToWriteDLQ(c)
    \/ FailToCommitOffset(c)
    \/ Crash(c)
    \/ Rebalance(c)
=============================================================================
