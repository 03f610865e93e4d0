--------------------------- MODULE DeliveryInvariant ---------------------------
(***************************************************************************)
(* The inductive invariant of Delivery: what a position in a partition, a  *)
(* message in a consumer's hands, and an id in a relay's batch stand for.  *)
(***************************************************************************)
EXTENDS Delivery

SettledBefore(p, n) == \A i \in 1 .. Len(log[p]) : i < n => Settled(log[p][i])

\* What the group has committed is settled.
OffsetOK ==
    \A p \in Partition : offset[p] <= Len(log[p]) /\ SettledBefore(p, offset[p] + 1)

\* What the owner of a partition has fetched is settled, or it is at it.
CursorOK ==
    \A p \in Partition : \A i \in 1 .. cursor[p] :
        \/ Settled(log[p][i])
        \/ /\ work[owner[p]] # Idle
           /\ work[owner[p]].part = p
           /\ work[owner[p]].at = i

\* A consumer got to its message in order, whoever owns the partition by now.
WorkOK ==
    \A c \in Consumer : work[c] # Idle =>
        /\ SettledBefore(work[c].part, work[c].at)
        /\ work[c].phase = "done" => Settled(MessageOf(c))

\* The unique index: one transaction at most inserts the id of a message.
InsertedOK ==
    \A c \in Consumer : In(c, "inserted") =>
        /\ MessageOf(c) \notin inbox
        /\ \A d \in Consumer : In(d, "inserted") /\ MessageOf(d) = MessageOf(c) => d = c

ConsumerInv ==
    /\ K_TypeOK
    /\ C_TypeOK
    /\ OffsetOK
    /\ CursorOK
    /\ WorkOK
    /\ InsertedOK
    /\ HandledOnce

RelayInv ==
    /\ R_TypeOK
    /\ MarkedWasPublished
    /\ \A r \in Relay : pass[r].sent \subseteq Published

\* Everything that is used to prove that Delivery keeps its promises.
DInv ==
    /\ ConsumerInv
    /\ RelayInv
    /\ L_TypeOK
    /\ faults \in 0 .. MaxFaults
=============================================================================
