----------------------------- MODULE Notification -----------------------------
(***************************************************************************)
(* The notification service (notification/internal): it sends one          *)
(* notification per saga.  One consumer goroutine, one SQL transaction per *)
(* command: the handler is one atomic action, a rollback is not a step.    *)
(***************************************************************************)
EXTENDS Messages

VARIABLE notification \* notification[s] is the status of the row with saga_id = s (UNIQUE), if any

Not_TypeOK == notification \in [Saga -> {"none", "sent", "failed"}]

Not_Init == notification = [s \in Saga |-> "none"]

\* There is a notification for the saga: the command is swallowed, without an
\* event.
AlreadyNotified(m) ==
    /\ notification[m.saga] # "none"
    /\ UNCHANGED <<outbox, notification>>

CreateNotification(m, status, event) ==
    /\ notification[m.saga] = "none"
    /\ notification' = [notification EXCEPT ![m.saga] = status]
    /\ OutboxAppend({NewMessage(event, m.saga, None)})

HandleSendCommand(m) ==
    /\ m \in Deliverable("Send")
    /\ Dedup(m)
    /\ \/ AlreadyNotified(m)
       \/ m.body = "broken" /\ CreateNotification(m, "failed", "NotificationFailed")
       \/ m.body # "broken" /\ CreateNotification(m, "sent", "Sent")

NotificationNext == \E m \in outbox : HandleSendCommand(m)
=============================================================================
