----------------------------- MODULE BookingSystem -----------------------------
(***************************************************************************)
(* The whole system: the orchestrator and the three services that work for *)
(* it, joined by the messages in their outboxes.  Each service writes its  *)
(* own tables only.                                                        *)
(***************************************************************************)
EXTENDS Inventory, Payment, Notification, Orchestrator

vars == <<outbox, inbox, seats, reservation, payment, notification, saga, steps, tx, dead>>

TypeOK ==
    /\ M_TypeOK
    /\ Inv_TypeOK
    /\ Pay_TypeOK
    /\ Not_TypeOK
    /\ Orch_TypeOK

Init ==
    /\ M_Init
    /\ Inv_Init
    /\ Pay_Init
    /\ Not_Init
    /\ Orch_Init

InventoryStep    == InventoryNext /\ UNCHANGED <<payment, notification, orchestratorVars>>
PaymentStep      == PaymentNext /\ UNCHANGED <<inventoryVars, notification, orchestratorVars>>
NotificationStep == NotificationNext /\ UNCHANGED <<inventoryVars, payment, orchestratorVars>>
OrchestratorStep == OrchestratorNext /\ UNCHANGED <<inventoryVars, payment, notification>>
SchedulerStep    == ProcessExpired /\ UNCHANGED <<inventoryVars, payment, notification>>

Next == InventoryStep \/ PaymentStep \/ NotificationStep \/ OrchestratorStep

\* Nothing has to happen: any message may be lost, any process may stop.
Spec == Init /\ [][Next]_vars

\* runScheduler ticks for as long as the orchestrator runs; of the rest of the
\* system nothing is assumed, so every message may still be lost.
SchedulerSpec == Spec /\ WF_vars(SchedulerStep)

(***************************************************************************)
(* Safety, whatever is delivered, redelivered, reordered or lost, and      *)
(* however handlers and scheduler interleave.                              *)
(***************************************************************************)
HoldsSeat(s) == reservation[s].status = "reserved"

\* A saga that the client sees as completed was paid for and its customer was
\* told, and the money was not given back: HandleNotificationSent takes the
\* event's word for all of this, whatever the state of the row.
CompletedIsPaidAndTold ==
    \A s \in Saga : saga[s].state = "completed" =>
        payment[s] = "charged" /\ notification[s] = "sent"

\* A saga that is compensated has given its seat back: HandleSeatReleased takes
\* the event's word for it, and a saga that came back to life through a late
\* event meets the same check with a reservation that is gone.
CompensatedHasNoSeat ==
    \A s \in Saga : saga[s].state = "compensated" => reservation[s].status = "released"

\* Money goes back only when the notification failed: no order of late, repeated
\* or re-published messages makes the orchestrator refund a booking whose
\* notification was sent.
RefundOnlyWhenNotificationFailed ==
    \A s \in Saga : payment[s] = "refunded" => notification[s] = "failed"

\* No double booking and no lost seat: a seat is marked reserved exactly when a
\* reservation stands on it, and never two do.  MarkSeatReleased does not look at
\* the seat's status, so a release that was handled twice would free the seat of
\* the saga that reserved it next.
SeatsMatchReservations ==
    \A x \in Seat :
        LET holders == {s \in Saga : HoldsSeat(s) /\ reservation[s].seat = x}
        IN  /\ seats[x] = "reserved" <=> holders # {}
            /\ \A s, t \in holders : s = t

\* What a row says of the seat, of the payment and of the notification is so.
Truthful(s, row) ==
    /\ row.seat # None => reservation[s].status # "none" /\ reservation[s].seat = row.seat
    /\ row.payment => payment[s] \in {"charged", "refunded"}
    /\ row.notification => notification[s] # "none"

\* The ids in the context of every row stand for what the services did, and so do
\* those of every snapshot that a handler is about to write back, however old.
ContextIsTruthful ==
    /\ \A s \in Saga : Truthful(s, saga[s])
    /\ \A c \in Topic : tx[c] # None => Truthful(tx[c].msg.saga, tx[c].row)

Count(type, s) == Cardinality(Emitted(type, s))

\* One business write, one event: however often a command is sent again, under
\* an old id or a new one, the tables and the outboxes of the services agree on
\* what was done, and it was done once.
OneEventPerEffect ==
    \A s \in Saga :
        /\ Count("SeatReserved", s) = IF reservation[s].status = "none" THEN 0 ELSE 1
        /\ Count("SeatReleased", s) = IF reservation[s].status = "released" THEN 1 ELSE 0
        /\ Count("Charged", s) = IF payment[s] \in {"charged", "refunded"} THEN 1 ELSE 0
        /\ Count("PaymentFailed", s) = IF payment[s] = "failed" THEN 1 ELSE 0
        /\ Count("Refunded", s) = IF payment[s] = "refunded" THEN 1 ELSE 0
        /\ Count("Sent", s) = IF notification[s] = "sent" THEN 1 ELSE 0
        /\ Count("NotificationFailed", s) = IF notification[s] = "failed" THEN 1 ELSE 0

\* FindExpired finds a saga by its schedule only: a running saga always has one,
\* whichever stale copy of the row was written last.
RunningIsScheduled ==
    \A s \in Saga : saga[s].state = "running" => saga[s].scheduled

Logged(s, name, direction, status) == NewSagaStep(s, name, direction, status) \in steps

\* The audit log accounts for how a saga ended and for every seat given back.
LogExplainsOutcome ==
    \A s \in Saga :
        /\ saga[s].state = "completed" =>
               \A name \in StepName : Logged(s, name, "forward", "succeeded")
        /\ saga[s].state = "compensated" => Logged(s, "ReserveSeat", "compensate", "succeeded")
        /\ reservation[s].status = "released" =>
               \E name \in StepName : Logged(s, name, "forward", "failed")

\* A message is quarantined only when a stale copy of the row was written over
\* the PaymentID: then the notification failed, the command to refund is never
\* sent and the charge stands.
DeadLetterIsUnrefundedCharge ==
    \A m \in dead : m.type = "NotificationFailed" /\ payment[m.saga] = "charged"

\* What a service did for a saga is done once and undone at most once, however
\* many copies of its commands arrive: a reservation is never made anew, a
\* payment never taken again.
EffectsOnce ==
    \A s \in Saga :
        /\ \/ UNCHANGED reservation[s]
           \/ reservation[s].status = "none" /\ reservation'[s].status = "reserved"
           \/ /\ reservation[s].status = "reserved"
              /\ reservation'[s] = [reservation[s] EXCEPT !.status = "released"]
        /\ \/ UNCHANGED payment[s]
           \/ payment[s] = "none" /\ payment'[s] \in {"charged", "failed"}
           \/ payment[s] = "charged" /\ payment'[s] = "refunded"
        /\ UNCHANGED notification[s] \/ notification[s] = "none"

EffectsHappenOnce == [][EffectsOnce]_vars

\* With a scheduler that keeps ticking no saga runs forever, even if every
\* command and every event is lost: it is escalated after MaxSagaAttempts.
RunningIsResolved ==
    \A s \in Saga : saga[s].state = "running" ~> saga[s].state # "running"

(***************************************************************************)
(* What the repository says of the program and the program does not do.    *)
(* README.md of this project tells the story of each.                      *)
(***************************************************************************)
\* A compensated saga kept no money: its charge, if there was one, was refunded.
CompensatedIsRefunded ==
    \A s \in Saga : saga[s].state = "compensated" => payment[s] # "charged"

\* A completed booking still has its seat.
CompletedHoldsSeat ==
    \A s \in Saga : saga[s].state = "completed" => HoldsSeat(s)

FinalStates == {"completed", "compensated", "failed"}

\* A saga that has ended stays as it ended: a late event does not revive it.  This
\* holds on time only (OnTimeProofs).
StateIsFinal ==
    \A s \in Saga : saga[s].state \in FinalStates => saga'[s].state = saga[s].state

OutcomeIsFinal == [][StateIsFinal]_vars

\* A booking that was completed is not failed by a late event, such as the refusal of
\* a command that was sent again although the saga had its seat.
CompletedStays ==
    \A s \in Saga : saga[s].state = "completed" => saga'[s].state = "completed"

CompletionIsFinal == [][CompletedStays]_vars

\* The event of a failed notification starts the rollback: it is not quarantined while
\* there is a charge to give back.
NotificationFailureIsUndone ==
    \A m \in dead : m.type = "NotificationFailed" => payment[m.saga] # "charged"
=============================================================================
