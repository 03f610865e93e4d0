-------------------------------- MODULE Mailbox --------------------------------
(***************************************************************************)
(* What the delivery of messages promises to the handlers, and what module *)
(* Messages takes for granted: a message that was sent stays sent, it may  *)
(* take effect at any time or never, in any order, and at most once.       *)
(***************************************************************************)
EXTENDS Naturals

CONSTANT Message

VARIABLES
    sent, \* messages that were sent
    times \* times[m]: how often m took effect

MailboxInit ==
    /\ sent = {}
    /\ times = [m \in Message |-> 0]

Post(m) ==
    /\ sent' = sent \cup {m}
    /\ UNCHANGED times

TakeEffect(m) ==
    /\ m \in sent
    /\ times[m] = 0
    /\ times' = [times EXCEPT ![m] = 1]
    /\ UNCHANGED sent

MailboxNext == \E m \in Message : Post(m) \/ TakeEffect(m)

MailboxSpec == MailboxInit /\ [][MailboxNext]_<<sent, times>>
=============================================================================
