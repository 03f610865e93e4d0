------------------------------ MODULE SagaPattern ------------------------------
(***************************************************************************)
(* What the booking saga promises, without messages, handlers or tables:   *)
(* a saga takes the seat, the money and the notice in this order, and      *)
(* either has taken all of them when it is booked, or gives back what it   *)
(* took, last first, and holds nothing when it is rejected.                *)
(***************************************************************************)
EXTENDS Integers

CONSTANT Saga

VARIABLES
    phase, \* phase[s]: where saga s stands
    held   \* held[s]: what saga s holds

Phase == {"none", "forward", "backward", "booked", "rejected"}

\* What a saga holds that took n things and gave none of them back.
Taken(n) ==
    CASE n = 0 -> {}
      [] n = 1 -> {"seat"}
      [] n = 2 -> {"seat", "money"}
      [] n = 3 -> {"seat", "money", "notice"}

Everything == Taken(3)

PatternInit ==
    /\ phase = [s \in Saga |-> "none"]
    /\ held = [s \in Saga |-> Taken(0)]

Move(s, from, to) == phase[s] = from /\ phase' = [phase EXCEPT ![s] = to]

Change(s, from, to) == held[s] = from /\ held' = [held EXCEPT ![s] = to]

Open(s) == Move(s, "none", "forward") /\ UNCHANGED held

Take(s) ==
    /\ phase[s] = "forward"
    /\ \E n \in 1 .. 3 : Change(s, Taken(n - 1), Taken(n))
    /\ UNCHANGED phase

TurnBack(s) ==
    /\ held[s] # Everything
    /\ Move(s, "forward", "backward")
    /\ UNCHANGED held

GiveBack(s) ==
    /\ phase[s] = "backward"
    /\ \E n \in 1 .. 3 : Change(s, Taken(n), Taken(n - 1))
    /\ UNCHANGED phase

Book(s) ==
    /\ held[s] = Everything
    /\ Move(s, "forward", "booked")
    /\ UNCHANGED held

Reject(s) ==
    /\ held[s] = Taken(0)
    /\ Move(s, "forward", "rejected") \/ Move(s, "backward", "rejected")
    /\ UNCHANGED held

Work(s) == Take(s) \/ TurnBack(s) \/ GiveBack(s) \/ Book(s) \/ Reject(s)

PatternNext == \E s \in Saga : Open(s) \/ Work(s)

PatternVars == <<phase, held>>

\* A saga that was opened is worked on until it ends.
PatternSpec ==
    /\ PatternInit
    /\ [][PatternNext]_PatternVars
    /\ \A s \in Saga : WF_PatternVars(Work(s))
=============================================================================
