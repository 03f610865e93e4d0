------------------------------- MODULE MCBooking -------------------------------
(***************************************************************************)
(* Instances of BookingSystem and OnTimeBooking for TLC.                   *)
(***************************************************************************)
EXTENDS OnTimeInvariant, BookingHistory

CONSTANTS
    s1, s2, \* sagas
    x1      \* the seat

\* The second booking competes for the seat and goes no further than to hold it.
SecondStopsAtSeat == saga[s2].step # "ChargePayment"
=============================================================================
