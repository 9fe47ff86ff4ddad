------------------------------- MODULE Checkout -------------------------------
(***************************************************************************)
(* What the booking system promises about money, whatever gateways, polls,  *)
(* admins and jobs do: a booking is bought at most once, in the step that   *)
(* takes the money it was asked for, and money that is refused or lapses    *)
(* takes its booking along.  Not promised, because the code does not keep   *)
(* it: a booking may be asked for money again when it has been bought, and  *)
(* late money may overwrite whatever the payment said.                      *)
(***************************************************************************)
CONSTANT Bookings

VARIABLES
  stage,    \* stage[b]: "open", "confirmed" or "over"
  money,    \* money[b]: "none", "asked", "taken", "refused", "lapsed" or "late"
  bought    \* the bookings that have been paid for, at some time

Init ==
  /\ stage = [b \in Bookings |-> "open"]
  /\ money = [b \in Bookings |-> "none"]
  /\ bought = {}

Ask(b) ==
  /\ money' = [money EXCEPT ![b] = "asked"]
  /\ UNCHANGED <<stage, bought>>

Take(b) ==
  /\ stage[b] = "open" /\ money[b] = "asked" /\ b \notin bought
  /\ stage' = [stage EXCEPT ![b] = "confirmed"]
  /\ money' = [money EXCEPT ![b] = "taken"]
  /\ bought' = bought \cup {b}

\* The booking is over with its money, or was so before.
GiveUp(b, word) ==
  /\ stage' = [stage EXCEPT ![b] = "over"]
  /\ money' = [money EXCEPT ![b] = word]
  /\ UNCHANGED bought
Refuse(b) == money[b] = "asked" /\ GiveUp(b, "refused")
Lapse(b) == money[b] \notin {"none", "taken"} /\ GiveUp(b, "lapsed")

Late(b) ==
  /\ money[b] # "none"
  /\ money' = [money EXCEPT ![b] = "late"]
  /\ UNCHANGED <<stage, bought>>

\* Cancelled or completed, whatever became of its money.
Leave(b) ==
  /\ stage' = [stage EXCEPT ![b] = "over"]
  /\ UNCHANGED <<money, bought>>

Next == \E b \in Bookings :
  Ask(b) \/ Take(b) \/ Refuse(b) \/ Lapse(b) \/ Late(b) \/ Leave(b)

Spec == Init /\ [][Next]_<<stage, money, bought>>
=============================================================================
