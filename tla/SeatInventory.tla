--------------------------- MODULE SeatInventory ----------------------------
(***************************************************************************)
(* What the booking system promises about seats, whatever the requests,     *)
(* callbacks and jobs that touch them: a seat is free, held by one booking  *)
(* or sold to one booking.  A booking's hold ends only in the step that     *)
(* cancels that booking, a sale happens only in the step that confirms it,  *)
(* and a sale is for good.  Holds may be left behind (a cancelled booking   *)
(* need not give its seats back): that is the part the code does not        *)
(* promise.                                                                 *)
(***************************************************************************)
CONSTANTS Bookings, Seats, Nobody

VARIABLES
  owner,    \* owner[s]: the booking that holds or has bought seat s
  sold,     \* the seats that are sold
  phase     \* phase[b]: "open", "confirmed" or "cancelled"

Init ==
  /\ owner = [s \in Seats |-> Nobody]
  /\ sold = {}
  /\ phase = [b \in Bookings |-> "open"]

HeldBy(b) == {s \in Seats \ sold : owner[s] = b}

Hold(b, s) ==
  /\ owner[s] = Nobody
  /\ owner' = [owner EXCEPT ![s] = b]
  /\ UNCHANGED <<sold, phase>>

Confirm(b, S) ==
  /\ phase[b] = "open"
  /\ S \subseteq HeldBy(b)
  /\ phase' = [phase EXCEPT ![b] = "confirmed"]
  /\ sold' = sold \cup S
  /\ UNCHANGED owner

Cancel(b, S) ==
  /\ phase[b] # "cancelled"
  /\ S \subseteq HeldBy(b)
  /\ phase' = [phase EXCEPT ![b] = "cancelled"]
  /\ owner' = [s \in Seats |-> IF s \in S THEN Nobody ELSE owner[s]]
  /\ UNCHANGED sold

Next == \E b \in Bookings :
  \/ \E s \in Seats : Hold(b, s)
  \/ \E S \in SUBSET Seats : Confirm(b, S) \/ Cancel(b, S)

Spec == Init /\ [][Next]_<<owner, sold, phase>>
=============================================================================
