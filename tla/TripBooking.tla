---------------------------- MODULE TripBooking -----------------------------
(***************************************************************************)
(* Booking, payment and expiry together: the handlers of all requests in    *)
(* flight, the expiry worker and the clock interleave over the same rows.   *)
(***************************************************************************)
EXTENDS PaymentService, BookingExpiry

ClientStep(r) ==
  \/ \E b \in Bookings : CreateDraft(r, b)
  \/ EnqueueExpiry(r)
  \/ \E b \in Bookings, op \in Ops : ReadDraft(r, b, op)
  \/ \E N \in SUBSET Passengers : UpdatePassengers(r, N)
  \/ \E p \in Passengers, s \in Seats, v \in ClientVersions :
        SelectSeatForPassenger(r, p, s, v)
  \/ \E v \in Vouchers : ApplyVoucher(r, v)
  \/ \E b \in Bookings : CompleteBegin(r, b)
  \/ AwardPoints(r)
  \/ CompleteCommit(r)
  \/ Abort(r)

PaymentStep(r) ==
  \/ \E b \in Bookings, op \in Ops : InitiateRead(r, b, op)
  \/ ReadExistingPayment(r)
  \/ CommitInitiatePayment(r)
  \/ CommitInitiateSepay(r)
  \/ \E b \in Bookings : VnpayCallback(r, b)
  \/ \E ok \in BOOLEAN : CommitVnpayCallback(r, ok)
  \/ \E b \in Bookings : SepayWebhook(r, b)
  \/ CommitLatePayment(r)
  \/ \E ok \in BOOLEAN : CommitSepayWebhook(r, ok)
  \/ \E b \in Bookings : GetPaymentStatus(r, b)
  \/ SnapshotPaymentStatus(r)
  \/ CommitExpiredPayment(r)
  \/ \E b \in Bookings : RequestRefund(r, b)
  \/ CreateRefund(r)

RowStep ==
  \/ \E b \in Bookings, to \in BookingStatus : UpdateStatus(b, to)
  \/ \E b \in Bookings : CompleteWithoutPoints(b)
  \/ \E b \in Bookings : PaymentTimeout(b)

WorkerStep ==
  \/ \E b \in Bookings : TakeJob(b)
  \/ ExpireBooking
  \/ ExpireNothing
  \/ JobFails
  \/ WorkerCrash

Next ==
  \/ \E r \in Requests : ClientStep(r) \/ PaymentStep(r)
  \/ RowStep
  \/ WorkerStep

Spec == Init /\ [][Next]_vars

(* The worker process is kept running (BullMQ), so a due job is taken and   *)
(* the job it runs ends; Prisma's limit of 5 s ends the transaction of a    *)
(* COMPLETED.  Clients, gateways and admins owe the system nothing.         *)
Fairness ==
  /\ \A b \in Bookings : WF_vars(TakeJob(b))
  /\ WF_vars(ExpireBooking \/ ExpireNothing \/ JobFails)
  /\ \A r \in Requests : WF_vars(req[r].op = "complete" /\ Abort(r))

FairSpec == Spec /\ Fairness

-----------------------------------------------------------------------------
(* Seats. *)

Live(b) == status[b] # "CANCELLED"
LivePax == {p \in Passengers : paxOf[p] # None /\ Live(paxOf[p])}

(* No seat is given to two passengers of live bookings, of the same booking *)
(* or of two: conditional seat updates, releases by stale lists of seats    *)
(* (expiry worker, gateway callbacks) and deleted passengers together.      *)
NoDoubleSale ==
  \A p, q \in LivePax : p # q /\ paxSeat[p] # None => paxSeat[p] # paxSeat[q]

(* A passenger of a live booking never has a seat that is for sale or that  *)
(* another booking has locked.                                              *)
LiveSeatIsHeld ==
  \A p \in LivePax :
    paxSeat[p] # None => /\ seat[paxSeat[p]] # "AVAILABLE"
                        /\ holder[paxSeat[p]] = paxOf[p]

(* A list of seats that a callback, a poll or the expiry worker has read    *)
(* and will release or book holds only seats of its own booking, as long as *)
(* the booking has not been cancelled meanwhile.                            *)
OwnSeats(b, S) == b # None /\ Live(b) => \A s \in S : holder[s] = b
StaleListsAreOwn ==
  /\ \A r \in Requests : OwnSeats(req[r].booking, req[r].seats)
  /\ OwnSeats(worker.booking, worker.seats)

(* A seat that is sold, or whose booking has been cancelled, never changes  *)
(* hands again: no stale callback, poll, job or selection frees it or sells *)
(* it a second time.  (So what an owner's cancellation leaves behind, locked *)
(* or booked, stays lost to the flight.)                                    *)
Settled(s) == holder[s] # None /\ (seat[s] = "BOOKED" \/ ~ Live(holder[s]))
SettledSeatsStay ==
  [][\A s \in Seats : Settled(s) => UNCHANGED <<seat[s], holder[s]>>]_vars

(* The seat promises of SeatInventory, step by step. *)
Sold == {s \in Seats : seat[s] = "BOOKED"}
Phase == [b \in Bookings |->
            IF status[b] = "CANCELLED" THEN "cancelled"
            ELSE IF status[b] \in {"CONFIRMED", "COMPLETED"} THEN "confirmed"
            ELSE "open"]
Inventory == INSTANCE SeatInventory WITH
  Nobody <- None, owner <- holder, sold <- Sold, phase <- Phase
SeatsAreInventory == Inventory!Spec

-----------------------------------------------------------------------------
(* Statuses and history. *)

(* Whoever moves a booking (client, admin, gateway, poll, expiry worker,    *)
(* which writes the status directly), it moves along BOOKING_TRANSITIONS.   *)
LegalTransitions ==
  [][\A b \in Bookings : status'[b] # status[b] =>
       \/ status[b] = "NONE" /\ status'[b] = "DRAFT"
       \/ CanTransition(status[b], status'[b])]_vars

(* Every status but the first has its history row: the last row says the    *)
(* status the booking has.                                                  *)
HistoryEndsInStatus ==
  \A b \in Bookings :
    IF status[b] \in {"NONE", "DRAFT"} THEN history[b] = <<>>
    ELSE history[b] # <<>> /\ history[b][Len(history[b])].to = status[b]

WasConfirmed(b) == \E i \in 1..Len(history[b]) : history[b][i].to = "CONFIRMED"

(* A payment that is SUCCESS belongs to a booking that was confirmed: no    *)
(* callback takes the money of a booking that expired or was cancelled      *)
(* before, and none leaves the booking behind as DRAFT or PENDING_PAYMENT.  *)
SuccessMeansConfirmed ==
  \A b \in Bookings : payment[b].status = "SUCCESS" => WasConfirmed(b)

(* A booking is confirmed only by the money for it: in the step that turns  *)
(* its payment from PENDING to SUCCESS.  So an admin, who may ask for       *)
(* CONFIRMED at any moment, never meets a paid booking that waits for it.   *)
ConfirmedByPayment ==
  [][\A b \in Bookings : status[b] # "CONFIRMED" /\ status'[b] = "CONFIRMED"
        => payment[b].status = "PENDING" /\ payment'[b].status = "SUCCESS"]_vars

(* The promises of Checkout about money, step by step: what the history     *)
(* table, the booking and its payment say of each other.                    *)
Stage == [b \in Bookings |->
            IF status[b] \in {"CANCELLED", "COMPLETED"} THEN "over"
            ELSE IF status[b] = "CONFIRMED" THEN "confirmed" ELSE "open"]
WordFor == [NONE |-> "none", PENDING |-> "asked", SUCCESS |-> "taken",
            FAILED |-> "refused", EXPIRED |-> "lapsed", LATE_PAYMENT |-> "late"]
Money == [b \in Bookings |-> WordFor[payment[b].status]]
Bought == {b \in Bookings : WasConfirmed(b)}
Purchase == INSTANCE Checkout WITH stage <- Stage, money <- Money, bought <- Bought
PaymentsAreCheckout == Purchase!Spec

(* Who gives up a payment gives up its booking in the same transaction,     *)
(* whatever happened since its snapshot: a FAILED or EXPIRED payment never  *)
(* belongs to a booking that is still open or CONFIRMED.                    *)
FailedMeansOver ==
  \A b \in Bookings :
    payment[b].status \in {"FAILED", "EXPIRED"} => status[b] \in {"CANCELLED", "COMPLETED"}

-----------------------------------------------------------------------------
(* Vouchers. *)

(* usedCount counts the redemption rows and stays within the limit, through *)
(* concurrent redemptions and the expiry worker giving one back.            *)
VoucherAccounting ==
  \A v \in Vouchers :
    /\ usedCount[v] = Cardinality({b \in Bookings : <<v, b>> \in redeemed})
    /\ UsageLimit[v] > 0 => usedCount[v] <= UsageLimit[v]

-----------------------------------------------------------------------------
(* Expiry. *)

(* A booking whose expiry job is in the queue does not stay unpaid for      *)
(* ever, unless the job itself is lost to a failure.                        *)
Unpaid(b) == status[b] \in {"DRAFT", "PENDING_PAYMENT"}
UnpaidExpires ==
  \A b \in Bookings : job[b] = "delayed" ~> ~ Unpaid(b) \/ job[b] = "failed"

-----------------------------------------------------------------------------
(* What the code, its comments and its messages say and the steps do not    *)
(* keep: each is refuted by a run of its own.                               *)

(* `Cannot confirm booking without successful payment` and `Payment already *)
(* completed for this booking`: a confirmed booking has a payment that is   *)
(* SUCCESS, and keeps it.                                                   *)
ConfirmedIsPaid ==
  \A b \in Bookings : status[b] = "CONFIRMED" => payment[b].status = "SUCCESS"

(* `Transition seats from LOCKED to BOOKED`: the seats of a confirmed       *)
(* booking's passengers are BOOKED.                                         *)
ConfirmedSeatsBooked ==
  \A p \in Passengers :
    paxOf[p] # None /\ paxSeat[p] # None /\ status[paxOf[p]] = "CONFIRMED"
      => seat[paxSeat[p]] = "BOOKED"

(* `expired and cancelled. Seats released.`: the expiry job that cancels a  *)
(* booking leaves no seat locked for it.                                    *)
ExpiryReleasesSeats ==
  [][\A b \in Bookings :
       job[b] = "active" /\ Unpaid(b) /\ job'[b] = "done"
         => \A s \in Seats : holder'[s] # b \/ seat'[s] # "LOCKED"]_vars

(* Points are given for `Booking completion`: when no completion is in      *)
(* flight, a booking has points only if it is COMPLETED, and once.          *)
PointsForCompletion ==
  \A b \in Bookings :
    Unlocked(b) /\ points[b] > 0 => status[b] = "COMPLETED" /\ points[b] = 1
=============================================================================
