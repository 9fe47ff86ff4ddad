--------------------------- MODULE PaymentService ---------------------------
(***************************************************************************)
(* The handlers of PaymentService: two ways to start a payment, the two     *)
(* gateways calling back, the status poll of the QR page, refund requests.  *)
(* They call BookingService inside their own transactions.                  *)
(***************************************************************************)
EXTENDS BookingService

(* initiatePayment and initiateSepay: the booking and the payment are read  *)
(* one after the other, both before the transaction.                        *)
InitiateRead(r, b, op) ==
  /\ op \in {"initiatePayment", "initiateSepay"}
  /\ status[b] = "DRAFT"
  /\ Begin(r, op, "readPayment", b)
  /\ UNCHANGED <<bookingVars, seatVars, payVars, points, voucherVars, queueVars>>

ReadExistingPayment(r) ==
  LET ps == payment[req[r].booking].status IN
  /\ req[r].op \in {"initiatePayment", "initiateSepay"} /\ req[r].step = "readPayment"
  /\ ps # "SUCCESS"
  /\ req' = [req EXCEPT ![r].step = "commit", ![r].ps = ps]
  /\ UNCHANGED <<bookingVars, seatVars, payVars, points, voucherVars, queueVars>>

(* The booking goes to PENDING_PAYMENT if it can; if it cannot, the payment *)
(* is written all the same.                                                 *)
ToPendingPayment(b) ==
  IF CanTransition(status[b], "PENDING_PAYMENT")
  THEN Transition(b, status[b], "PENDING_PAYMENT")
  ELSE UNCHANGED bookingVars

\* payment.create: bookingId is unique, and the booking row is its parent.
CreatePayment(b, row) ==
  /\ payment[b].status = "NONE"
  /\ Unlocked(b)
  /\ payment' = [payment EXCEPT ![b] = row]

\* VNPay: an existing row is updated only where it is still PENDING.
CommitInitiatePayment(r) ==
  LET b == req[r].booking IN
  /\ At(r, "initiatePayment", "commit")
  /\ ToPendingPayment(b)
  /\ IF req[r].ps = "NONE"
     THEN CreatePayment(b, [NoPayment EXCEPT !.status = "PENDING", !.url = TRUE])
     ELSE /\ payment[b].status = "PENDING"
          /\ payment' = [payment EXCEPT ![b].url = TRUE]
  /\ Done(r)
  /\ UNCHANGED <<seatVars, refunds, points, voucherVars, queueVars>>

\* SePay: an existing row is made PENDING whatever it has become.
CommitInitiateSepay(r) ==
  LET b == req[r].booking IN
  /\ At(r, "initiateSepay", "commit")
  /\ ToPendingPayment(b)
  /\ IF req[r].ps = "NONE"
     THEN CreatePayment(b, [NoPayment EXCEPT !.status = "PENDING", !.qr = TRUE])
     ELSE payment' = [payment EXCEPT ![b].status = "PENDING", ![b].qr = TRUE,
                                     ![b].expired = FALSE]
  /\ Done(r)
  /\ UNCHANGED <<seatVars, refunds, points, voucherVars, queueVars>>

\* expiredAt passes.
PaymentTimeout(b) ==
  /\ payment[b].qr /\ ~ payment[b].expired
  /\ payment' = [payment EXCEPT ![b].expired = TRUE]
  /\ UNCHANGED <<bookingVars, seatVars, refunds, points, voucherVars, queueVars, req>>

-----------------------------------------------------------------------------
(* The transaction that follows a payment's outcome.  Its snapshot holds    *)
(* the payment with its booking and the seats of the booking's passengers.  *)

Snapshot(r, op, b) ==
  /\ op \in Ops
  /\ req' = [req EXCEPT ![r] = [op |-> op, step |-> "commit", booking |-> b,
                                bs |-> status[b], ps |-> payment[b].status,
                                late |-> payment[b].expired, seats |-> SeatsOf(b)]]
  /\ UNCHANGED <<bookingVars, seatVars, payVars, points, voucherVars, queueVars>>

\* Mutant: payment.update by id, without the status in its where.
SetPayment_AnyStatus(b, from, to) == payment' = [payment EXCEPT ![b].status = to]

SetPayment(b, from, to) ==
  /\ payment[b].status = from
  /\ payment' = [payment EXCEPT ![b].status = to]

\* Mutant: the seats are released even when the booking keeps its status.
CancelAndRelease_Always(r) ==
  LET b == req[r].booking IN
  /\ IF CanTransition(req[r].bs, "CANCELLED")
     THEN Transition(b, req[r].bs, "CANCELLED")
     ELSE UNCHANGED bookingVars
  /\ ReleaseSeats(req[r].seats)

\* Mutant: a booking that changed since the snapshot is left alone, no rollback.
CancelAndRelease_NoConflict(r) ==
  LET b == req[r].booking IN
  IF CanTransition(req[r].bs, "CANCELLED") /\ status[b] = req[r].bs
  THEN Transition(b, req[r].bs, "CANCELLED") /\ ReleaseSeats(req[r].seats)
  ELSE UNCHANGED <<bookingVars, seat, version, holder>>

(* The booking is cancelled and its seats are released if the status in the *)
(* snapshot allows it.                                                      *)
CancelAndRelease(r) ==
  LET b == req[r].booking IN
  IF CanTransition(req[r].bs, "CANCELLED")
  THEN Transition(b, req[r].bs, "CANCELLED") /\ ReleaseSeats(req[r].seats)
  ELSE UNCHANGED <<bookingVars, seat, version, holder>>

\* Mutant: money for a booking that cannot be confirmed is kept.
PaymentSucceeds_Anyway(r) ==
  LET b == req[r].booking IN
  /\ SetPayment(b, "PENDING", "SUCCESS")
  /\ IF CanTransition(req[r].bs, "CONFIRMED")
     THEN Confirm(b, req[r].bs, req[r].seats)
     ELSE UNCHANGED <<bookingVars, seat, version, holder>>

PaymentSucceeds(r) ==
  LET b == req[r].booking IN
  SetPayment(b, "PENDING", "SUCCESS") /\ Confirm(b, req[r].bs, req[r].seats)

PaymentFails(r) ==
  SetPayment(req[r].booking, "PENDING", "FAILED") /\ CancelAndRelease(r)

VnpayCallback(r, b) ==
  /\ Free(r)
  /\ payment[b].url /\ payment[b].status # "SUCCESS"
  /\ Snapshot(r, "vnpayCallback", b)

CommitVnpayCallback(r, responseOk) ==
  /\ At(r, "vnpayCallback", "commit")
  /\ IF responseOk THEN PaymentSucceeds(r) ELSE PaymentFails(r)
  /\ Done(r)
  /\ UNCHANGED <<paxOf, paxSeat, refunds, points, voucherVars, queueVars>>

SepayWebhook(r, b) ==
  /\ Free(r)
  /\ payment[b].qr /\ payment[b].status \notin {"SUCCESS", "LATE_PAYMENT"}
  /\ Snapshot(r, "sepayWebhook", b)

\* Money for a QR code that has expired: unconditional update, refund row.
CommitLatePayment(r) ==
  LET b == req[r].booking IN
  /\ At(r, "sepayWebhook", "commit")
  /\ req[r].ps = "EXPIRED" \/ req[r].late
  /\ refunds[b] < MaxRefunds
  /\ payment' = [payment EXCEPT ![b].status = "LATE_PAYMENT"]
  /\ refunds' = [refunds EXCEPT ![b] = @ + 1]
  /\ Done(r)
  /\ UNCHANGED <<bookingVars, seatVars, points, voucherVars, queueVars>>

CommitSepayWebhook(r, amountOk) ==
  /\ At(r, "sepayWebhook", "commit")
  /\ req[r].ps = "PENDING" /\ ~ req[r].late
  /\ IF amountOk THEN PaymentSucceeds(r) ELSE PaymentFails(r)
  /\ Done(r)
  /\ UNCHANGED <<paxOf, paxSeat, refunds, points, voucherVars, queueVars>>

(* getPaymentStatus: a first read decides that the QR code has expired, the *)
(* transaction reads again and updates without a condition.                 *)
GetPaymentStatus(r, b) ==
  /\ payment[b].status = "PENDING" /\ payment[b].expired
  /\ Begin(r, "getPaymentStatus", "snapshot", b)
  /\ UNCHANGED <<bookingVars, seatVars, payVars, points, voucherVars, queueVars>>

SnapshotPaymentStatus(r) ==
  /\ At(r, "getPaymentStatus", "snapshot")
  /\ payment[req[r].booking].status = "PENDING"
  /\ Snapshot(r, "getPaymentStatus", req[r].booking)

CommitExpiredPayment(r) ==
  /\ At(r, "getPaymentStatus", "commit")
  /\ payment' = [payment EXCEPT ![req[r].booking].status = "EXPIRED"]
  /\ CancelAndRelease(r)
  /\ Done(r)
  /\ UNCHANGED <<paxOf, paxSeat, refunds, points, voucherVars, queueVars>>

\* requestRefund: check for a REQUESTED refund, then create one.
RequestRefund(r, b) ==
  /\ payment[b].status = "SUCCESS" /\ refunds[b] = 0
  /\ Begin(r, "requestRefund", "commit", b)
  /\ UNCHANGED <<bookingVars, seatVars, payVars, points, voucherVars, queueVars>>

CreateRefund(r) ==
  LET b == req[r].booking IN
  /\ At(r, "requestRefund", "commit")
  /\ refunds[b] < MaxRefunds
  /\ refunds' = [refunds EXCEPT ![b] = @ + 1]
  /\ Done(r)
  /\ UNCHANGED <<bookingVars, seatVars, payment, points, voucherVars, queueVars>>
=============================================================================
