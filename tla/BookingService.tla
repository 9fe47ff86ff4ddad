--------------------------- MODULE BookingService ---------------------------
(***************************************************************************)
(* The handlers of BookingService that change shared rows.  Amounts are     *)
(* left out here: recalculateTotal and the discount write only totalAmount. *)
(***************************************************************************)
EXTENDS BookingTables

(* createDraftBooking: the row is committed first, the expiry job is added  *)
(* to the queue by a second call that may never be made.                    *)
CreateDraft(r, b) ==
  /\ status[b] = "NONE"
  /\ Free(r) /\ "createDraftBooking" \in Ops
  /\ status' = [status EXCEPT ![b] = "DRAFT"]
  /\ req' = [req EXCEPT ![r] = [Idle EXCEPT !.op = "createDraftBooking",
                                            !.step = "enqueue", !.booking = b]]
  /\ UNCHANGED <<history, seatVars, payVars, points, voucherVars, queueVars>>

EnqueueExpiry(r) ==
  /\ At(r, "createDraftBooking", "enqueue")
  /\ job' = [job EXCEPT ![req[r].booking] = "delayed"]
  /\ Done(r)
  /\ UNCHANGED <<bookingVars, seatVars, payVars, points, voucherVars, worker>>

(* The check `booking.status !== 'DRAFT'` that three handlers make on a     *)
(* read outside their transaction, with verifyOwnership just before.        *)
ReadDraft(r, b, op) ==
  /\ op \in {"updatePassengers", "selectSeatForPassenger", "applyVoucher"}
  /\ status[b] = "DRAFT"
  /\ Begin(r, op, "commit", b)
  /\ UNCHANGED <<bookingVars, seatVars, payVars, points, voucherVars, queueVars>>

\* Mutant: the seats of the deleted passengers are released.
UpdatePassengers_Releasing(r, N) ==
  LET b == req[r].booking IN
  /\ At(r, "updatePassengers", "commit")
  /\ Unlocked(b)
  /\ \A p \in N : paxOf[p] \in {b, None}
  /\ paxOf' = [p \in Passengers |-> IF p \in N THEN b
                                    ELSE IF paxOf[p] = b THEN None ELSE paxOf[p]]
  /\ paxSeat' = [p \in Passengers |-> IF p \in N \cup PaxOf(b) THEN None
                                                               ELSE paxSeat[p]]
  /\ ReleaseSeats(SeatsOf(b))
  /\ Done(r)
  /\ UNCHANGED <<bookingVars, payVars, points, voucherVars, queueVars>>

(* updatePassengers: every passenger row of the booking is deleted and new  *)
(* rows N are created, with no seat; the seats stay as they are.  The id of *)
(* a deleted row may stand for a new row: no request holds on to one.       *)
UpdatePassengers(r, N) ==
  LET b == req[r].booking IN
  /\ At(r, "updatePassengers", "commit")
  /\ Unlocked(b)
  /\ \A p \in N : paxOf[p] \in {b, None}
  /\ paxOf' = [p \in Passengers |-> IF p \in N THEN b
                                    ELSE IF paxOf[p] = b THEN None ELSE paxOf[p]]
  /\ paxSeat' = [p \in Passengers |-> IF p \in N \cup PaxOf(b) THEN None
                                                               ELSE paxSeat[p]]
  /\ Done(r)
  /\ UNCHANGED <<bookingVars, seat, version, holder, payVars, points, voucherVars,
                 queueVars>>

\* Mutant: the update is conditional on the version only.
SelectSeatForPassenger_VersionOnly(r, p, s, currentVersion) ==
  LET b == req[r].booking IN
  /\ At(r, "selectSeatForPassenger", "commit")
  /\ version[s] = currentVersion
  /\ paxOf[p] = b
  /\ seat' = [seat EXCEPT ![s] = "LOCKED"]
  /\ version' = [version EXCEPT ![s] = @ + 1]
  /\ holder' = [holder EXCEPT ![s] = b]
  /\ paxSeat' = [paxSeat EXCEPT ![p] = s]
  /\ Done(r)
  /\ UNCHANGED <<bookingVars, paxOf, payVars, points, voucherVars, queueVars>>

(* selectSeatForPassenger: lock the seat if it is AVAILABLE at the version  *)
(* the client saw, then give it to the passenger.                           *)
SelectSeatForPassenger(r, p, s, currentVersion) ==
  LET b == req[r].booking IN
  /\ At(r, "selectSeatForPassenger", "commit")
  /\ version[s] = currentVersion
  /\ seat[s] = "AVAILABLE"
  /\ paxOf[p] = b
  /\ seat' = [seat EXCEPT ![s] = "LOCKED"]
  /\ version' = [version EXCEPT ![s] = @ + 1]
  /\ holder' = [holder EXCEPT ![s] = b]
  /\ paxSeat' = [paxSeat EXCEPT ![p] = s]
  /\ Done(r)
  /\ UNCHANGED <<bookingVars, paxOf, payVars, points, voucherVars, queueVars>>

(* applyVoucher: the transaction checks no booking status.  The unique keys *)
(* are (voucherId, bookingId) and (userId, voucherId).                      *)
UsedByOwner(v, b) == \E c \in Bookings : <<v, c>> \in redeemed /\ Owner[c] = Owner[b]
\* Mutant: usedCount is incremented whatever the limit.
ApplyVoucher_NoLimit(r, v) ==
  LET b == req[r].booking IN
  /\ At(r, "applyVoucher", "commit")
  /\ Unlocked(b)
  /\ ~ UsedByOwner(v, b)
  /\ redeemed' = redeemed \cup {<<v, b>>}
  /\ usedCount' = [usedCount EXCEPT ![v] = @ + 1]
  /\ Done(r)
  /\ UNCHANGED <<bookingVars, seatVars, payVars, points, queueVars>>

ApplyVoucher(r, v) ==
  LET b == req[r].booking IN
  /\ At(r, "applyVoucher", "commit")
  /\ Unlocked(b)
  /\ ~ UsedByOwner(v, b)
  /\ UsageLimit[v] > 0 => usedCount[v] < UsageLimit[v]
  /\ redeemed' = redeemed \cup {<<v, b>>}
  /\ usedCount' = [usedCount EXCEPT ![v] = @ + 1]
  /\ Done(r)
  /\ UNCHANGED <<bookingVars, seatVars, payVars, points, queueVars>>

(* updateBookingStatus: its owner may ask for CANCELLED, an admin for any   *)
(* status.  COMPLETED is below.  CONFIRMED reads and commits in one step: a *)
(* payment becomes SUCCESS only together with its booking, so whenever the  *)
(* status allows this call the look at the payment throws.                  *)
UpdateStatus(b, to) ==
  /\ "updateBookingStatus" \in Ops
  /\ UNCHANGED <<paxOf, paxSeat, payVars, points, voucherVars, queueVars, req>>
  /\ IF to = "CONFIRMED"
     THEN Confirm(b, status[b], SeatsOf(b))
     ELSE /\ to # "COMPLETED"
          /\ Transition(b, status[b], to)
          /\ UNCHANGED <<seat, version, holder>>

(* The admin's COMPLETED when the amount is worth no point. *)
CompleteWithoutPoints(b) ==
  /\ "complete" \in Ops
  /\ Transition(b, status[b], "COMPLETED")
  /\ UNCHANGED <<seatVars, payVars, points, voucherVars, queueVars, req>>

(* The admin's COMPLETED otherwise: the outer transaction has updated the   *)
(* booking row and waits for awardPoints, which commits on its own; then    *)
(* the outer one commits, or is rolled back (it is past Prisma's limit, or  *)
(* the connection is lost).  The point row has a foreign key to the booking *)
(* row that the outer transaction keeps locked, so MySQL may well let the   *)
(* points in only after that rollback; which of the two the database picks  *)
(* is left open here.                                                       *)
CompleteBegin(r, b) ==
  /\ CanTransition(status[b], "COMPLETED")
  /\ Unlocked(b)
  /\ points[b] < MaxAwards
  /\ Begin(r, "complete", "award", b)
  /\ UNCHANGED <<bookingVars, seatVars, payVars, points, voucherVars, queueVars>>

AwardPoints(r) ==
  /\ At(r, "complete", "award")
  /\ points' = [points EXCEPT ![req[r].booking] = @ + 1]
  /\ req' = [req EXCEPT ![r].step = "commit"]
  /\ UNCHANGED <<bookingVars, seatVars, payVars, voucherVars, queueVars>>

CompleteCommit(r) ==
  /\ At(r, "complete", "commit")
  /\ SetStatus(req[r].booking, req[r].bs, "COMPLETED")
  /\ Done(r)
  /\ UNCHANGED <<seatVars, payVars, points, voucherVars, queueVars>>

(* Every throw, early return and rollback of an operation in flight: it     *)
(* leaves no trace in the rows.                                             *)
Abort(r) ==
  /\ ~ Free(r)
  /\ Done(r)
  /\ UNCHANGED <<bookingVars, seatVars, payVars, points, voucherVars, queueVars>>
=============================================================================
