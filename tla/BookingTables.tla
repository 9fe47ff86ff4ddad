--------------------------- MODULE BookingTables ---------------------------
(***************************************************************************)
(* The rows that booking, payment and expiry share (MySQL through Prisma)  *)
(* and the helpers of BookingService that every writer of those rows uses. *)
(*                                                                         *)
(* A request handler is a record in `req`: the operation, the step it has  *)
(* reached and the values it has read so far.  A read made before a        *)
(* transaction is a step of its own.  A transaction is one step, the       *)
(* commit, preceded by a separate snapshot step when a value it reads is   *)
(* used without being checked again by a conditional updateMany.           *)
(***************************************************************************)
EXTENDS Integers, Sequences, FiniteSets

CONSTANTS
  Bookings,     \* ids of the Booking rows that may be created
  Seats,        \* FlightSeat rows
  Passengers,   \* ids of BookingPassenger rows
  Vouchers,     \* Voucher rows
  Owner,        \* Owner[b]: the user who creates booking b
  UsageLimit,   \* UsageLimit[v]: Voucher.usageLimit, 0 standing for NULL
  Requests,     \* HTTP requests in flight at the same time
  ClientVersions, \* the seat versions that clients send
  Ops,          \* the endpoints that are called (a bound of a run)
  MaxRefunds,   \* bound: refund rows per payment
  MaxAwards,    \* bound: point transactions per booking
  None          \* a NULL column

AllOps == {"createDraftBooking", "updatePassengers", "selectSeatForPassenger",
           "applyVoucher", "updateBookingStatus", "complete",
           "initiatePayment", "initiateSepay", "vnpayCallback", "sepayWebhook",
           "getPaymentStatus", "requestRefund"}

ASSUME TablesAssumption ==
  /\ None \notin Bookings \cup Seats
  /\ UsageLimit \in [Vouchers -> Nat]
  /\ Bookings \subseteq DOMAIN Owner
  /\ ClientVersions \subseteq Nat
  /\ Ops \subseteq AllOps
  /\ MaxRefunds \in Nat /\ MaxAwards \in Nat

VARIABLES
  status,       \* Booking.status, "NONE" while the row does not exist
  history,      \* the BookingStatusHistory rows of a booking, oldest first
  paxOf,        \* BookingPassenger.bookingId, None while the row does not exist
  paxSeat,      \* BookingPassenger.seatId
  seat,         \* FlightSeat.status
  version,      \* FlightSeat.version
  holder,       \* history variable: the booking whose request locked the seat
  payment,      \* the Payment row of a booking
  refunds,      \* number of Refund rows with status REQUESTED
  points,       \* number of PointTransaction rows of a booking
  redeemed,     \* VoucherRedemption rows, as pairs of a voucher and a booking
  usedCount,    \* Voucher.usedCount
  job,          \* the booking-expiry job of a booking in the BullMQ queue
  worker,       \* BookingExpiryProcessor, which takes one job at a time
  req           \* the request handlers

seatVars == <<paxOf, paxSeat, seat, version, holder>>
payVars  == <<payment, refunds>>
voucherVars == <<redeemed, usedCount>>
bookingVars == <<status, history>>
queueVars == <<job, worker>>
vars == <<status, history, paxOf, paxSeat, seat, version, holder, payment,
          refunds, points, redeemed, usedCount, job, worker, req>>

BookingStatus == {"DRAFT", "PENDING_PAYMENT", "CONFIRMED", "CANCELLED", "COMPLETED"}
SeatStatus    == {"AVAILABLE", "LOCKED", "BOOKED"}
\* No code of the repository writes REFUNDED, the sixth value of the enum.
PaymentStatus == {"PENDING", "SUCCESS", "FAILED", "EXPIRED", "LATE_PAYMENT"}

(* A payment row: whether the VNPay URL was handed out (so VNPay may call   *)
(* back), whether transferContent and expiredAt are set, and whether        *)
(* expiredAt has passed.                                                    *)
PaymentRow == [status : PaymentStatus \cup {"NONE"}, url : BOOLEAN,
               qr : BOOLEAN, expired : BOOLEAN]
NoPayment == [status |-> "NONE", url |-> FALSE, qr |-> FALSE, expired |-> FALSE]

(* A request in flight.  bs, ps, late and seats are what it has read:       *)
(* booking status, payment status, payment expired, seats of the passengers.*)
Request == [op : AllOps \cup {"idle"},
            step : {"none", "enqueue", "readPayment", "snapshot", "award", "commit"},
            booking : Bookings \cup {None},
            bs : BookingStatus \cup {"NONE"},
            ps : PaymentStatus \cup {"NONE"},
            late : BOOLEAN,
            seats : SUBSET Seats]
Idle == [op |-> "idle", step |-> "none", booking |-> None, bs |-> "NONE",
         ps |-> "NONE", late |-> FALSE, seats |-> {}]

(* The worker: booking None when it waits for a job; retried when the job   *)
(* it runs was found stalled once already.                                  *)
Worker == [booking : Bookings \cup {None}, bs : BookingStatus \cup {"NONE"},
           seats : SUBSET Seats, retried : BOOLEAN]
WorkerIdle == [booking |-> None, bs |-> "NONE", seats |-> {}, retried |-> FALSE]

JobState == {"none", "delayed", "active", "stalled", "done", "failed"}

BookingRows ==
  /\ status \in [Bookings -> BookingStatus \cup {"NONE"}]
  /\ history \in [Bookings -> Seq([from : BookingStatus, to : BookingStatus])]
SeatRows ==
  /\ paxOf \in [Passengers -> Bookings \cup {None}]
  /\ paxSeat \in [Passengers -> Seats \cup {None}]
  /\ seat \in [Seats -> SeatStatus]
  /\ version \in [Seats -> Nat]
  /\ holder \in [Seats -> Bookings \cup {None}]
PaymentRows ==
  /\ payment \in [Bookings -> PaymentRow]
  /\ refunds \in [Bookings -> Nat]
PointRows == points \in [Bookings -> Nat]
VoucherRows ==
  /\ redeemed \subseteq Vouchers \X Bookings
  /\ usedCount \in [Vouchers -> Int]
QueueRows == job \in [Bookings -> JobState] /\ worker \in Worker
RequestRows == req \in [Requests -> Request]

\* Every column of every row, and every request in flight, has its type.
TypeOK == /\ BookingRows /\ SeatRows /\ PaymentRows /\ PointRows
          /\ VoucherRows /\ QueueRows /\ RequestRows

Init ==
  /\ status = [b \in Bookings |-> "NONE"]
  /\ history = [b \in Bookings |-> <<>>]
  /\ paxOf = [p \in Passengers |-> None]
  /\ paxSeat = [p \in Passengers |-> None]
  /\ seat = [s \in Seats |-> "AVAILABLE"]
  /\ version = [s \in Seats |-> 0]
  /\ holder = [s \in Seats |-> None]
  /\ payment = [b \in Bookings |-> NoPayment]
  /\ refunds = [b \in Bookings |-> 0]
  /\ points = [b \in Bookings |-> 0]
  /\ redeemed = {}
  /\ usedCount = [v \in Vouchers |-> 0]
  /\ job = [b \in Bookings |-> "none"]
  /\ worker = WorkerIdle
  /\ req = [r \in Requests |-> Idle]

-----------------------------------------------------------------------------
(* The booking state machine. *)

BOOKING_TRANSITIONS ==
  [DRAFT           |-> {"PENDING_PAYMENT", "CANCELLED"},
   PENDING_PAYMENT |-> {"CONFIRMED", "CANCELLED"},
   CONFIRMED       |-> {"COMPLETED", "CANCELLED"},
   COMPLETED       |-> {},
   CANCELLED       |-> {}]

CanTransition(from, to) ==
  from \in BookingStatus /\ to \in BOOKING_TRANSITIONS[from]

(* Completing a booking keeps its row locked while the points are awarded   *)
(* by a second transaction, so every other writer of the row waits.         *)
Unlocked(b) == \A r \in Requests : req[r].op = "complete" => req[r].booking # b

\* Mutant: the history row is forgotten.
SetStatus_NoHistory(b, from, to) ==
  status' = [status EXCEPT ![b] = to] /\ UNCHANGED history

SetStatus(b, from, to) ==
  /\ status' = [status EXCEPT ![b] = to]
  /\ history' = [history EXCEPT ![b] = Append(@, [from |-> from, to |-> to])]

(* updateBookingStatusWithTx up to the history row: `read` is the status    *)
(* its own findUnique returned, and the updateMany is conditional on it.    *)
Transition(b, read, to) ==
  /\ CanTransition(read, to)
  /\ Unlocked(b)
  /\ status[b] = read
  /\ SetStatus(b, read, to)

-----------------------------------------------------------------------------
(* Seats. *)

PaxOf(b) == {p \in Passengers : paxOf[p] = b}
\* Mutant: the passengers are read without `where: { bookingId }`.
SeatsOf_EveryBooking(b) == {paxSeat[p] : p \in Passengers} \ {None}

SeatsOf(b) == {paxSeat[p] : p \in PaxOf(b)} \ {None}

(* flightSeat.updateMany of the seats of S that are LOCKED. *)
LockedOf(S) == {s \in S : seat[s] = "LOCKED"}
MoveLocked(S, to) ==
  /\ seat' = [s \in Seats |-> IF s \in LockedOf(S) THEN to ELSE seat[s]]
  /\ version' = [s \in Seats |-> IF s \in LockedOf(S) THEN version[s] + 1
                                                      ELSE version[s]]
ReleaseSeats(S) ==
  /\ MoveLocked(S, "AVAILABLE")
  /\ holder' = [s \in Seats |-> IF s \in LockedOf(S) THEN None ELSE holder[s]]
BookSeats(S) == MoveLocked(S, "BOOKED") /\ UNCHANGED holder

\* Mutant: no look at the payment.
Confirm_Unpaid(b, read, seats) == Transition(b, read, "CONFIRMED") /\ BookSeats(seats)

(* The CONFIRMED branch of updateBookingStatusWithTx: `seats` is what its   *)
(* read of the passengers returned.                                         *)
Confirm(b, read, seats) ==
  /\ Transition(b, read, "CONFIRMED")
  /\ payment'[b].status = "SUCCESS"
  /\ BookSeats(seats)

-----------------------------------------------------------------------------
(* Requests. *)

Free(r) == req[r] = Idle
Done(r) == req' = [req EXCEPT ![r] = Idle]
Begin(r, op, step, b) ==
  /\ Free(r) /\ op \in Ops
  /\ req' = [req EXCEPT ![r] = [Idle EXCEPT !.op = op, !.step = step,
                                            !.booking = b, !.bs = status[b]]]
At(r, op, step) == req[r].op = op /\ req[r].step = step
=============================================================================
