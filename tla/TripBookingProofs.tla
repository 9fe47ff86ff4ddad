------------------------- MODULE TripBookingProofs --------------------------
(***************************************************************************)
(* Theorems about TripBooking for every set of bookings, seats, passengers, *)
(* vouchers and requests.                                                   *)
(***************************************************************************)
EXTENDS TripBooking, TLAPS

-----------------------------------------------------------------------------
(* Type correctness. *)

(* What TypeOK needs to be inductive: an operation in flight has a booking, *)
(* a completion has read CONFIRMED, and the worker only keeps a booking it  *)
(* has read as unpaid.                                                      *)
InFlight ==
  /\ \A r \in Requests : req[r].op # "idle" => req[r].booking \in Bookings
  /\ \A r \in Requests : req[r].op = "complete" => req[r].bs = "CONFIRMED"
  /\ worker.booking # None => worker.bs \in {"DRAFT", "PENDING_PAYMENT"}

TypeInv == TypeOK /\ InFlight

USE TablesAssumption

(* BOOKING_TRANSITIONS as a list of its edges. *)
LEMMA Edges ==
  ASSUME NEW from, NEW to, CanTransition(from, to)
  PROVE  /\ from \in BookingStatus /\ to \in BookingStatus
         /\ \/ from = "DRAFT" /\ to \in {"PENDING_PAYMENT", "CANCELLED"}
            \/ from = "PENDING_PAYMENT" /\ to \in {"CONFIRMED", "CANCELLED"}
            \/ from = "CONFIRMED" /\ to \in {"COMPLETED", "CANCELLED"}
  BY DEF CanTransition, BOOKING_TRANSITIONS, BookingStatus

LEMMA TypeInit == Init => TypeInv
  <1> SUFFICES ASSUME Init PROVE TypeInv
    OBVIOUS
  <1> USE DEF Init
  <1>1. BookingRows /\ SeatRows /\ PointRows /\ VoucherRows
    BY DEF BookingRows, SeatRows, SeatStatus, PointRows, VoucherRows
  <1>2. PaymentRows
    BY DEF PaymentRows, PaymentRow, NoPayment
  <1>3. QueueRows
    BY DEF QueueRows, Worker, WorkerIdle, JobState
  <1>4. RequestRows
    BY DEF RequestRows, Request, Idle
  <1>5. InFlight
    BY DEF InFlight, Idle, WorkerIdle
  <1> QED  BY <1>1, <1>2, <1>3, <1>4, <1>5 DEF TypeInv, TypeOK

(* Rows that a step leaves alone stay well typed. *)
LEMMA Frame ==
  ASSUME TypeOK
  PROVE  /\ UNCHANGED bookingVars => BookingRows'
         /\ UNCHANGED seatVars => SeatRows'
         /\ UNCHANGED payVars => PaymentRows'
         /\ UNCHANGED points => PointRows'
         /\ UNCHANGED voucherVars => VoucherRows'
         /\ UNCHANGED queueVars => QueueRows'
         /\ UNCHANGED req => RequestRows'
         /\ UNCHANGED <<req, worker>> => (InFlight => InFlight')
  BY DEF TypeOK, BookingRows, SeatRows, PaymentRows, PointRows, VoucherRows, QueueRows,
         RequestRows, InFlight, bookingVars, seatVars, payVars, voucherVars, queueVars

(* A status change with its history row keeps both well typed. *)
LEMMA SetStatusType ==
  ASSUME TypeOK, NEW b \in Bookings, NEW from \in BookingStatus,
         NEW to \in BookingStatus, SetStatus(b, from, to)
  PROVE  BookingRows'
  <1> DEFINE Entry == [from : BookingStatus, to : BookingStatus]
  <1>1. [from |-> from, to |-> to] \in Entry
    OBVIOUS
  <1>2. history \in [Bookings -> Seq(Entry)] /\ history[b] \in Seq(Entry)
    BY DEF TypeOK, BookingRows
  <1>3. status' \in [Bookings -> BookingStatus \cup {"NONE"}]
    BY DEF TypeOK, BookingRows, SetStatus
  <1> HIDE DEF Entry
  <1>4. Append(history[b], [from |-> from, to |-> to]) \in Seq(Entry)
    BY <1>1, <1>2
  <1>5. history' \in [Bookings -> Seq(Entry)]
    BY <1>2, <1>4 DEF SetStatus
  <1> QED  BY <1>3, <1>5 DEF BookingRows, Entry

LEMMA TransitionType ==
  ASSUME TypeOK, NEW b \in Bookings, NEW read, NEW to, Transition(b, read, to)
  PROVE  BookingRows'
  BY SetStatusType, Edges DEF Transition

LEMMA MoveLockedType ==
  ASSUME TypeOK, NEW S, NEW to \in SeatStatus, MoveLocked(S, to)
  PROVE  seat' \in [Seats -> SeatStatus] /\ version' \in [Seats -> Nat]
  BY DEF MoveLocked, LockedOf, TypeOK, SeatRows

LEMMA ReleaseType ==
  ASSUME TypeOK, NEW S, ReleaseSeats(S), UNCHANGED <<paxOf, paxSeat>>
  PROVE  SeatRows'
  <1>1. seat' \in [Seats -> SeatStatus] /\ version' \in [Seats -> Nat]
    BY MoveLockedType DEF ReleaseSeats, SeatStatus
  <1>2. holder' \in [Seats -> Bookings \cup {None}]
    BY DEF ReleaseSeats, TypeOK, SeatRows
  <1> QED  BY <1>1, <1>2 DEF TypeOK, SeatRows

LEMMA ConfirmType ==
  ASSUME TypeOK, NEW b \in Bookings, NEW read, NEW S, Confirm(b, read, S),
         UNCHANGED <<paxOf, paxSeat>>
  PROVE  BookingRows' /\ SeatRows'
  <1>1. seat' \in [Seats -> SeatStatus] /\ version' \in [Seats -> Nat]
    BY MoveLockedType DEF Confirm, BookSeats, SeatStatus
  <1>2. holder' \in [Seats -> Bookings \cup {None}]
    BY DEF Confirm, BookSeats, TypeOK, SeatRows
  <1>3. BookingRows'
    BY TransitionType DEF Confirm
  <1> QED  BY <1>1, <1>2, <1>3 DEF TypeOK, SeatRows

LEMMA SeatsOfType ==
  ASSUME TypeOK, NEW b PROVE SeatsOf(b) \subseteq Seats
  BY DEF SeatsOf, PaxOf, TypeOK, SeatRows

(* Requests: ending, starting and taking a snapshot. *)
LEMMA DoneType ==
  ASSUME TypeInv, NEW r \in Requests, Done(r), UNCHANGED worker
  PROVE  /\ RequestRows' /\ InFlight'
         /\ req'[r] = Idle /\ \A q \in Requests \ {r} : req'[q] = req[q]
  <1>1. req'[r] = Idle /\ \A q \in Requests \ {r} : req'[q] = req[q]
    BY DEF Done, TypeInv, TypeOK, RequestRows
  <1>2. Idle \in Request /\ Idle.op = "idle"
    BY DEF Idle, Request
  <1>3. req' = [req EXCEPT ![r] = Idle]
    BY DEF Done
  <1>4. RequestRows'
    BY <1>2, <1>3 DEF TypeInv, TypeOK, RequestRows
  <1>5. InFlight'
    BY <1>1, <1>2 DEF InFlight, TypeInv
  <1> QED  BY <1>1, <1>4, <1>5

LEMMA BeginType ==
  ASSUME TypeInv, NEW r \in Requests, NEW b \in Bookings, NEW op \in AllOps,
         NEW step \in {"enqueue", "readPayment", "snapshot", "award", "commit"},
         Begin(r, op, step, b), op = "complete" => status[b] = "CONFIRMED",
         UNCHANGED worker
  PROVE  /\ RequestRows' /\ InFlight'
         /\ \A q \in Requests \ {r} : req'[q] = req[q]
         /\ req[r] = Idle
         /\ req'[r].op = op /\ req'[r].booking = b /\ req'[r].bs = status[b]
         /\ req'[r].seats = {}
  <1> DEFINE new == [Idle EXCEPT !.op = op, !.step = step, !.booking = b, !.bs = status[b]]
  <1>1. status[b] \in BookingStatus \cup {"NONE"}
    BY DEF TypeInv, TypeOK, BookingRows
  <1>2. new \in Request
    BY <1>1 DEF Request, Idle
  <1>3. new.op = op /\ new.booking = b /\ new.bs = status[b] /\ new.seats = {}
    BY DEF Idle
  <1>4. req' = [req EXCEPT ![r] = new]
    BY DEF Begin
  <1> HIDE DEF new
  <1>5. RequestRows'
    BY <1>2, <1>4 DEF TypeInv, TypeOK, RequestRows
  <1>6. req'[r] = new /\ \A q \in Requests \ {r} : req'[q] = req[q]
    BY <1>4 DEF TypeInv, TypeOK, RequestRows
  <1>7. InFlight'
    BY <1>3, <1>6 DEF InFlight, TypeInv
  <1> QED  BY <1>3, <1>5, <1>6, <1>7 DEF Begin, Free

LEMMA SnapshotType ==
  ASSUME TypeInv, NEW r \in Requests, NEW b \in Bookings, NEW op, op # "complete",
         Snapshot(r, op, b)
  PROVE  /\ TypeInv'
         /\ \A q \in Requests \ {r} : req'[q] = req[q]
         /\ req'[r].op = op /\ req'[r].booking = b /\ req'[r].seats = SeatsOf(b)
  <1> DEFINE new == [op |-> op, step |-> "commit", booking |-> b,
                     bs |-> status[b], ps |-> payment[b].status,
                     late |-> payment[b].expired, seats |-> SeatsOf(b)]
  <1>1. op \in AllOps /\ status[b] \in BookingStatus \cup {"NONE"}
    BY DEF Snapshot, TypeInv, TypeOK, BookingRows
  <1>2. payment[b].status \in PaymentStatus \cup {"NONE"} /\ payment[b].expired \in BOOLEAN
    BY DEF TypeInv, TypeOK, PaymentRows, PaymentRow
  <1>3. new \in Request
    BY <1>1, <1>2, SeatsOfType DEF Request, TypeInv
  <1>4. new.op = op /\ new.booking = b /\ new.seats = SeatsOf(b)
    OBVIOUS
  <1>5. req' = [req EXCEPT ![r] = new]
    BY DEF Snapshot
  <1> HIDE DEF new
  <1>6. RequestRows'
    BY <1>3, <1>5 DEF TypeInv, TypeOK, RequestRows
  <1>7. req'[r] = new /\ \A q \in Requests \ {r} : req'[q] = req[q]
    BY <1>5 DEF TypeInv, TypeOK, RequestRows
  <1>8. UNCHANGED <<bookingVars, seatVars, payVars, points, voucherVars, queueVars>>
    BY DEF Snapshot
  <1>9. InFlight'
    BY <1>4, <1>7, <1>8 DEF InFlight, TypeInv, queueVars
  <1>10. TypeOK'
    BY <1>6, <1>8, Frame DEF TypeOK, TypeInv
  <1> QED  BY <1>4, <1>7, <1>9, <1>10 DEF TypeInv

-----------------------------------------------------------------------------
LEMMA ClientType ==
  ASSUME TypeInv, NEW r \in Requests, ClientStep(r)
  PROVE  TypeInv'
  <1>a. TypeOK /\ InFlight
    BY DEF TypeInv
  <1> USE DEF queueVars
  <1>1. ASSUME NEW b \in Bookings, CreateDraft(r, b)  PROVE TypeInv'
    <2> DEFINE new == [Idle EXCEPT !.op = "createDraftBooking", !.step = "enqueue",
                                   !.booking = b]
    <2>1. new \in Request /\ new.op = "createDraftBooking" /\ new.booking = b
      BY DEF Request, Idle, AllOps
    <2>2. req' = [req EXCEPT ![r] = new]
      BY <1>1 DEF CreateDraft
    <2> HIDE DEF new
    <2>3. RequestRows'
      BY <1>a, <2>1, <2>2 DEF TypeOK, RequestRows
    <2>4. InFlight'
      BY <1>1, <1>a, <2>1, <2>2 DEF InFlight, CreateDraft, TypeOK, RequestRows
    <2>5. BookingRows'
      BY <1>1, <1>a DEF CreateDraft, TypeOK, BookingRows, BookingStatus
    <2> QED  BY <1>1, <1>a, <2>3, <2>4, <2>5, Frame DEF CreateDraft, TypeInv, TypeOK
  <1>2. ASSUME EnqueueExpiry(r)  PROVE TypeInv'
    <2>1. req[r].booking \in Bookings /\ Done(r) /\ UNCHANGED worker
      BY <1>2, <1>a DEF EnqueueExpiry, At, InFlight
    <2>2. QueueRows'
      BY <1>2, <1>a, <2>1 DEF EnqueueExpiry, TypeOK, QueueRows, JobState
    <2> QED
      BY <1>2, <1>a, <2>1, <2>2, DoneType, Frame DEF EnqueueExpiry, TypeInv, TypeOK
  <1>3. ASSUME NEW b \in Bookings, NEW op \in Ops, ReadDraft(r, b, op)  PROVE TypeInv'
    <2>1. op \in AllOps /\ op # "complete" /\ Begin(r, op, "commit", b) /\ UNCHANGED worker
      BY <1>3 DEF ReadDraft, AllOps
    <2>2. RequestRows' /\ InFlight'
      BY <2>1, BeginType
    <2> QED
      BY <1>3, <1>a, <2>2, Frame DEF ReadDraft, TypeInv, TypeOK
  <1>4. ASSUME NEW N \in SUBSET Passengers, UpdatePassengers(r, N)  PROVE TypeInv'
    <2>1. req[r].booking \in Bookings /\ Done(r) /\ UNCHANGED worker
      BY <1>4, <1>a DEF UpdatePassengers, At, InFlight
    <2>2. SeatRows'
      BY <1>4, <1>a, <2>1 DEF UpdatePassengers, TypeOK, SeatRows
    <2> QED
      BY <1>4, <1>a, <2>1, <2>2, DoneType, Frame DEF UpdatePassengers, TypeInv, TypeOK
  <1>5. ASSUME NEW p \in Passengers, NEW s \in Seats, NEW v \in ClientVersions,
               SelectSeatForPassenger(r, p, s, v)
        PROVE  TypeInv'
    <2>1. req[r].booking \in Bookings /\ Done(r) /\ UNCHANGED worker
      BY <1>5, <1>a DEF SelectSeatForPassenger, At, InFlight
    <2>2. SeatRows'
      BY <1>5, <1>a, <2>1 DEF SelectSeatForPassenger, TypeOK, SeatRows, SeatStatus
    <2> QED
      BY <1>5, <1>a, <2>1, <2>2, DoneType, Frame DEF SelectSeatForPassenger, TypeInv, TypeOK
  <1>6. ASSUME NEW v \in Vouchers, ApplyVoucher(r, v)  PROVE TypeInv'
    <2>1. req[r].booking \in Bookings /\ Done(r) /\ UNCHANGED worker
      BY <1>6, <1>a DEF ApplyVoucher, At, InFlight
    <2>2. VoucherRows'
      BY <1>6, <1>a, <2>1 DEF ApplyVoucher, TypeOK, VoucherRows
    <2> QED
      BY <1>6, <1>a, <2>1, <2>2, DoneType, Frame DEF ApplyVoucher, TypeInv, TypeOK
  <1>7. ASSUME NEW b \in Bookings, CompleteBegin(r, b)  PROVE TypeInv'
    <2>1. status[b] = "CONFIRMED" /\ Begin(r, "complete", "award", b) /\ UNCHANGED worker
      BY <1>7, Edges DEF CompleteBegin
    <2>2. RequestRows' /\ InFlight'
      BY <2>1, BeginType DEF AllOps
    <2> QED
      BY <1>7, <1>a, <2>2, Frame DEF CompleteBegin, TypeInv, TypeOK
  <1>8. ASSUME AwardPoints(r)  PROVE TypeInv'
    <2>1. req[r].booking \in Bookings
      BY <1>8, <1>a DEF AwardPoints, At, InFlight
    <2>2. PointRows'
      BY <1>8, <1>a, <2>1 DEF AwardPoints, TypeOK, PointRows
    <2> DEFINE new == [req[r] EXCEPT !.step = "commit"]
    <2>a. req \in [Requests -> Request] /\ req' = [req EXCEPT ![r] = new]
      BY <1>8, <1>a DEF AwardPoints, TypeOK, RequestRows
    <2>b. /\ new \in Request /\ new.op = req[r].op /\ new.bs = req[r].bs
          /\ new.booking = req[r].booking
      BY <2>a DEF Request
    <2> HIDE DEF new
    <2>3. RequestRows'
      BY <2>a, <2>b DEF RequestRows
    <2>4. \A q \in Requests : /\ req'[q].op = req[q].op /\ req'[q].bs = req[q].bs
                             /\ req'[q].booking = req[q].booking
      BY <2>a, <2>b
    <2>5. InFlight'
      BY <1>8, <1>a, <2>4 DEF AwardPoints, InFlight
    <2> QED
      BY <1>8, <1>a, <2>2, <2>3, <2>5, Frame DEF AwardPoints, TypeInv, TypeOK
  <1>9. ASSUME CompleteCommit(r)  PROVE TypeInv'
    <2>1. /\ req[r].booking \in Bookings /\ req[r].bs = "CONFIRMED"
          /\ Done(r) /\ UNCHANGED worker
      BY <1>9, <1>a DEF CompleteCommit, At, InFlight
    <2>2. BookingRows'
      BY <1>9, <1>a, <2>1, SetStatusType DEF CompleteCommit, BookingStatus
    <2> QED
      BY <1>9, <1>a, <2>1, <2>2, DoneType, Frame DEF CompleteCommit, TypeInv, TypeOK
  <1>10. ASSUME Abort(r)  PROVE TypeInv'
    BY <1>10, <1>a, DoneType, Frame DEF Abort, TypeInv, TypeOK
  <1> QED
    BY <1>1, <1>2, <1>3, <1>4, <1>5, <1>6, <1>7, <1>8, <1>9, <1>10 DEF ClientStep

(* The seats and statuses that a failed payment or an expired one leaves. *)
LEMMA CancelAndReleaseType ==
  ASSUME TypeInv, NEW r \in Requests, req[r].op # "idle", CancelAndRelease(r),
         UNCHANGED <<paxOf, paxSeat>>
  PROVE  BookingRows' /\ SeatRows'
  <1>1. req[r].booking \in Bookings /\ TypeOK
    BY DEF TypeInv, InFlight
  <1>2. CASE CanTransition(req[r].bs, "CANCELLED")
    BY <1>1, <1>2, TransitionType, ReleaseType DEF CancelAndRelease
  <1>3. CASE ~ CanTransition(req[r].bs, "CANCELLED")
    BY <1>1, <1>3, Frame DEF CancelAndRelease, seatVars
  <1> QED  BY <1>2, <1>3

LEMMA SetPaymentType ==
  ASSUME TypeInv, NEW b \in Bookings, NEW to \in PaymentStatus, UNCHANGED refunds,
         payment' = [payment EXCEPT ![b].status = to]
  PROVE  PaymentRows'
  BY DEF TypeInv, TypeOK, PaymentRows, PaymentRow

LEMMA PaymentSucceedsType ==
  ASSUME TypeInv, NEW r \in Requests, req[r].op # "idle", PaymentSucceeds(r),
         UNCHANGED <<paxOf, paxSeat, refunds>>
  PROVE  BookingRows' /\ SeatRows' /\ PaymentRows'
  <1>1. req[r].booking \in Bookings /\ TypeOK
    BY DEF TypeInv, InFlight
  <1>2. BookingRows' /\ SeatRows'
    BY <1>1, ConfirmType DEF PaymentSucceeds
  <1>3. PaymentRows'
    BY <1>1, SetPaymentType DEF PaymentSucceeds, SetPayment, PaymentStatus
  <1> QED  BY <1>2, <1>3

LEMMA PaymentFailsType ==
  ASSUME TypeInv, NEW r \in Requests, req[r].op # "idle", PaymentFails(r),
         UNCHANGED <<paxOf, paxSeat, refunds>>
  PROVE  BookingRows' /\ SeatRows' /\ PaymentRows'
  <1>1. req[r].booking \in Bookings
    BY DEF TypeInv, InFlight
  <1>2. BookingRows' /\ SeatRows'
    BY CancelAndReleaseType DEF PaymentFails
  <1>3. PaymentRows'
    BY <1>1, SetPaymentType DEF PaymentFails, SetPayment, PaymentStatus
  <1> QED  BY <1>2, <1>3

LEMMA ToPendingType ==
  ASSUME TypeOK, NEW b \in Bookings, ToPendingPayment(b)
  PROVE  BookingRows'
  BY TransitionType, Frame DEF ToPendingPayment

LEMMA CreatePaymentType ==
  ASSUME TypeOK, NEW b \in Bookings, NEW row \in PaymentRow, CreatePayment(b, row),
         UNCHANGED refunds
  PROVE  PaymentRows'
  BY DEF CreatePayment, TypeOK, PaymentRows

LEMMA PaymentType ==
  ASSUME TypeInv, NEW r \in Requests, PaymentStep(r)
  PROVE  TypeInv'
  <1>a. TypeOK /\ InFlight
    BY DEF TypeInv
  <1> USE DEF queueVars
  <1>1. ASSUME NEW b \in Bookings, NEW op \in Ops, InitiateRead(r, b, op)  PROVE TypeInv'
    <2>1. /\ op \in AllOps /\ op # "complete" /\ Begin(r, op, "readPayment", b)
          /\ UNCHANGED worker
      BY <1>1 DEF InitiateRead, AllOps
    <2>2. RequestRows' /\ InFlight'
      BY <2>1, BeginType
    <2> QED
      BY <1>1, <1>a, <2>2, Frame DEF InitiateRead, TypeInv, TypeOK
  <1>2. ASSUME ReadExistingPayment(r)  PROVE TypeInv'
    <2>1. req[r].booking \in Bookings /\ req[r] \in Request /\ req[r].op # "complete"
      BY <1>2, <1>a DEF ReadExistingPayment, InFlight, TypeOK, RequestRows
    <2> DEFINE new == [req[r] EXCEPT !.step = "commit",
                                     !.ps = payment[req[r].booking].status]
    <2>2. payment[req[r].booking].status \in PaymentStatus \cup {"NONE"}
      BY <1>a, <2>1 DEF TypeOK, PaymentRows, PaymentRow
    <2>3. /\ new \in Request
          /\ new.op = req[r].op /\ new.booking = req[r].booking
      BY <2>1, <2>2 DEF Request
    <2>4. req' = [req EXCEPT ![r] = new]
      BY <1>2 DEF ReadExistingPayment
    <2> HIDE DEF new
    <2>5. RequestRows'
      BY <1>a, <2>3, <2>4 DEF TypeOK, RequestRows
    <2>6. InFlight'
      BY <1>2, <1>a, <2>1, <2>3, <2>4
      DEF ReadExistingPayment, InFlight, TypeOK, RequestRows
    <2> QED
      BY <1>2, <1>a, <2>5, <2>6, Frame DEF ReadExistingPayment, TypeInv, TypeOK
  <1>3. ASSUME CommitInitiatePayment(r)  PROVE TypeInv'
    <2>1. req[r].booking \in Bookings /\ Done(r) /\ UNCHANGED worker
      BY <1>3, <1>a DEF CommitInitiatePayment, At, InFlight
    <2>2. [NoPayment EXCEPT !.status = "PENDING", !.url = TRUE] \in PaymentRow
      BY DEF NoPayment, PaymentRow, PaymentStatus
    <2>3. PaymentRows'
      <3>1. CASE req[r].ps = "NONE"
        BY <1>3, <1>a, <2>1, <2>2, <3>1, CreatePaymentType DEF CommitInitiatePayment
      <3>2. CASE req[r].ps # "NONE"
        <4>1. payment' = [payment EXCEPT ![req[r].booking].url = TRUE] /\ UNCHANGED refunds
          BY <1>3, <3>2 DEF CommitInitiatePayment
        <4>2. payment[req[r].booking] \in PaymentRow
          BY <1>a, <2>1 DEF TypeOK, PaymentRows
        <4>3. [payment[req[r].booking] EXCEPT !.url = TRUE] \in PaymentRow
          BY <4>2 DEF PaymentRow
        <4> QED  BY <1>a, <4>1, <4>3 DEF TypeOK, PaymentRows
      <3> QED  BY <3>1, <3>2
    <2>4. BookingRows'
      BY <1>3, <1>a, <2>1, ToPendingType DEF CommitInitiatePayment
    <2> QED
      BY <1>3, <1>a, <2>1, <2>3, <2>4, DoneType, Frame
      DEF CommitInitiatePayment, TypeInv, TypeOK
  <1>4. ASSUME CommitInitiateSepay(r)  PROVE TypeInv'
    <2>1. req[r].booking \in Bookings /\ Done(r) /\ UNCHANGED worker
      BY <1>4, <1>a DEF CommitInitiateSepay, At, InFlight
    <2>2. [NoPayment EXCEPT !.status = "PENDING", !.qr = TRUE] \in PaymentRow
      BY DEF NoPayment, PaymentRow, PaymentStatus
    <2>3. PaymentRows'
      <3>1. CASE req[r].ps = "NONE"
        BY <1>4, <1>a, <2>1, <2>2, <3>1, CreatePaymentType DEF CommitInitiateSepay
      <3>2. CASE req[r].ps # "NONE"
        BY <1>4, <1>a, <2>1, <3>2
        DEF CommitInitiateSepay, TypeOK, PaymentRows, PaymentRow, PaymentStatus
      <3> QED  BY <3>1, <3>2
    <2>4. BookingRows'
      BY <1>4, <1>a, <2>1, ToPendingType DEF CommitInitiateSepay
    <2> QED
      BY <1>4, <1>a, <2>1, <2>3, <2>4, DoneType, Frame
      DEF CommitInitiateSepay, TypeInv, TypeOK
  <1>5. ASSUME NEW b \in Bookings, VnpayCallback(r, b)  PROVE TypeInv'
    BY <1>5, SnapshotType DEF VnpayCallback
  <1>6. ASSUME NEW ok \in BOOLEAN, CommitVnpayCallback(r, ok)  PROVE TypeInv'
    <2>1. req[r].op # "idle" /\ Done(r) /\ UNCHANGED worker
      BY <1>6 DEF CommitVnpayCallback, At
    <2>2. BookingRows' /\ SeatRows' /\ PaymentRows'
      BY <1>6, <2>1, PaymentSucceedsType, PaymentFailsType DEF CommitVnpayCallback
    <2> QED
      BY <1>6, <1>a, <2>1, <2>2, DoneType, Frame DEF CommitVnpayCallback, TypeInv, TypeOK
  <1>7. ASSUME NEW b \in Bookings, SepayWebhook(r, b)  PROVE TypeInv'
    BY <1>7, SnapshotType DEF SepayWebhook
  <1>8. ASSUME CommitLatePayment(r)  PROVE TypeInv'
    <2>1. req[r].booking \in Bookings /\ Done(r) /\ UNCHANGED worker
      BY <1>8, <1>a DEF CommitLatePayment, At, InFlight
    <2>2. PaymentRows'
      BY <1>8, <1>a, <2>1
      DEF CommitLatePayment, TypeOK, PaymentRows, PaymentRow, PaymentStatus
    <2> QED
      BY <1>8, <1>a, <2>1, <2>2, DoneType, Frame DEF CommitLatePayment, TypeInv, TypeOK
  <1>9. ASSUME NEW ok \in BOOLEAN, CommitSepayWebhook(r, ok)  PROVE TypeInv'
    <2>1. req[r].op # "idle" /\ Done(r) /\ UNCHANGED worker
      BY <1>9 DEF CommitSepayWebhook, At
    <2>2. BookingRows' /\ SeatRows' /\ PaymentRows'
      BY <1>9, <2>1, PaymentSucceedsType, PaymentFailsType DEF CommitSepayWebhook
    <2> QED
      BY <1>9, <1>a, <2>1, <2>2, DoneType, Frame DEF CommitSepayWebhook, TypeInv, TypeOK
  <1>10. ASSUME NEW b \in Bookings, GetPaymentStatus(r, b)  PROVE TypeInv'
    <2>1. Begin(r, "getPaymentStatus", "snapshot", b) /\ UNCHANGED worker
      BY <1>10 DEF GetPaymentStatus
    <2>2. RequestRows' /\ InFlight'
      BY <2>1, BeginType DEF AllOps
    <2> QED
      BY <1>10, <1>a, <2>2, Frame DEF GetPaymentStatus, TypeInv, TypeOK
  <1>11. ASSUME SnapshotPaymentStatus(r)  PROVE TypeInv'
    <2>1. req[r].booking \in Bookings
      BY <1>11, <1>a DEF SnapshotPaymentStatus, At, InFlight
    <2> QED
      BY <1>11, <2>1, SnapshotType DEF SnapshotPaymentStatus
  <1>12. ASSUME CommitExpiredPayment(r)  PROVE TypeInv'
    <2>1. /\ req[r].op # "idle" /\ req[r].booking \in Bookings
          /\ Done(r) /\ UNCHANGED worker
      BY <1>12, <1>a DEF CommitExpiredPayment, At, InFlight
    <2>2. BookingRows' /\ SeatRows'
      BY <1>12, <2>1, CancelAndReleaseType DEF CommitExpiredPayment
    <2>3. PaymentRows'
      BY <1>12, <2>1, SetPaymentType DEF CommitExpiredPayment, PaymentStatus
    <2> QED
      BY <1>12, <1>a, <2>1, <2>2, <2>3, DoneType, Frame
      DEF CommitExpiredPayment, TypeInv, TypeOK
  <1>13. ASSUME NEW b \in Bookings, RequestRefund(r, b)  PROVE TypeInv'
    <2>1. Begin(r, "requestRefund", "commit", b) /\ UNCHANGED worker
      BY <1>13 DEF RequestRefund
    <2>2. RequestRows' /\ InFlight'
      BY <2>1, BeginType DEF AllOps
    <2> QED
      BY <1>13, <1>a, <2>2, Frame DEF RequestRefund, TypeInv, TypeOK
  <1>14. ASSUME CreateRefund(r)  PROVE TypeInv'
    <2>1. req[r].booking \in Bookings /\ Done(r) /\ UNCHANGED worker
      BY <1>14, <1>a DEF CreateRefund, At, InFlight
    <2>2. PaymentRows'
      BY <1>14, <1>a, <2>1 DEF CreateRefund, TypeOK, PaymentRows
    <2> QED
      BY <1>14, <1>a, <2>1, <2>2, DoneType, Frame DEF CreateRefund, TypeInv, TypeOK
  <1> QED
    BY <1>1, <1>2, <1>3, <1>4, <1>5, <1>6, <1>7, <1>8, <1>9, <1>10, <1>11, <1>12,
       <1>13, <1>14
    DEF PaymentStep

LEMMA RowType ==
  ASSUME TypeInv, RowStep
  PROVE  TypeInv'
  <1>a. TypeOK /\ InFlight
    BY DEF TypeInv
  <1> USE DEF queueVars
  <1>1. ASSUME NEW b \in Bookings, NEW to \in BookingStatus, UpdateStatus(b, to)
        PROVE  TypeInv'
    <2>1. BookingRows' /\ SeatRows'
      <3>1. CASE to = "CONFIRMED"
        BY <1>1, <1>a, <3>1, ConfirmType DEF UpdateStatus
      <3>2. CASE to # "CONFIRMED"
        BY <1>1, <1>a, <3>2, TransitionType, Frame DEF UpdateStatus, seatVars
      <3> QED  BY <3>1, <3>2
    <2> QED
      BY <1>1, <1>a, <2>1, Frame DEF UpdateStatus, TypeInv, TypeOK
  <1>2. ASSUME NEW b \in Bookings, CompleteWithoutPoints(b)  PROVE TypeInv'
    BY <1>2, <1>a, TransitionType, Frame DEF CompleteWithoutPoints, TypeInv, TypeOK
  <1>3. ASSUME NEW b \in Bookings, PaymentTimeout(b)  PROVE TypeInv'
    <2>1. PaymentRows'
      BY <1>3, <1>a DEF PaymentTimeout, TypeOK, PaymentRows, PaymentRow
    <2> QED
      BY <1>3, <1>a, <2>1, Frame DEF PaymentTimeout, TypeInv, TypeOK
  <1> QED  BY <1>1, <1>2, <1>3 DEF RowStep

LEMMA WorkerType ==
  ASSUME TypeInv, WorkerStep
  PROVE  TypeInv'
  <1>a. TypeOK /\ InFlight
    BY DEF TypeInv
  <1>b. WorkerIdle \in Worker /\ WorkerIdle.booking = None
    BY DEF WorkerIdle, Worker
  <1>c. worker.booking # None =>
          worker.booking \in Bookings /\ worker.bs \in {"DRAFT", "PENDING_PAYMENT"}
    BY <1>a DEF TypeOK, QueueRows, Worker, InFlight
  \* The four steps that end the worker's job.
  <1>d. ASSUME worker.booking # None, UNCHANGED req, worker' = WorkerIdle,
               NEW j \in JobState, job' = [job EXCEPT ![worker.booking] = j]
        PROVE  QueueRows' /\ RequestRows' /\ InFlight'
    <2>1. QueueRows'
      BY <1>a, <1>b, <1>d DEF TypeOK, QueueRows
    <2>2. RequestRows' /\ InFlight'
      BY <1>a, <1>b, <1>d DEF TypeOK, RequestRows, InFlight
    <2> QED  BY <2>1, <2>2
  <1>1. ASSUME NEW b \in Bookings, TakeJob(b)  PROVE TypeInv'
    <2>1. [booking |-> b, bs |-> status[b], seats |-> SeatsOf(b),
           retried |-> job[b] = "stalled"] \in Worker
      BY <1>a, SeatsOfType DEF Worker, TypeOK, BookingRows
    <2>2. QueueRows'
      BY <1>1, <1>a, <2>1 DEF TakeJob, TypeOK, QueueRows, JobState
    <2>3. InFlight'
      BY <1>1, <1>a DEF TakeJob, InFlight
    <2> QED
      BY <1>1, <1>a, <2>2, <2>3, Frame DEF TakeJob, TypeInv, TypeOK
  <1>2. ASSUME ExpireBooking  PROVE TypeInv'
    <2>1. worker.booking \in Bookings /\ worker.bs \in BookingStatus
      BY <1>2, <1>c DEF ExpireBooking, BookingStatus
    <2>2. BookingRows'
      BY <1>2, <1>a, <2>1, SetStatusType DEF ExpireBooking, BookingStatus
    <2>3. SeatRows'
      BY <1>2, <1>a, ReleaseType DEF ExpireBooking
    <2>4. VoucherRows'
      <3>1. redeemed \subseteq Vouchers \X Bookings /\ usedCount \in [Vouchers -> Int]
        BY <1>a DEF TypeOK, VoucherRows
      <3>2. CASE UNCHANGED voucherVars
        BY <1>a, <3>2, Frame
      <3>3. ASSUME NEW v \in Vouchers, redeemed' = redeemed \ {<<v, worker.booking>>},
                   usedCount' = [usedCount EXCEPT ![v] = @ - 1]
            PROVE  VoucherRows'
        BY <3>1, <3>3 DEF VoucherRows
      <3> QED
        BY <1>2, <3>2, <3>3 DEF ExpireBooking, ReleaseOneRedemption
    <2>5. QueueRows' /\ RequestRows' /\ InFlight'
      BY <1>2, <1>d DEF ExpireBooking, JobState
    <2> QED
      BY <1>2, <1>a, <2>2, <2>3, <2>4, <2>5, Frame DEF ExpireBooking, TypeInv, TypeOK
  <1>3. ASSUME ExpireNothing  PROVE TypeInv'
    BY <1>3, <1>a, <1>d, Frame DEF ExpireNothing, JobState, TypeInv, TypeOK
  <1>4. ASSUME JobFails  PROVE TypeInv'
    BY <1>4, <1>a, <1>d, Frame DEF JobFails, JobState, TypeInv, TypeOK
  <1>5. ASSUME WorkerCrash  PROVE TypeInv'
    BY <1>5, <1>a, <1>d, Frame DEF WorkerCrash, JobState, TypeInv, TypeOK
  <1> QED  BY <1>1, <1>2, <1>3, <1>4, <1>5 DEF WorkerStep

LEMMA TypeStep == TypeInv /\ [Next]_vars => TypeInv'
  <1> SUFFICES ASSUME TypeInv, [Next]_vars PROVE TypeInv'
    OBVIOUS
  <1>1. CASE Next
    BY <1>1, ClientType, PaymentType, RowType, WorkerType DEF Next
  <1>2. CASE UNCHANGED vars
    BY <1>2, Frame
    DEF vars, TypeInv, TypeOK, bookingVars, seatVars, payVars, voucherVars, queueVars
  <1> QED  BY <1>1, <1>2

(* Whatever the requests, callbacks and jobs do, and however many of them   *)
(* there are, the rows and the requests in flight stay well typed.          *)
THEOREM TypeCorrect == Spec => []TypeOK
  <1>1. Spec => []TypeInv
    BY TypeInit, TypeStep, PTL DEF Spec
  <1>2. TypeInv => TypeOK
    BY DEF TypeInv
  <1> QED  BY <1>1, <1>2, PTL
=============================================================================
