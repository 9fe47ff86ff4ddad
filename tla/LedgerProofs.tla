----------------------------- MODULE LedgerProofs -----------------------------
(***************************************************************************)
(* The records that must agree with one another: a voucher's counter with   *)
(* its redemption rows, a booking's status with its history, a payment with *)
(* the booking it paid for.                                                 *)
(***************************************************************************)
EXTENDS TripBookingProofs, FiniteSetTheorems

USE TablesAssumption

-----------------------------------------------------------------------------
(* Vouchers. *)

BookingsOf(v) == {b \in Bookings : <<v, b>> \in redeemed}

\* Redemption rows are added one at a time, so there are finitely many.
VoucherInv ==
  /\ VoucherAccounting
  /\ \A v \in Vouchers : IsFiniteSet(BookingsOf(v))

Redeems(v, b) ==
  /\ <<v, b>> \notin redeemed
  /\ UsageLimit[v] > 0 => usedCount[v] < UsageLimit[v]
  /\ redeemed' = redeemed \cup {<<v, b>>}
  /\ usedCount' = [usedCount EXCEPT ![v] = @ + 1]
GivesBack(v, b) ==
  /\ <<v, b>> \in redeemed
  /\ redeemed' = redeemed \ {<<v, b>>}
  /\ usedCount' = [usedCount EXCEPT ![v] = @ - 1]
VoucherEffect ==
  \/ UNCHANGED voucherVars
  \/ \E v \in Vouchers, b \in Bookings : Redeems(v, b) \/ GivesBack(v, b)

LEMMA VoucherEffects ==
  ASSUME TypeInv, Next
  PROVE  VoucherEffect
  <1>1. ASSUME NEW r \in Requests, ClientStep(r)  PROVE VoucherEffect
    <2>1. ASSUME NEW v \in Vouchers, ApplyVoucher(r, v)  PROVE VoucherEffect
      <3>1. req[r].booking \in Bookings
        BY <2>1 DEF ApplyVoucher, At, TypeInv, InFlight
      <3>2. Redeems(v, req[r].booking)
        BY <2>1, <3>1 DEF ApplyVoucher, UsedByOwner, Redeems
      <3> QED  BY <3>1, <3>2 DEF VoucherEffect
    <2>2. CASE ~ \E v \in Vouchers : ApplyVoucher(r, v)
      BY <1>1, <2>2
      DEF ClientStep, CreateDraft, EnqueueExpiry, ReadDraft, UpdatePassengers,
          SelectSeatForPassenger, CompleteBegin, AwardPoints, CompleteCommit, Abort,
          VoucherEffect
    <2> QED  BY <2>1, <2>2
  <1>2. ASSUME NEW r \in Requests, PaymentStep(r)  PROVE VoucherEffect
    BY <1>2
    DEF PaymentStep, InitiateRead, ReadExistingPayment, CommitInitiatePayment,
        CommitInitiateSepay, VnpayCallback, SepayWebhook, Snapshot, CommitVnpayCallback,
        CommitLatePayment, CommitSepayWebhook, GetPaymentStatus, SnapshotPaymentStatus,
        CommitExpiredPayment, RequestRefund, CreateRefund, VoucherEffect
  <1>3. CASE RowStep
    BY <1>3 DEF RowStep, UpdateStatus, CompleteWithoutPoints, PaymentTimeout, VoucherEffect
  <1>4. CASE WorkerStep
    <2>1. CASE ExpireBooking
      <3>1. worker.booking \in Bookings
        BY <2>1 DEF ExpireBooking, TypeInv, TypeOK, QueueRows, Worker
      <3> QED
        BY <2>1, <3>1 DEF ExpireBooking, ReleaseOneRedemption, GivesBack, VoucherEffect
    <2>2. CASE ~ ExpireBooking
      BY <1>4, <2>2
      DEF WorkerStep, TakeJob, ExpireNothing, JobFails, WorkerCrash, VoucherEffect
    <2> QED  BY <2>1, <2>2
  <1> QED  BY <1>1, <1>2, <1>3, <1>4 DEF Next

LEMMA VoucherKept ==
  ASSUME TypeOK, VoucherInv, VoucherEffect
  PROVE  VoucherInv'
  <1>a. /\ usedCount \in [Vouchers -> Int] /\ UsageLimit \in [Vouchers -> Nat]
        /\ redeemed \subseteq Vouchers \X Bookings
    BY DEF TypeOK, VoucherRows
  <1> DEFINE Row(v, n, S) == /\ IsFiniteSet(S) /\ n = Cardinality(S)
                             /\ UsageLimit[v] > 0 => n <= UsageLimit[v]
             After(v) == {b \in Bookings : <<v, b>> \in redeemed'}
  <1>b. \A v \in Vouchers : Row(v, usedCount[v], BookingsOf(v))
    BY DEF VoucherInv, VoucherAccounting, BookingsOf
  <1>c. SUFFICES \A v \in Vouchers : Row(v, usedCount'[v], After(v))
    BY DEF VoucherInv, VoucherAccounting, BookingsOf
  <1>1. CASE UNCHANGED voucherVars
    BY <1>1, <1>b DEF voucherVars, BookingsOf
  <1>2. ASSUME NEW v \in Vouchers, NEW b \in Bookings, Redeems(v, b)
        PROVE  \A w \in Vouchers : Row(w, usedCount'[w], After(w))
    <2>1. ASSUME NEW w \in Vouchers \ {v}  PROVE Row(w, usedCount'[w], After(w))
      <3>1. usedCount'[w] = usedCount[w]
        BY <1>2, <1>a DEF Redeems
      <3>2. \A c \in Bookings : <<w, c>> \in redeemed' <=> <<w, c>> \in redeemed
        BY <1>2 DEF Redeems
      <3>3. After(w) = BookingsOf(w)
        BY <3>2 DEF BookingsOf
      <3> QED  BY <1>b, <3>1, <3>3
    <2>2. After(v) = BookingsOf(v) \cup {b} /\ b \notin BookingsOf(v)
      BY <1>2 DEF Redeems, BookingsOf
    <2>3. IsFiniteSet(BookingsOf(v)) /\ usedCount[v] = Cardinality(BookingsOf(v))
      BY <1>b
    <2> HIDE DEF After
    <2>4. IsFiniteSet(After(v)) /\ Cardinality(After(v)) = Cardinality(BookingsOf(v)) + 1
      BY <2>2, <2>3, FS_AddElement
    <2>5. usedCount'[v] = usedCount[v] + 1
          /\ (UsageLimit[v] > 0 => usedCount[v] < UsageLimit[v])
      BY <1>2, <1>a DEF Redeems
    <2>6. Row(v, usedCount'[v], After(v))
      BY <1>a, <2>3, <2>4, <2>5
    <2> QED  BY <2>1, <2>6
  <1>3. ASSUME NEW v \in Vouchers, NEW b \in Bookings, GivesBack(v, b)
        PROVE  \A w \in Vouchers : Row(w, usedCount'[w], After(w))
    <2>1. ASSUME NEW w \in Vouchers \ {v}  PROVE Row(w, usedCount'[w], After(w))
      <3>1. usedCount'[w] = usedCount[w]
        BY <1>3, <1>a DEF GivesBack
      <3>2. \A c \in Bookings : <<w, c>> \in redeemed' <=> <<w, c>> \in redeemed
        BY <1>3 DEF GivesBack
      <3>3. After(w) = BookingsOf(w)
        BY <3>2 DEF BookingsOf
      <3> QED  BY <1>b, <3>1, <3>3
    <2>2. After(v) = BookingsOf(v) \ {b} /\ b \in BookingsOf(v)
      BY <1>3 DEF GivesBack, BookingsOf
    <2>3. Row(v, usedCount[v], BookingsOf(v))
      BY <1>b
    <2> HIDE DEF After
    <2>4. IsFiniteSet(After(v)) /\ Cardinality(After(v)) = Cardinality(BookingsOf(v)) - 1
      BY <2>2, <2>3, FS_RemoveElement
    <2>5. usedCount'[v] = usedCount[v] - 1
      BY <1>3, <1>a DEF GivesBack
    <2>6. Row(v, usedCount'[v], After(v))
      BY <1>a, <2>3, <2>4, <2>5
    <2> QED  BY <2>1, <2>6
  <1> QED  BY <1>1, <1>2, <1>3 DEF VoucherEffect

(* A voucher's usedCount is the number of its redemption rows and never     *)
(* passes its limit, for any number of vouchers, users and requests.        *)
THEOREM VoucherAccountingHolds == Spec => []VoucherAccounting
  <1>1. Init => VoucherInv
    <2> SUFFICES ASSUME Init  PROVE VoucherInv
      OBVIOUS
    <2> SUFFICES ASSUME NEW v \in Vouchers
                 PROVE  /\ IsFiniteSet(BookingsOf(v))
                        /\ usedCount[v] = Cardinality(BookingsOf(v))
                        /\ UsageLimit[v] > 0 => usedCount[v] <= UsageLimit[v]
      BY DEF VoucherInv, VoucherAccounting, BookingsOf
    <2>1. BookingsOf(v) = {}
      BY DEF Init, BookingsOf
    <2>2. usedCount[v] = 0 /\ UsageLimit[v] \in Nat
      BY DEF Init
    <2> QED  BY <2>1, <2>2, FS_EmptySet
  <1>2. TypeInv /\ VoucherInv /\ [Next]_vars => VoucherInv'
    <2>1. UNCHANGED vars => VoucherEffect
      BY DEF vars, VoucherEffect, voucherVars
    <2> QED  BY <2>1, VoucherEffects, VoucherKept DEF TypeInv
  <1>3. VoucherInv => VoucherAccounting
    BY DEF VoucherInv
  <1> QED  BY TypeInit, TypeStep, <1>1, <1>2, <1>3, PTL DEF Spec

-----------------------------------------------------------------------------
(* History and payments. *)

\* Nothing goes back: what was confirmed is CONFIRMED or over.
Over == {"CANCELLED", "COMPLETED"}
ConfirmedLasts ==
  \A b \in Bookings : WasConfirmed(b) => status[b] \in {"CONFIRMED"} \cup Over
RecordInv == HistoryEndsInStatus /\ SuccessMeansConfirmed /\ ConfirmedLasts

\* No payment becomes SUCCESS, but perhaps the one of b.
PaidOnly(B) == \A c \in Bookings \ B :
                 payment'[c].status = "SUCCESS" => payment[c].status = "SUCCESS"
\* The payment that is looked at in the transaction that confirms b.
Funded(b) == payment[b].status \in {"PENDING", "SUCCESS"} /\ payment'[b].status = "SUCCESS"
Allowed(b, to) ==
  \/ to \in Over
  \/ status[b] = "DRAFT" /\ to = "PENDING_PAYMENT"
  \/ status[b] = "PENDING_PAYMENT" /\ to = "CONFIRMED" /\ Funded(b)
RecordEffect ==
  \/ UNCHANGED bookingVars /\ PaidOnly({})
  \/ \E b \in Bookings :
       /\ status[b] = "NONE" /\ status' = [status EXCEPT ![b] = "DRAFT"]
       /\ UNCHANGED history /\ PaidOnly({})
  \/ \E b \in Bookings, from \in BookingStatus, to \in BookingStatus \ {"DRAFT"} :
       /\ SetStatus(b, from, to) /\ Allowed(b, to)
       /\ PaidOnly(IF to = "CONFIRMED" THEN {b} ELSE {})

LEMMA NoPaymentSet ==
  ASSUME TypeOK, NEW b \in Bookings, NEW to \in PaymentStatus \ {"SUCCESS"},
         payment' = [payment EXCEPT ![b].status = to]
  PROVE  PaidOnly({})
  BY DEF PaidOnly, TypeOK, PaymentRows, PaymentRow

LEMMA SamePayments == UNCHANGED payment => PaidOnly({})
  BY DEF PaidOnly

LEMMA TransitionRecord ==
  ASSUME NEW b \in Bookings, NEW read, NEW to, Transition(b, read, to),
         PaidOnly(IF to = "CONFIRMED" THEN {b} ELSE {}), to = "CONFIRMED" => Funded(b)
  PROVE  RecordEffect
  <1>1. to \in BookingStatus \ {"DRAFT"} /\ read \in BookingStatus
    BY Edges DEF Transition
  <1>2. Allowed(b, to)
    BY Edges DEF Transition, Allowed, Over
  <1> QED  BY <1>1, <1>2 DEF Transition, RecordEffect

LEMMA SucceedsRecord ==
  ASSUME TypeInv, NEW r \in Requests, req[r].op # "idle", PaymentSucceeds(r)
  PROVE  RecordEffect
  <1>1. req[r].booking \in Bookings /\ TypeOK
    BY DEF TypeInv, InFlight
  <1>2. PaidOnly({req[r].booking})
    BY <1>1 DEF PaymentSucceeds, SetPayment, PaidOnly, TypeOK, PaymentRows, PaymentRow
  <1>3. Funded(req[r].booking)
    BY DEF PaymentSucceeds, SetPayment, Confirm, Funded
  <1> QED  BY <1>1, <1>2, <1>3, TransitionRecord DEF PaymentSucceeds, Confirm

LEMMA CancelRecord ==
  ASSUME TypeInv, NEW r \in Requests, req[r].op # "idle", CancelAndRelease(r), PaidOnly({})
  PROVE  RecordEffect
  <1>1. req[r].booking \in Bookings
    BY DEF TypeInv, InFlight
  <1>2. CASE CanTransition(req[r].bs, "CANCELLED")
    <2>1. PaidOnly(IF "CANCELLED" = "CONFIRMED" THEN {req[r].booking} ELSE {})
      OBVIOUS
    <2>2. Transition(req[r].booking, req[r].bs, "CANCELLED") /\ "CANCELLED" # "CONFIRMED"
      BY <1>2 DEF CancelAndRelease
    <2> QED  BY <1>1, <2>1, <2>2, TransitionRecord
  <1>3. CASE ~ CanTransition(req[r].bs, "CANCELLED")
    <2>1. UNCHANGED bookingVars
      BY <1>3 DEF CancelAndRelease, bookingVars
    <2> QED  BY <2>1 DEF RecordEffect
  <1> QED  BY <1>2, <1>3

LEMMA FailsRecord ==
  ASSUME TypeInv, NEW r \in Requests, req[r].op # "idle", PaymentFails(r)
  PROVE  RecordEffect
  <1>1. req[r].booking \in Bookings /\ TypeOK
    BY DEF TypeInv, InFlight
  <1>2. PaidOnly({})
    <2>1. payment' = [payment EXCEPT ![req[r].booking].status = "FAILED"]
      BY DEF PaymentFails, SetPayment
    <2>2. "FAILED" \in PaymentStatus \ {"SUCCESS"}
      BY DEF PaymentStatus
    <2> QED  BY <1>1, <2>1, <2>2, NoPaymentSet
  <1> QED  BY <1>2, CancelRecord DEF PaymentFails

LEMMA ToPendingRecord ==
  ASSUME NEW b \in Bookings, ToPendingPayment(b), PaidOnly({})
  PROVE  RecordEffect
  <1>1. CASE CanTransition(status[b], "PENDING_PAYMENT")
    <2> DEFINE to == "PENDING_PAYMENT"
    <2>1. PaidOnly(IF to = "CONFIRMED" THEN {b} ELSE {})
      OBVIOUS
    <2>2. Transition(b, status[b], to) /\ to # "CONFIRMED"
      BY <1>1 DEF ToPendingPayment
    <2> HIDE DEF to
    <2> QED  BY <2>1, <2>2, TransitionRecord
  <1>2. CASE ~ CanTransition(status[b], "PENDING_PAYMENT")
    <2>1. UNCHANGED bookingVars
      BY <1>2 DEF ToPendingPayment, bookingVars
    <2> QED  BY <2>1 DEF RecordEffect
  <1> QED  BY <1>1, <1>2

LEMMA QuietRecord ==
  UNCHANGED <<bookingVars, payment>> => RecordEffect
  BY SamePayments DEF RecordEffect, bookingVars

LEMMA ClientRecords ==
  ASSUME TypeInv, NEW r \in Requests, ClientStep(r)
  PROVE  RecordEffect
  <1>1. ASSUME NEW b \in Bookings, CreateDraft(r, b)  PROVE RecordEffect
    BY <1>1, SamePayments DEF CreateDraft, RecordEffect, payVars
  <1>2. ASSUME CompleteCommit(r)  PROVE RecordEffect
    <2>1. req[r].booking \in Bookings /\ req[r].bs = "CONFIRMED"
      BY <1>2 DEF CompleteCommit, At, TypeInv, InFlight
    <2>2. /\ SetStatus(req[r].booking, req[r].bs, "COMPLETED") /\ PaidOnly({})
      BY <1>2, SamePayments DEF CompleteCommit, payVars
    <2>3. /\ "COMPLETED" \in BookingStatus \ {"DRAFT"} /\ "CONFIRMED" \in BookingStatus
          /\ Allowed(req[r].booking, "COMPLETED")
      BY DEF BookingStatus, Allowed, Over
    <2> QED  BY <2>1, <2>2, <2>3 DEF RecordEffect
  <1>3. CASE ~ (CompleteCommit(r) \/ \E b \in Bookings : CreateDraft(r, b))
    <2>1. UNCHANGED <<bookingVars, payment>>
      BY <1>3
      DEF ClientStep, EnqueueExpiry, ReadDraft, UpdatePassengers, SelectSeatForPassenger,
          ApplyVoucher, CompleteBegin, AwardPoints, Abort, payVars
    <2> QED  BY <2>1, QuietRecord
  <1> QED  BY <1>1, <1>2, <1>3

LEMMA PaymentRecords ==
  ASSUME TypeInv, NEW r \in Requests, PaymentStep(r)
  PROVE  RecordEffect
  <1>a. TypeOK
    BY DEF TypeInv
  <1>b. req[r].op # "idle" => req[r].booking \in Bookings
    BY DEF TypeInv, InFlight
  <1>c. PaymentStatus \ {"SUCCESS"} = {"PENDING", "FAILED", "EXPIRED", "LATE_PAYMENT"}
    BY DEF PaymentStatus
  <1>1. ASSUME CommitInitiatePayment(r) \/ CommitInitiateSepay(r)  PROVE RecordEffect
    <2> DEFINE b == req[r].booking
    <2>1. b \in Bookings /\ ToPendingPayment(b)
      BY <1>1, <1>b DEF CommitInitiatePayment, CommitInitiateSepay, At
    <2>2. ASSUME NEW row, CreatePayment(b, row), row.status = "PENDING"  PROVE PaidOnly({})
      BY <2>1, <2>2, <1>a DEF CreatePayment, PaidOnly, TypeOK, PaymentRows
    <2>3. ASSUME payment' = [payment EXCEPT ![b].url = TRUE]  PROVE PaidOnly({})
      BY <2>1, <2>3, <1>a DEF PaidOnly, TypeOK, PaymentRows, PaymentRow
    <2>4. ASSUME payment' = [payment EXCEPT ![b].status = "PENDING", ![b].qr = TRUE,
                                            ![b].expired = FALSE]
          PROVE  PaidOnly({})
      BY <2>1, <2>4, <1>a DEF PaidOnly, TypeOK, PaymentRows, PaymentRow
    <2>5. /\ [NoPayment EXCEPT !.status = "PENDING", !.url = TRUE].status = "PENDING"
          /\ [NoPayment EXCEPT !.status = "PENDING", !.qr = TRUE].status = "PENDING"
      BY DEF NoPayment
    <2>6. PaidOnly({})
      BY <1>1, <2>2, <2>3, <2>4, <2>5 DEF CommitInitiatePayment, CommitInitiateSepay
    <2> QED  BY <2>1, <2>6, ToPendingRecord
  <1>2. ASSUME NEW ok \in BOOLEAN, CommitVnpayCallback(r, ok) \/ CommitSepayWebhook(r, ok)
        PROVE  RecordEffect
    BY <1>2, SucceedsRecord, FailsRecord DEF CommitVnpayCallback, CommitSepayWebhook, At
  <1>3. ASSUME CommitLatePayment(r)  PROVE RecordEffect
    <2>1. PaidOnly({}) /\ UNCHANGED bookingVars
      BY <1>3, <1>a, <1>b, <1>c, NoPaymentSet DEF CommitLatePayment, At
    <2> QED  BY <2>1 DEF RecordEffect
  <1>4. ASSUME CommitExpiredPayment(r)  PROVE RecordEffect
    <2>1. PaidOnly({}) /\ CancelAndRelease(r) /\ req[r].op # "idle"
      BY <1>4, <1>a, <1>b, <1>c, NoPaymentSet DEF CommitExpiredPayment, At
    <2> QED  BY <2>1, CancelRecord
  <1>5. CASE ~ \/ CommitInitiatePayment(r) \/ CommitInitiateSepay(r)
               \/ \E ok \in BOOLEAN : CommitVnpayCallback(r, ok) \/ CommitSepayWebhook(r, ok)
               \/ CommitLatePayment(r) \/ CommitExpiredPayment(r)
    <2>1. UNCHANGED <<bookingVars, payment>>
      BY <1>5
      DEF PaymentStep, InitiateRead, ReadExistingPayment, VnpayCallback, SepayWebhook,
          Snapshot, GetPaymentStatus, SnapshotPaymentStatus, RequestRefund, CreateRefund,
          payVars
    <2> QED  BY <2>1, QuietRecord
  <1> QED  BY <1>1, <1>2, <1>3, <1>4, <1>5

LEMMA RowRecords ==
  ASSUME TypeInv, RowStep
  PROVE  RecordEffect
  <1>1. ASSUME NEW b \in Bookings, NEW to \in BookingStatus, UpdateStatus(b, to)
        PROVE  RecordEffect
    <2>1. Transition(b, status[b], to) /\ UNCHANGED payment
      BY <1>1 DEF UpdateStatus, Confirm, payVars
    <2>2. PaidOnly(IF to = "CONFIRMED" THEN {b} ELSE {})
      BY <2>1 DEF PaidOnly
    <2>3. to = "CONFIRMED" => Funded(b)
      BY <1>1, <2>1 DEF UpdateStatus, Confirm, Funded
    <2> QED  BY <2>1, <2>2, <2>3, TransitionRecord
  <1>2. ASSUME NEW b \in Bookings, CompleteWithoutPoints(b)  PROVE RecordEffect
    BY <1>2, SamePayments, TransitionRecord DEF CompleteWithoutPoints, payVars
  <1>3. ASSUME NEW b \in Bookings, PaymentTimeout(b)  PROVE RecordEffect
    <2>1. PaidOnly({}) /\ UNCHANGED bookingVars
      BY <1>3 DEF PaymentTimeout, PaidOnly, TypeInv, TypeOK, PaymentRows, PaymentRow
    <2> QED  BY <2>1 DEF RecordEffect
  <1> QED  BY <1>1, <1>2, <1>3 DEF RowStep

LEMMA WorkerRecords ==
  ASSUME TypeInv, WorkerStep
  PROVE  RecordEffect
  <1>1. CASE ExpireBooking
    <2>1. /\ worker.booking \in Bookings /\ worker.bs \in {"DRAFT", "PENDING_PAYMENT"}
      BY <1>1 DEF ExpireBooking, TypeInv, TypeOK, InFlight, QueueRows, Worker
    <2>2. SetStatus(worker.booking, worker.bs, "CANCELLED") /\ PaidOnly({})
      BY <1>1, SamePayments DEF ExpireBooking, payVars
    <2>3. /\ worker.bs \in BookingStatus
          /\ "CANCELLED" \in BookingStatus \ {"DRAFT"} /\ "CANCELLED" # "CONFIRMED"
          /\ Allowed(worker.booking, "CANCELLED")
      BY <2>1 DEF BookingStatus, Allowed, Over
    <2> QED  BY <2>1, <2>2, <2>3 DEF RecordEffect
  <1>2. CASE ~ ExpireBooking
    <2>1. UNCHANGED <<bookingVars, payment>>
      BY <1>2 DEF WorkerStep, TakeJob, ExpireNothing, JobFails, WorkerCrash, payVars
    <2> QED  BY <2>1, QuietRecord
  <1> QED  BY <1>1, <1>2

LEMMA RecordEffects ==
  ASSUME TypeInv, Next
  PROVE  RecordEffect
  BY ClientRecords, PaymentRecords, RowRecords, WorkerRecords DEF Next

(* A history row that is appended is the last one, and the rows before it   *)
(* stay where they were.                                                    *)
LEMMA Appended ==
  ASSUME TypeInv, NEW b \in Bookings, NEW from \in BookingStatus, NEW to \in BookingStatus,
         SetStatus(b, from, to)
  PROVE  /\ history'[b] # <<>> /\ history'[b][Len(history'[b])].to = to
         /\ WasConfirmed(b)' <=> WasConfirmed(b) \/ to = "CONFIRMED"
         /\ status'[b] = to
         /\ \A c \in Bookings \ {b} : status'[c] = status[c] /\ history'[c] = history[c]
  <1> DEFINE row == [from |-> from, to |-> to]
             h == history[b]
             Row == [from : BookingStatus, to : BookingStatus]
  <1>1. h \in Seq(Row) /\ row \in Row
    BY DEF TypeInv, TypeOK, BookingRows
  <1>2. history'[b] = Append(h, row) /\ status'[b] = to
    BY DEF SetStatus, TypeInv, TypeOK, BookingRows
  <1>3. \A c \in Bookings \ {b} : status'[c] = status[c] /\ history'[c] = history[c]
    BY DEF SetStatus, TypeInv, TypeOK, BookingRows
  <1>4. row.to = to
    OBVIOUS
  <1> HIDE DEF row, h, Row
  <1>5. /\ Len(Append(h, row)) = Len(h) + 1 /\ Len(h) \in Nat
        /\ Append(h, row)[Len(h) + 1] = row
        /\ \A i \in 1..Len(h) : Append(h, row)[i] = h[i]
    BY <1>1
  <1>6. Len(<<>>) = 0
    OBVIOUS
  <1>7. history'[b] # <<>> /\ history'[b][Len(history'[b])].to = to
    BY <1>2, <1>4, <1>5, <1>6
  <1>8. ASSUME WasConfirmed(b)  PROVE WasConfirmed(b)'
    <2>1. PICK i \in 1..Len(h) : h[i].to = "CONFIRMED"
      BY <1>8 DEF WasConfirmed, h
    <2>2. i \in 1..Len(history'[b]) /\ history'[b][i].to = "CONFIRMED"
      BY <2>1, <1>2, <1>5
    <2> QED  BY <2>2 DEF WasConfirmed
  <1>9. ASSUME to = "CONFIRMED"  PROVE WasConfirmed(b)'
    <2>1. Len(history'[b]) \in 1..Len(history'[b])
      BY <1>2, <1>5
    <2> QED  BY <2>1, <1>7, <1>9 DEF WasConfirmed
  <1>10. ASSUME WasConfirmed(b)', to # "CONFIRMED"  PROVE WasConfirmed(b)
    <2>1. PICK i \in 1..Len(history'[b]) : history'[b][i].to = "CONFIRMED"
      BY <1>10 DEF WasConfirmed
    <2>2. i \in 1..Len(h) /\ h[i].to = "CONFIRMED"
      BY <2>1, <1>2, <1>4, <1>5, <1>10
    <2> QED  BY <2>2 DEF WasConfirmed, h
  <1> QED  BY <1>2, <1>3, <1>7, <1>8, <1>9, <1>10

LEMMA SameHistory ==
  ASSUME NEW b \in Bookings, history'[b] = history[b]
  PROVE  WasConfirmed(b) <=> WasConfirmed(b)'
  BY DEF WasConfirmed

LEMMA RecordKept ==
  ASSUME TypeInv, RecordInv, RecordEffect
  PROVE  RecordInv'
  <1>1. CASE UNCHANGED bookingVars /\ PaidOnly({})
    <2>1. HistoryEndsInStatus'
      BY <1>1 DEF RecordInv, HistoryEndsInStatus, bookingVars
    <2>2. SuccessMeansConfirmed'
      BY <1>1, SameHistory
      DEF RecordInv, SuccessMeansConfirmed, bookingVars, PaidOnly
    <2>3. ConfirmedLasts'
      BY <1>1, SameHistory DEF RecordInv, ConfirmedLasts, bookingVars
    <2> QED  BY <2>1, <2>2, <2>3 DEF RecordInv
  <1>2. ASSUME NEW b \in Bookings,
               status[b] = "NONE", status' = [status EXCEPT ![b] = "DRAFT"],
               UNCHANGED history, PaidOnly({})
        PROVE  RecordInv'
    <2>1. HistoryEndsInStatus'
      BY <1>2 DEF RecordInv, HistoryEndsInStatus, TypeInv, TypeOK, BookingRows
    <2>2. SuccessMeansConfirmed'
      BY <1>2, SameHistory DEF RecordInv, SuccessMeansConfirmed, PaidOnly
    <2>3. ConfirmedLasts'
      BY <1>2, SameHistory
      DEF RecordInv, ConfirmedLasts, Over, TypeInv, TypeOK, BookingRows
    <2> QED  BY <2>1, <2>2, <2>3 DEF RecordInv
  <1>3. ASSUME NEW b \in Bookings, NEW from \in BookingStatus,
               NEW to \in BookingStatus \ {"DRAFT"}, SetStatus(b, from, to), Allowed(b, to),
               PaidOnly(IF to = "CONFIRMED" THEN {b} ELSE {})
        PROVE  RecordInv'
    <2>a. /\ history'[b] # <<>> /\ history'[b][Len(history'[b])].to = to
          /\ WasConfirmed(b)' <=> WasConfirmed(b) \/ to = "CONFIRMED"
          /\ status'[b] = to
          /\ \A c \in Bookings \ {b} : status'[c] = status[c] /\ history'[c] = history[c]
      BY <1>3, Appended
    <2>1. HistoryEndsInStatus'
      <3>1. to \notin {"NONE", "DRAFT"}
        BY <1>3 DEF BookingStatus
      <3> QED  BY <2>a, <3>1 DEF RecordInv, HistoryEndsInStatus
    <2>2. ASSUME NEW c \in Bookings, payment'[c].status = "SUCCESS"
          PROVE  WasConfirmed(c)'
      <3>1. CASE c = b /\ to = "CONFIRMED"
        BY <2>a, <3>1
      <3>2. CASE ~ (c = b /\ to = "CONFIRMED")
        <4>1. payment[c].status = "SUCCESS"
          BY <1>3, <2>2, <3>2 DEF PaidOnly
        <4>2. WasConfirmed(c)
          BY <4>1 DEF RecordInv, SuccessMeansConfirmed
        <4> QED  BY <4>2, <2>a, SameHistory
      <3> QED  BY <3>1, <3>2
    <2>3. SuccessMeansConfirmed'
      BY <2>2 DEF SuccessMeansConfirmed
    <2>4. ASSUME NEW c \in Bookings, WasConfirmed(c)'
          PROVE  status'[c] \in {"CONFIRMED"} \cup Over
      <3>1. CASE c = b
        BY <2>a, <2>4, <3>1, <1>3 DEF RecordInv, ConfirmedLasts, Allowed, Over
      <3>2. CASE c # b
        BY <2>a, <2>4, <3>2, SameHistory DEF RecordInv, ConfirmedLasts
      <3> QED  BY <3>1, <3>2
    <2>5. ConfirmedLasts'
      BY <2>4 DEF ConfirmedLasts, Over
    <2> QED  BY <2>1, <2>3, <2>5 DEF RecordInv
  <1> QED  BY <1>1, <1>2, <1>3 DEF RecordEffect

LEMMA RecordHolds == Spec => []RecordInv
  <1>1. Init => RecordInv
    BY DEF Init, RecordInv, HistoryEndsInStatus, SuccessMeansConfirmed, NoPayment,
           ConfirmedLasts, WasConfirmed
  <1>2. TypeInv /\ RecordInv /\ [Next]_vars => RecordInv'
    <2>1. UNCHANGED vars => RecordEffect
      BY QuietRecord DEF vars, bookingVars
    <2> QED  BY <2>1, RecordEffects, RecordKept DEF TypeInv
  <1> QED  BY TypeInit, TypeStep, <1>1, <1>2, PTL DEF Spec

(* The last row of a booking's status history says the status the booking   *)
(* has, whoever wrote it, the expiry worker's stale read included.          *)
THEOREM HistoryEndsInStatusHolds == Spec => []HistoryEndsInStatus
  <1>1. RecordInv => HistoryEndsInStatus
    BY DEF RecordInv
  <1> QED  BY RecordHolds, <1>1, PTL

(* A payment that is SUCCESS belongs to a booking that was confirmed,       *)
(* whatever callbacks, polls, refunds and expiry jobs are in flight.        *)
THEOREM SuccessMeansConfirmedHolds == Spec => []SuccessMeansConfirmed
  <1>1. RecordInv => SuccessMeansConfirmed
    BY DEF RecordInv
  <1> QED  BY RecordHolds, <1>1, PTL

(* A booking becomes CONFIRMED only in the step that turns its payment from *)
(* PENDING to SUCCESS: updateBookingStatus, which looks for a payment that  *)
(* is SUCCESS already, never finds one whose booking still waits.           *)
THEOREM ConfirmedByPaymentHolds == Spec => ConfirmedByPayment
  <1> DEFINE Paid == \A b \in Bookings : status[b] # "CONFIRMED" /\ status'[b] = "CONFIRMED"
                       => payment[b].status = "PENDING" /\ payment'[b].status = "SUCCESS"
  <1>1. ASSUME TypeInv, RecordInv, Next,
               NEW b \in Bookings, status[b] # "CONFIRMED", status'[b] = "CONFIRMED"
        PROVE  payment[b].status = "PENDING" /\ payment'[b].status = "SUCCESS"
    <2>1. status[b] = "PENDING_PAYMENT" /\ Funded(b)
      BY <1>1, RecordEffects
      DEF RecordEffect, bookingVars, SetStatus, Allowed, Over, TypeInv, TypeOK, BookingRows
    <2>2. payment[b].status # "SUCCESS"
      BY <2>1 , <1>1 DEF RecordInv, SuccessMeansConfirmed, ConfirmedLasts, Over
    <2> QED  BY <2>1, <2>2 DEF Funded
  <1>2. TypeInv /\ RecordInv /\ [Next]_vars => [Paid]_vars
    BY <1>1
  <1>3. Spec => []TypeInv
    BY TypeInit, TypeStep, PTL DEF Spec
  <1> QED  BY <1>2, <1>3, RecordHolds, PTL DEF Spec, ConfirmedByPayment

-----------------------------------------------------------------------------
(* Payments that are given up. *)

Gateways == {"vnpayCallback", "sepayWebhook", "getPaymentStatus"}
GivenUp == {"FAILED", "EXPIRED"}

\* A request, and a payment row, belong to a booking that exists; a gateway's
\* snapshot of a booking that was over is not out of date.
RequestExists(r) == req[r].op # "idle" => status[req[r].booking] # "NONE"
PaymentExists(b) == payment[b] # NoPayment => status[b] # "NONE"
SoundSnapshot(r) ==
  req[r].op \in Gateways /\ req[r].step = "commit"
    => /\ req[r].bs # "NONE"
       /\ req[r].bs \in Over => status[req[r].booking] \in Over
GiveUpInv ==
  /\ FailedMeansOver
  /\ \A r \in Requests : RequestExists(r) /\ SoundSnapshot(r)
  /\ \A b \in Bookings : PaymentExists(b)

\* What a step does to a request, and to a payment.
RequestMoves(q) ==
  \/ req'[q] = req[q]
  \/ req'[q].op = "idle"
  \/ /\ req'[q].op = req[q].op /\ req'[q].booking = req[q].booking
     /\ req'[q].op \notin Gateways
  \/ /\ req'[q].booking \in Bookings /\ status'[req'[q].booking] # "NONE"
     /\ req'[q].step # "commit" \/ req'[q].op \notin Gateways
  \/ /\ req'[q].booking \in Bookings /\ status[req'[q].booking] # "NONE"
     /\ req'[q].bs = status[req'[q].booking]
PaymentMoves(b) ==
  /\ payment'[b].status \in GivenUp => payment[b].status \in GivenUp \/ status'[b] \in Over
  /\ payment'[b] # NoPayment => payment[b] # NoPayment \/ status[b] # "NONE"

LEMMA OnlyForward ==
  ASSUME TypeInv, RecordEffect, NEW b \in Bookings
  PROVE  /\ status[b] # "NONE" => status'[b] # "NONE"
         /\ status[b] \in Over => status'[b] \in Over
  BY DEF RecordEffect, bookingVars, SetStatus, Allowed, Over, TypeInv, TypeOK, BookingRows,
         BookingStatus

LEMMA GiveUpKept ==
  ASSUME TypeInv, GiveUpInv, RecordEffect, RequestRows', InFlight',
         \A q \in Requests : RequestMoves(q), \A b \in Bookings : PaymentMoves(b)
  PROVE  GiveUpInv'
  <1>1. FailedMeansOver'
    BY OnlyForward DEF GiveUpInv, FailedMeansOver, PaymentMoves, GivenUp, Over
  <1>2. ASSUME NEW b \in Bookings  PROVE PaymentExists(b)'
    BY OnlyForward DEF GiveUpInv, PaymentMoves, PaymentExists
  <1>3. ASSUME NEW r \in Requests  PROVE RequestExists(r)' /\ SoundSnapshot(r)'
    <2>1. RequestMoves(r) /\ RequestExists(r) /\ SoundSnapshot(r)
      BY DEF GiveUpInv
    <2>2. /\ req[r].op # "idle" => req[r].booking \in Bookings
          /\ req'[r].op # "idle" => req'[r].booking \in Bookings
      BY DEF TypeInv, InFlight
    <2>3. req[r].op # "idle" => /\ status'[req[r].booking] # "NONE"
                                /\ status[req[r].booking] \in Over
                                     => status'[req[r].booking] \in Over
      BY <2>1, <2>2, OnlyForward DEF RequestExists
    <2>4. CASE req'[r] = req[r]
      BY <2>1, <2>3, <2>4 DEF RequestExists, SoundSnapshot, Gateways, Over
    <2>5. CASE req'[r].op = "idle"
      BY <2>5 DEF RequestExists, SoundSnapshot, Gateways
    <2>6. CASE /\ req'[r].op = req[r].op /\ req'[r].booking = req[r].booking
               /\ req'[r].op \notin Gateways
      BY <2>3, <2>6 DEF RequestExists, SoundSnapshot
    <2>7. CASE /\ req'[r].booking \in Bookings /\ status'[req'[r].booking] # "NONE"
               /\ req'[r].step # "commit" \/ req'[r].op \notin Gateways
      BY <2>7 DEF RequestExists, SoundSnapshot
    <2>8. CASE /\ req'[r].booking \in Bookings /\ status[req'[r].booking] # "NONE"
               /\ req'[r].bs = status[req'[r].booking]
      BY <2>8, OnlyForward DEF RequestExists, SoundSnapshot, Over
    <2> QED  BY <2>1, <2>4, <2>5, <2>6, <2>7, <2>8 DEF RequestMoves
  <1> QED  BY <1>1, <1>2, <1>3 DEF GiveUpInv

\* One request moves, and the others stay.
LEMMA OneMoves ==
  ASSUME TypeInv, NEW r \in Requests, NEW x, req' = [req EXCEPT ![r] = x]
  PROVE  req'[r] = x /\ \A q \in Requests \ {r} : RequestMoves(q)
  BY DEF RequestMoves, TypeInv, TypeOK, RequestRows

LEMMA DoneMoves ==
  ASSUME TypeInv, NEW r \in Requests, Done(r)
  PROVE  \A q \in Requests : RequestMoves(q)
  <1>1. req'[r] = Idle /\ \A q \in Requests \ {r} : RequestMoves(q)
    BY OneMoves DEF Done
  <1>2. RequestMoves(r)
    BY <1>1 DEF RequestMoves, Idle
  <1> QED  BY <1>1, <1>2

LEMMA BeginMoves ==
  ASSUME TypeInv, NEW r \in Requests, NEW b \in Bookings, NEW op, NEW step,
         Begin(r, op, step, b), status[b] # "NONE"
  PROVE  \A q \in Requests : RequestMoves(q)
  <1>1. /\ req'[r] = [Idle EXCEPT !.op = op, !.step = step, !.booking = b, !.bs = status[b]]
        /\ \A q \in Requests \ {r} : RequestMoves(q)
    BY OneMoves DEF Begin
  <1>2. req'[r].booking = b /\ req'[r].bs = status[b]
    BY <1>1 DEF Idle
  <1>3. RequestMoves(r)
    BY <1>2 DEF RequestMoves
  <1> QED  BY <1>1, <1>3

LEMMA SnapshotMoves ==
  ASSUME TypeInv, NEW r \in Requests, NEW b \in Bookings, NEW op, Snapshot(r, op, b),
         status[b] # "NONE"
  PROVE  \A q \in Requests : RequestMoves(q)
  <1>1. /\ req'[r].booking = b /\ req'[r].bs = status[b]
        /\ \A q \in Requests \ {r} : RequestMoves(q)
    <2> DEFINE x == [op |-> op, step |-> "commit", booking |-> b, bs |-> status[b],
                     ps |-> payment[b].status, late |-> payment[b].expired,
                     seats |-> SeatsOf(b)]
    <2>1. req' = [req EXCEPT ![r] = x] /\ x.booking = b /\ x.bs = status[b]
      BY DEF Snapshot
    <2> HIDE DEF x
    <2> QED  BY <2>1, OneMoves
  <1>2. RequestMoves(r)
    BY <1>1 DEF RequestMoves
  <1> QED  BY <1>1, <1>2

LEMMA SameRequests == UNCHANGED req => \A q \in Requests : RequestMoves(q)
  BY DEF RequestMoves

LEMMA SamePayment == UNCHANGED payment => \A b \in Bookings : PaymentMoves(b)
  BY DEF PaymentMoves

\* CancelAndRelease leaves no booking open that its snapshot showed.
LEMMA CancelEnds ==
  ASSUME TypeInv, GiveUpInv, NEW r \in Requests, req[r].op \in Gateways,
         req[r].step = "commit", CancelAndRelease(r)
  PROVE  status'[req[r].booking] \in Over
  <1> DEFINE b == req[r].booking
  <1>1. b \in Bookings /\ TypeOK
    BY DEF TypeInv, InFlight, Gateways
  <1>2. CASE CanTransition(req[r].bs, "CANCELLED")
    <2>1. status' = [status EXCEPT ![b] = "CANCELLED"]
      BY <1>2 DEF CancelAndRelease, Transition, SetStatus
    <2> QED  BY <1>1, <2>1 DEF TypeOK, BookingRows, Over
  <1>3. CASE ~ CanTransition(req[r].bs, "CANCELLED")
    <2>1. status' = status
      BY <1>3 DEF CancelAndRelease, bookingVars
    <2>2. req[r].bs \in BookingStatus
      BY DEF GiveUpInv, SoundSnapshot, TypeInv, TypeOK, RequestRows, Request
    <2>3. req[r].bs \in Over
      BY <1>3, <2>2 DEF CanTransition, BOOKING_TRANSITIONS, BookingStatus, Over
    <2>4. status[b] \in Over
      BY <2>3 DEF GiveUpInv, SoundSnapshot
    <2> QED  BY <2>1, <2>4
  <1> QED  BY <1>2, <1>3

\* One payment moves: its booking exists, and what is given up is over.
LEMMA OnePaymentMoves ==
  ASSUME TypeInv, NEW b \in Bookings, NEW row, payment' = [payment EXCEPT ![b] = row],
         status[b] # "NONE", row.status \in GivenUp => status'[b] \in Over
  PROVE  \A c \in Bookings : PaymentMoves(c)
  <1>1. payment'[b] = row /\ \A c \in Bookings \ {b} : payment'[c] = payment[c]
    BY DEF TypeInv, TypeOK, PaymentRows
  <1> QED  BY <1>1 DEF PaymentMoves

LEMMA StatusMoves ==
  ASSUME TypeInv, NEW b \in Bookings, NEW to, payment' = [payment EXCEPT ![b].status = to],
         status[b] # "NONE", to \in GivenUp => status'[b] \in Over
  PROVE  \A c \in Bookings : PaymentMoves(c)
  <1> DEFINE row == [payment[b] EXCEPT !.status = to]
  <1>1. payment' = [payment EXCEPT ![b] = row] /\ row.status = to
    BY DEF TypeInv, TypeOK, PaymentRows, PaymentRow
  <1> HIDE DEF row
  <1> QED  BY <1>1, OnePaymentMoves

LEMMA ClientMoves ==
  ASSUME TypeInv, GiveUpInv, NEW r \in Requests, ClientStep(r)
  PROVE  /\ \A q \in Requests : RequestMoves(q)
         /\ \A b \in Bookings : PaymentMoves(b)
  <1>1. \A b \in Bookings : PaymentMoves(b)
    <2>1. UNCHANGED payment
      BY DEF ClientStep, CreateDraft, EnqueueExpiry, ReadDraft, UpdatePassengers,
             SelectSeatForPassenger, ApplyVoucher, CompleteBegin, AwardPoints,
             CompleteCommit, Abort, payVars
    <2> QED  BY <2>1, SamePayment
  <1>2. ASSUME NEW b \in Bookings, CreateDraft(r, b)
        PROVE  \A q \in Requests : RequestMoves(q)
    <2> DEFINE x == [Idle EXCEPT !.op = "createDraftBooking", !.step = "enqueue",
                                 !.booking = b]
    <2>1. req' = [req EXCEPT ![r] = x] /\ x.booking = b /\ x.step # "commit"
      BY <1>2 DEF CreateDraft, Idle
    <2>2. status'[b] # "NONE"
      BY <1>2 DEF CreateDraft, TypeInv, TypeOK, BookingRows
    <2> HIDE DEF x
    <2>3. req'[r] = x /\ \A q \in Requests \ {r} : RequestMoves(q)
      BY <2>1, OneMoves
    <2>4. RequestMoves(r)
      BY <2>1, <2>2, <2>3 DEF RequestMoves
    <2> QED  BY <2>3, <2>4
  <1>3. ASSUME NEW b \in Bookings, NEW op \in Ops, ReadDraft(r, b, op)
        PROVE  \A q \in Requests : RequestMoves(q)
    <2>1. Begin(r, op, "commit", b) /\ status[b] # "NONE"
      BY <1>3 DEF ReadDraft
    <2> QED  BY <2>1, BeginMoves
  <1>4. ASSUME NEW b \in Bookings, CompleteBegin(r, b)
        PROVE  \A q \in Requests : RequestMoves(q)
    <2>1. Begin(r, "complete", "award", b) /\ status[b] \in BookingStatus
      BY <1>4 DEF CompleteBegin, CanTransition
    <2>2. status[b] # "NONE"
      BY <2>1 DEF BookingStatus
    <2> QED  BY <2>1, <2>2, BeginMoves
  <1>5. ASSUME AwardPoints(r)  PROVE \A q \in Requests : RequestMoves(q)
    <2>1. req' = [req EXCEPT ![r] = [req[r] EXCEPT !.step = "commit"]]
      BY <1>5 DEF AwardPoints
    <2>2. req'[r] = [req[r] EXCEPT !.step = "commit"]
          /\ \A q \in Requests \ {r} : RequestMoves(q)
      BY <2>1, OneMoves
    <2>3. RequestMoves(r)
      BY <1>5, <2>2
      DEF AwardPoints, At, RequestMoves, Gateways, TypeInv, TypeOK, RequestRows, Request
    <2> QED  BY <2>2, <2>3
  <1>6. ASSUME Done(r)  PROVE \A q \in Requests : RequestMoves(q)
    BY <1>6, DoneMoves
  <1>7. \/ Done(r) \/ AwardPoints(r)
        \/ \E b \in Bookings : CreateDraft(r, b) \/ CompleteBegin(r, b)
        \/ \E b \in Bookings, op \in Ops : ReadDraft(r, b, op)
    BY DEF ClientStep, EnqueueExpiry, UpdatePassengers, SelectSeatForPassenger,
           ApplyVoucher, CompleteCommit, Abort
  <1> QED  BY <1>1, <1>2, <1>3, <1>4, <1>5, <1>6, <1>7

LEMMA PaymentStepMoves ==
  ASSUME TypeInv, GiveUpInv, NEW r \in Requests, PaymentStep(r)
  PROVE  /\ \A q \in Requests : RequestMoves(q)
         /\ \A b \in Bookings : PaymentMoves(b)
  <1>a. req[r].op # "idle" => /\ req[r].booking \in Bookings
                              /\ status[req[r].booking] # "NONE"
    BY DEF TypeInv, InFlight, GiveUpInv, RequestExists
  <1>b. \A b \in Bookings : payment[b] # NoPayment => status[b] # "NONE"
    BY DEF GiveUpInv, PaymentExists
  <1>1. ASSUME CommitInitiatePayment(r) \/ CommitInitiateSepay(r)
        PROVE  \A b \in Bookings : PaymentMoves(b)
    <2> DEFINE b == req[r].booking
    <2>1. b \in Bookings /\ status[b] # "NONE"
      BY <1>1, <1>a DEF CommitInitiatePayment, CommitInitiateSepay, At
    <2>2. PICK row : payment' = [payment EXCEPT ![b] = row] /\ row.status = "PENDING"
      <3>1. ASSUME NEW row, CreatePayment(b, row), row.status = "PENDING"
            PROVE  payment' = [payment EXCEPT ![b] = row] /\ row.status = "PENDING"
        BY <3>1 DEF CreatePayment
      <3>2. /\ [NoPayment EXCEPT !.status = "PENDING", !.url = TRUE].status = "PENDING"
            /\ [NoPayment EXCEPT !.status = "PENDING", !.qr = TRUE].status = "PENDING"
        BY DEF NoPayment
      <3>3. ASSUME payment[b].status = "PENDING",
                   payment' = [payment EXCEPT ![b].url = TRUE]
            PROVE  \E row : payment' = [payment EXCEPT ![b] = row] /\ row.status = "PENDING"
        <4> DEFINE row == [payment[b] EXCEPT !.url = TRUE]
        <4>1. payment' = [payment EXCEPT ![b] = row] /\ row.status = "PENDING"
          BY <2>1, <3>3 DEF TypeInv, TypeOK, PaymentRows, PaymentRow
        <4> QED  BY <4>1
      <3>4. ASSUME payment' = [payment EXCEPT ![b].status = "PENDING", ![b].qr = TRUE,
                                              ![b].expired = FALSE]
            PROVE  \E row : payment' = [payment EXCEPT ![b] = row] /\ row.status = "PENDING"
        <4> DEFINE row == [payment[b] EXCEPT !.status = "PENDING", !.qr = TRUE,
                                             !.expired = FALSE]
        <4>1. payment' = [payment EXCEPT ![b] = row] /\ row.status = "PENDING"
          BY <2>1, <3>4 DEF TypeInv, TypeOK, PaymentRows, PaymentRow
        <4> QED  BY <4>1
      <3> QED
        BY <1>1, <3>1, <3>2, <3>3, <3>4 DEF CommitInitiatePayment, CommitInitiateSepay
    <2>3. row.status \notin GivenUp
      BY <2>2 DEF GivenUp
    <2> QED  BY <2>1, <2>2, <2>3, OnePaymentMoves
  <1>2. ASSUME NEW ok \in BOOLEAN, CommitVnpayCallback(r, ok) \/ CommitSepayWebhook(r, ok)
        PROVE  \A b \in Bookings : PaymentMoves(b)
    <2>1. req[r].op \in Gateways /\ req[r].step = "commit" /\ req[r].op # "idle"
      BY <1>2 DEF CommitVnpayCallback, CommitSepayWebhook, At, Gateways
    <2>2. CASE PaymentSucceeds(r)
      <3>1. payment' = [payment EXCEPT ![req[r].booking].status = "SUCCESS"]
            /\ "SUCCESS" \notin GivenUp
        BY <2>2 DEF PaymentSucceeds, SetPayment, GivenUp
      <3> QED  BY <1>a, <2>1, <3>1, StatusMoves
    <2>3. CASE PaymentFails(r)
      <3>1. payment' = [payment EXCEPT ![req[r].booking].status = "FAILED"]
            /\ CancelAndRelease(r)
        BY <2>3 DEF PaymentFails, SetPayment
      <3> QED  BY <1>a, <2>1, <3>1, CancelEnds, StatusMoves
    <2> QED  BY <1>2, <2>2, <2>3 DEF CommitVnpayCallback, CommitSepayWebhook
  <1>3. ASSUME CommitLatePayment(r)  PROVE \A b \in Bookings : PaymentMoves(b)
    <2>1. payment' = [payment EXCEPT ![req[r].booking].status = "LATE_PAYMENT"]
          /\ "LATE_PAYMENT" \notin GivenUp /\ req[r].op # "idle"
      BY <1>3 DEF CommitLatePayment, At, GivenUp
    <2> QED  BY <1>a, <2>1, StatusMoves
  <1>4. ASSUME CommitExpiredPayment(r)  PROVE \A b \in Bookings : PaymentMoves(b)
    <2>1. /\ payment' = [payment EXCEPT ![req[r].booking].status = "EXPIRED"]
          /\ req[r].op \in Gateways /\ req[r].step = "commit" /\ req[r].op # "idle"
          /\ CancelAndRelease(r)
      BY <1>4 DEF CommitExpiredPayment, At, Gateways
    <2> QED  BY <1>a, <2>1, CancelEnds, StatusMoves
  <1>5. ASSUME ~ \/ CommitInitiatePayment(r) \/ CommitInitiateSepay(r)
                 \/ \E ok \in BOOLEAN : CommitVnpayCallback(r, ok) \/ CommitSepayWebhook(r, ok)
                 \/ CommitLatePayment(r) \/ CommitExpiredPayment(r)
        PROVE  \A b \in Bookings : PaymentMoves(b)
    <2>1. UNCHANGED payment
      BY <1>5
      DEF PaymentStep, InitiateRead, ReadExistingPayment, VnpayCallback, SepayWebhook,
          Snapshot, GetPaymentStatus, SnapshotPaymentStatus, RequestRefund, CreateRefund,
          payVars
    <2> QED  BY <2>1, SamePayment
  <1>6. ASSUME NEW b \in Bookings, NEW op \in Ops, InitiateRead(r, b, op)
        PROVE  \A q \in Requests : RequestMoves(q)
    <2>1. Begin(r, op, "readPayment", b) /\ status[b] # "NONE"
      BY <1>6 DEF InitiateRead
    <2> QED  BY <2>1, BeginMoves
  <1>7. ASSUME ReadExistingPayment(r)  PROVE \A q \in Requests : RequestMoves(q)
    <2>1. PICK ps : req' = [req EXCEPT ![r] = [req[r] EXCEPT !.step = "commit", !.ps = ps]]
      BY <1>7 DEF ReadExistingPayment
    <2>2. req'[r] = [req[r] EXCEPT !.step = "commit", !.ps = ps]
          /\ \A q \in Requests \ {r} : RequestMoves(q)
      BY <2>1, OneMoves
    <2>3. req[r].op \notin Gateways
      BY <1>7 DEF ReadExistingPayment, Gateways
    <2>4. RequestMoves(r)
      BY <2>2, <2>3 DEF RequestMoves, TypeInv, TypeOK, RequestRows, Request
    <2> QED  BY <2>2, <2>4
  <1>8. ASSUME NEW b \in Bookings,
               VnpayCallback(r, b) \/ SepayWebhook(r, b) \/ GetPaymentStatus(r, b)
                 \/ RequestRefund(r, b)
        PROVE  \A q \in Requests : RequestMoves(q)
    <2>1. payment[b] # NoPayment
      BY <1>8 DEF VnpayCallback, SepayWebhook, GetPaymentStatus, RequestRefund, NoPayment
    <2>2. status[b] # "NONE"
      BY <1>b, <2>1
    <2>3. \/ Snapshot(r, "vnpayCallback", b) \/ Snapshot(r, "sepayWebhook", b)
          \/ Begin(r, "getPaymentStatus", "snapshot", b)
          \/ Begin(r, "requestRefund", "commit", b)
      BY <1>8 DEF VnpayCallback, SepayWebhook, GetPaymentStatus, RequestRefund
    <2> QED  BY <2>2, <2>3, SnapshotMoves, BeginMoves
  <1>9. ASSUME SnapshotPaymentStatus(r)  PROVE \A q \in Requests : RequestMoves(q)
    <2>1. Snapshot(r, "getPaymentStatus", req[r].booking) /\ req[r].op # "idle"
      BY <1>9 DEF SnapshotPaymentStatus, At
    <2> QED  BY <1>a, <2>1, SnapshotMoves
  <1>10. \/ Done(r)
         \/ \E b \in Bookings, op \in Ops : InitiateRead(r, b, op)
         \/ ReadExistingPayment(r) \/ SnapshotPaymentStatus(r)
         \/ \E b \in Bookings : VnpayCallback(r, b) \/ SepayWebhook(r, b)
                                 \/ GetPaymentStatus(r, b) \/ RequestRefund(r, b)
    BY DEF PaymentStep, CommitInitiatePayment, CommitInitiateSepay, CommitVnpayCallback,
           CommitLatePayment, CommitSepayWebhook, CommitExpiredPayment, CreateRefund
  <1> QED
    BY <1>1, <1>2, <1>3, <1>4, <1>5, <1>6, <1>7, <1>8, <1>9, <1>10, DoneMoves

LEMMA OtherMoves ==
  ASSUME TypeInv, GiveUpInv, RowStep \/ WorkerStep
  PROVE  /\ \A q \in Requests : RequestMoves(q)
         /\ \A b \in Bookings : PaymentMoves(b)
  <1>1. UNCHANGED req
    BY DEF RowStep, UpdateStatus, CompleteWithoutPoints, PaymentTimeout, WorkerStep,
           TakeJob, ExpireBooking, ExpireNothing, JobFails, WorkerCrash
  <1>2. ASSUME NEW b \in Bookings, PaymentTimeout(b)
        PROVE  \A c \in Bookings : PaymentMoves(c)
    <2> DEFINE row == [payment[b] EXCEPT !.expired = TRUE]
    <2>1. payment' = [payment EXCEPT ![b] = row] /\ row.status = payment[b].status
      BY <1>2 DEF PaymentTimeout, TypeInv, TypeOK, PaymentRows, PaymentRow
    <2>2. payment[b] # NoPayment /\ status' = status
      BY <1>2 DEF PaymentTimeout, NoPayment, bookingVars
    <2>3. status[b] # "NONE" /\ (row.status \in GivenUp => status'[b] \in Over)
      BY <2>1, <2>2 DEF GiveUpInv, PaymentExists, FailedMeansOver, GivenUp, Over
    <2> HIDE DEF row
    <2> QED  BY <2>1, <2>3, OnePaymentMoves
  <1>3. ASSUME ~ \E b \in Bookings : PaymentTimeout(b)
        PROVE  \A b \in Bookings : PaymentMoves(b)
    <2>1. UNCHANGED payment
      BY <1>3
      DEF RowStep, UpdateStatus, CompleteWithoutPoints, WorkerStep, TakeJob,
          ExpireBooking, ExpireNothing, JobFails, WorkerCrash, payVars
    <2> QED  BY <2>1, SamePayment
  <1> QED  BY <1>1, <1>2, <1>3, SameRequests

LEMMA GiveUpHolds == Spec => []GiveUpInv
  <1>1. Init => GiveUpInv
    BY DEF Init, GiveUpInv, FailedMeansOver, RequestExists, SoundSnapshot, PaymentExists,
           NoPayment, Idle, Gateways
  <1>2. TypeInv /\ TypeInv' /\ GiveUpInv /\ [Next]_vars => GiveUpInv'
    <2>1. ASSUME TypeInv, TypeInv', GiveUpInv, Next  PROVE GiveUpInv'
      <3>1. /\ \A q \in Requests : RequestMoves(q)
            /\ \A b \in Bookings : PaymentMoves(b)
        BY <2>1, ClientMoves, PaymentStepMoves, OtherMoves DEF Next
      <3>2. RequestRows' /\ InFlight'
        BY <2>1 DEF TypeInv, TypeOK
      <3> QED  BY <2>1, <3>1, <3>2, RecordEffects, GiveUpKept
    <2>2. ASSUME TypeInv, TypeInv', GiveUpInv, UNCHANGED vars  PROVE GiveUpInv'
      <3>1. /\ UNCHANGED req /\ UNCHANGED payment /\ UNCHANGED bookingVars
            /\ RequestRows' /\ InFlight'
        BY <2>2 DEF vars, bookingVars, TypeInv, TypeOK
      <3> QED  BY <2>2, <3>1, SameRequests, SamePayment, QuietRecord, GiveUpKept
    <2> QED  BY <2>1, <2>2
  <1> QED  BY TypeInit, TypeStep, <1>1, <1>2, PTL DEF Spec

(* A payment that is FAILED or EXPIRED belongs to a booking that is         *)
(* CANCELLED or COMPLETED, for any number of callbacks and polls that work  *)
(* on snapshots of the same booking.                                        *)
THEOREM FailedMeansOverHolds == Spec => []FailedMeansOver
  <1>1. GiveUpInv => FailedMeansOver
    BY DEF GiveUpInv
  <1> QED  BY GiveUpHolds, <1>1, PTL

-----------------------------------------------------------------------------
(* The refinement of Checkout. *)

Outset == {"DRAFT", "PENDING_PAYMENT"}
Deciding(r) == req[r].op \in Gateways /\ req[r].step = "commit"

\* Who may call back, or decide, was asked for money.  A snapshot of a booking
\* that is still open shows it open, and no snapshot is left of a payment that
\* succeeds but those that the confirmation has made out of date.
RowAsked(b) == payment[b].url \/ payment[b].qr => payment[b].status # "NONE"
CallAsked(r) == req[r].op \in Gateways => payment[req[r].booking].status # "NONE"
OpenSnapshot(r) == Deciding(r) /\ Stage[req[r].booking] = "open" => req[r].bs \in Outset
PaidSnapshot(r) ==
  Deciding(r) /\ payment[req[r].booking].status = "SUCCESS"
    => Stage[req[r].booking] # "open" /\ req[r].bs \in Outset
CheckoutInv ==
  /\ \A b \in Bookings : RowAsked(b)
  /\ \A r \in Requests : CallAsked(r) /\ OpenSnapshot(r) /\ PaidSnapshot(r)

PurchaseNext == [Purchase!Next]_<<Stage, Money, Bought>>

LEMMA Words ==
  ASSUME NEW s \in PaymentStatus \cup {"NONE"}
  PROVE  /\ WordFor[s] = "none" <=> s = "NONE"
         /\ WordFor[s] = "taken" <=> s = "SUCCESS"
         /\ s = "PENDING" => WordFor[s] = "asked"
         /\ s = "FAILED" => WordFor[s] = "refused"
         /\ s = "EXPIRED" => WordFor[s] = "lapsed"
         /\ s = "LATE_PAYMENT" => WordFor[s] = "late"
  BY DEF WordFor, PaymentStatus

LEMMA MoneyIs ==
  ASSUME TypeOK, NEW b \in Bookings
  PROVE  /\ Money[b] = "none" <=> payment[b].status = "NONE"
         /\ Money[b] = "taken" <=> payment[b].status = "SUCCESS"
         /\ payment[b].status = "PENDING" => Money[b] = "asked"
  <1>1. payment[b].status \in PaymentStatus \cup {"NONE"}
    BY DEF TypeOK, PaymentRows, PaymentRow
  <1>2. Money[b] = WordFor[payment[b].status]
    BY DEF Money
  <1> QED  BY <1>1, <1>2, Words

\* A payment row is written, or the status in it.
LEMMA MoneySet ==
  ASSUME TypeOK, NEW b \in Bookings, NEW row, payment' = [payment EXCEPT ![b] = row]
  PROVE  Money' = [Money EXCEPT ![b] = WordFor[row.status]]
  <1>1. payment'[b] = row /\ \A c \in Bookings \ {b} : payment'[c] = payment[c]
    BY DEF TypeOK, PaymentRows
  <1> DEFINE w == WordFor[row.status]
  <1>2. Money'[b] = w /\ \A c \in Bookings \ {b} : Money'[c] = Money[c]
    BY <1>1 DEF Money
  <1>3. /\ Money = [c \in Bookings |-> Money[c]]
        /\ Money' = [c \in Bookings |-> Money'[c]]
    BY DEF Money
  <1> HIDE DEF w
  <1>4. Money' = [Money EXCEPT ![b] = w]
    BY <1>2, <1>3
  <1> QED  BY <1>4 DEF w

LEMMA StatusSet ==
  ASSUME TypeOK, NEW b \in Bookings, NEW to, payment' = [payment EXCEPT ![b].status = to]
  PROVE  /\ Money' = [Money EXCEPT ![b] = WordFor[to]]
         /\ payment'[b].status = to /\ \A c \in Bookings \ {b} : payment'[c] = payment[c]
  <1> DEFINE row == [payment[b] EXCEPT !.status = to]
  <1>1. payment' = [payment EXCEPT ![b] = row] /\ row.status = to
    BY DEF TypeOK, PaymentRows, PaymentRow
  <1> HIDE DEF row
  <1> QED  BY <1>1, MoneySet DEF TypeOK, PaymentRows

LEMMA StageSet ==
  ASSUME TypeInv, NEW b \in Bookings, NEW from \in BookingStatus, NEW to \in BookingStatus,
         SetStatus(b, from, to)
  PROVE  /\ to \in Over => Stage' = [Stage EXCEPT ![b] = "over"] /\ UNCHANGED Bought
         /\ to = "CONFIRMED" => /\ Stage' = [Stage EXCEPT ![b] = "confirmed"]
                                /\ Bought' = Bought \cup {b}
         /\ to = "PENDING_PAYMENT" /\ status[b] \in Outset => UNCHANGED <<Stage, Bought>>
  <1>1. /\ status'[b] = to
        /\ \A c \in Bookings \ {b} : status'[c] = status[c] /\ history'[c] = history[c]
        /\ WasConfirmed(b)' <=> WasConfirmed(b) \/ to = "CONFIRMED"
    BY Appended
  <1>2. \A c \in Bookings \ {b} : WasConfirmed(c) <=> WasConfirmed(c)'
    BY <1>1, SameHistory
  <1>3. Bought' = IF to = "CONFIRMED" THEN Bought \cup {b} ELSE Bought
    BY <1>1, <1>2 DEF Bought
  <1> QED  BY <1>1, <1>3 DEF Stage, Over, Outset

LEMMA SameStage == UNCHANGED bookingVars => UNCHANGED <<Stage, Bought>>
  BY DEF bookingVars, Stage, Bought, WasConfirmed

(* Steps that leave the payments alone cannot confirm: a payment that is    *)
(* SUCCESS already belongs to a booking that does not wait any more.        *)
LEMMA QuietPurchase ==
  ASSUME TypeInv, RecordInv, RecordEffect, UNCHANGED Money,
         \A b \in Bookings : payment'[b].status = payment[b].status
  PROVE  PurchaseNext
  <1>1. CASE UNCHANGED bookingVars
    BY <1>1, SameStage DEF PurchaseNext
  <1>2. ASSUME NEW b \in Bookings, status[b] = "NONE", status' = [status EXCEPT ![b] = "DRAFT"],
               UNCHANGED history
        PROVE  PurchaseNext
    <2>1. UNCHANGED Bought
      BY <1>2 DEF Bought, WasConfirmed
    <2>2. UNCHANGED Stage
      BY <1>2 DEF Stage, TypeInv, TypeOK, BookingRows
    <2> QED  BY <2>1, <2>2 DEF PurchaseNext
  <1>3. ASSUME NEW b \in Bookings, NEW from \in BookingStatus, NEW to \in BookingStatus,
               SetStatus(b, from, to), Allowed(b, to)
        PROVE  PurchaseNext
    <2>1. CASE to \in Over
      <3>1. Purchase!Leave(b)
        BY <1>3, <2>1, StageSet DEF Purchase!Leave
      <3> QED  BY <3>1 DEF PurchaseNext, Purchase!Next
    <2>2. CASE status[b] = "DRAFT" /\ to = "PENDING_PAYMENT"
      BY <1>3, <2>2, StageSet DEF PurchaseNext, Outset
    <2>3. ~ (status[b] = "PENDING_PAYMENT" /\ Funded(b))
      BY DEF Funded, RecordInv, SuccessMeansConfirmed, ConfirmedLasts, Over
    <2> QED  BY <1>3, <2>1, <2>2, <2>3 DEF Allowed
  <1> QED  BY <1>1, <1>2, <1>3 DEF RecordEffect

\* The transaction that gives a payment up ends the booking, or finds it over.
LEMMA CancelStage ==
  ASSUME TypeInv, GiveUpInv, NEW r \in Requests, Deciding(r), CancelAndRelease(r)
  PROVE  /\ req[r].booking \in Bookings
         /\ Stage' = [Stage EXCEPT ![req[r].booking] = "over"] /\ UNCHANGED Bought
         /\ req[r].bs \in Outset => status[req[r].booking] \in Outset
  <1> DEFINE b == req[r].booking
  <1>1. b \in Bookings /\ TypeOK
    BY DEF Deciding, Gateways, TypeInv, InFlight
  <1>2. CASE CanTransition(req[r].bs, "CANCELLED")
    <2>1. SetStatus(b, req[r].bs, "CANCELLED") /\ status[b] = req[r].bs
      BY <1>2 DEF CancelAndRelease, Transition
    <2>2. req[r].bs \in BookingStatus /\ "CANCELLED" \in BookingStatus /\ "CANCELLED" \in Over
      BY <1>2 DEF CanTransition, BookingStatus, Over
    <2> QED  BY <1>1, <2>1, <2>2, StageSet
  <1>3. CASE ~ CanTransition(req[r].bs, "CANCELLED")
    <2>1. UNCHANGED <<status, history>>
      BY <1>3 DEF CancelAndRelease, bookingVars
    <2>2. status'[b] \in Over
      BY CancelEnds DEF Deciding
    <2>3. Stage[b] = "over"
      BY <1>1, <2>1, <2>2 DEF Stage, Over
    <2>4. Stage' = [Stage EXCEPT ![b] = "over"] /\ UNCHANGED Bought
      <3>1. UNCHANGED <<Stage, Bought>>
        BY <2>1, SameStage DEF bookingVars
      <3> QED  BY <1>1, <2>3, <3>1 DEF Stage
    <2>5. req[r].bs \notin Outset
      BY <1>3 DEF CanTransition, BOOKING_TRANSITIONS, BookingStatus, Outset
    <2> QED  BY <1>1, <2>4, <2>5
  <1> QED  BY <1>2, <1>3

LEMMA PendingStage ==
  ASSUME TypeInv, NEW b \in Bookings, ToPendingPayment(b)
  PROVE  UNCHANGED <<Stage, Bought>>
  <1>1. CASE CanTransition(status[b], "PENDING_PAYMENT")
    <2>1. /\ SetStatus(b, status[b], "PENDING_PAYMENT")
          /\ status[b] \in BookingStatus /\ "PENDING_PAYMENT" \in BookingStatus
      BY <1>1 DEF ToPendingPayment, Transition, CanTransition, BookingStatus
    <2>2. status[b] \in Outset
      BY <1>1, Edges DEF Outset
    <2> QED  BY <2>1, <2>2, StageSet
  <1>2. CASE ~ CanTransition(status[b], "PENDING_PAYMENT")
    BY <1>2, SameStage DEF ToPendingPayment
  <1> QED  BY <1>1, <1>2

\* A row that was not handed out before says PENDING.
RowMoves(b) == payment'[b] = payment[b] \/ payment'[b].status # "NONE"

LEMMA AskStep ==
  ASSUME TypeInv, NEW r \in Requests, CommitInitiatePayment(r) \/ CommitInitiateSepay(r)
  PROVE  PurchaseNext /\ \A b \in Bookings : RowMoves(b)
  <1> DEFINE b == req[r].booking
  <1>1. b \in Bookings /\ TypeOK /\ ToPendingPayment(b)
    BY DEF CommitInitiatePayment, CommitInitiateSepay, At, TypeInv, InFlight
  <1>2. PICK row : payment' = [payment EXCEPT ![b] = row] /\ row.status = "PENDING"
    <2>1. CASE CreatePayment(b, [NoPayment EXCEPT !.status = "PENDING", !.url = TRUE])
      <3> DEFINE new == [NoPayment EXCEPT !.status = "PENDING", !.url = TRUE]
      <3>1. payment' = [payment EXCEPT ![b] = new] /\ new.status = "PENDING"
        BY <2>1 DEF CreatePayment, NoPayment
      <3> HIDE DEF new
      <3> QED  BY <3>1
    <2>2. CASE CreatePayment(b, [NoPayment EXCEPT !.status = "PENDING", !.qr = TRUE])
      <3> DEFINE new == [NoPayment EXCEPT !.status = "PENDING", !.qr = TRUE]
      <3>1. payment' = [payment EXCEPT ![b] = new] /\ new.status = "PENDING"
        BY <2>2 DEF CreatePayment, NoPayment
      <3> HIDE DEF new
      <3> QED  BY <3>1
    <2>3. CASE payment[b].status = "PENDING" /\ payment' = [payment EXCEPT ![b].url = TRUE]
      <3> DEFINE new == [payment[b] EXCEPT !.url = TRUE]
      <3>1. payment' = [payment EXCEPT ![b] = new] /\ new.status = "PENDING"
        BY <1>1, <2>3 DEF TypeOK, PaymentRows, PaymentRow
      <3> HIDE DEF new
      <3> QED  BY <3>1
    <2>4. CASE payment' = [payment EXCEPT ![b].status = "PENDING", ![b].qr = TRUE,
                                          ![b].expired = FALSE]
      <3> DEFINE new == [payment[b] EXCEPT !.status = "PENDING", !.qr = TRUE,
                                           !.expired = FALSE]
      <3>1. payment' = [payment EXCEPT ![b] = new] /\ new.status = "PENDING"
        BY <1>1, <2>4 DEF TypeOK, PaymentRows, PaymentRow
      <3> HIDE DEF new
      <3> QED  BY <3>1
    <2> QED
      BY <2>1, <2>2, <2>3, <2>4 DEF CommitInitiatePayment, CommitInitiateSepay
  <1>3. Money' = [Money EXCEPT ![b] = "asked"]
    <2>1. WordFor[row.status] = "asked"
      BY <1>2 DEF WordFor
    <2>2. Money' = [Money EXCEPT ![b] = WordFor[row.status]]
      BY <1>1, <1>2, MoneySet
    <2> QED  BY <2>1, <2>2
  <1>4. UNCHANGED <<Stage, Bought>>
    BY <1>1, PendingStage
  <1>5. Purchase!Ask(b)
    BY <1>3, <1>4 DEF Purchase!Ask
  <1>6. \A c \in Bookings : RowMoves(c)
    <2>1. payment'[b] = row /\ \A c \in Bookings \ {b} : payment'[c] = payment[c]
      BY <1>1, <1>2 DEF TypeOK, PaymentRows
    <2> QED  BY <1>2, <2>1 DEF RowMoves
  <1> QED  BY <1>1, <1>5, <1>6 DEF PurchaseNext, Purchase!Next

LEMMA TakeStep ==
  ASSUME TypeInv, RecordInv, NEW r \in Requests, Deciding(r), PaymentSucceeds(r)
  PROVE  PurchaseNext /\ \A b \in Bookings : RowMoves(b)
  <1> DEFINE b == req[r].booking
  <1>1. b \in Bookings /\ TypeOK
    BY DEF Deciding, Gateways, TypeInv, InFlight
  <1>2. /\ payment[b].status = "PENDING"
        /\ payment' = [payment EXCEPT ![b].status = "SUCCESS"]
        /\ Transition(b, req[r].bs, "CONFIRMED")
    BY DEF PaymentSucceeds, SetPayment, Confirm
  <1>3. /\ SetStatus(b, req[r].bs, "CONFIRMED") /\ status[b] = "PENDING_PAYMENT"
        /\ req[r].bs \in BookingStatus /\ "CONFIRMED" \in BookingStatus
    BY <1>2, Edges DEF Transition, CanTransition, BookingStatus
  <1>4. Stage' = [Stage EXCEPT ![b] = "confirmed"] /\ Bought' = Bought \cup {b}
    BY <1>1, <1>3, StageSet
  <1>5. Money' = [Money EXCEPT ![b] = "taken"] /\ Money[b] = "asked"
    <2>1. WordFor["SUCCESS"] = "taken" /\ Money[b] = "asked"
      BY <1>1, <1>2, MoneyIs DEF WordFor
    <2>2. Money' = [Money EXCEPT ![b] = WordFor["SUCCESS"]]
      BY <1>1, <1>2, StatusSet
    <2> QED  BY <2>1, <2>2
  <1>6. Stage[b] = "open" /\ b \notin Bought
    BY <1>1, <1>3 DEF Stage, Bought, RecordInv, ConfirmedLasts, Over
  <1>7. Purchase!Take(b)
    BY <1>4, <1>5, <1>6 DEF Purchase!Take
  <1>8. \A c \in Bookings : RowMoves(c)
    BY <1>1, <1>2, StatusSet DEF RowMoves
  <1> QED  BY <1>1, <1>7, <1>8 DEF PurchaseNext, Purchase!Next

LEMMA RefuseStep ==
  ASSUME TypeInv, GiveUpInv, NEW r \in Requests, Deciding(r), PaymentFails(r)
  PROVE  PurchaseNext /\ \A b \in Bookings : RowMoves(b)
  <1> DEFINE b == req[r].booking
  <1>1. /\ payment[b].status = "PENDING"
        /\ payment' = [payment EXCEPT ![b].status = "FAILED"]
        /\ CancelAndRelease(r)
    BY DEF PaymentFails, SetPayment
  <1>2. /\ b \in Bookings /\ TypeOK
        /\ Stage' = [Stage EXCEPT ![b] = "over"] /\ UNCHANGED Bought
    BY <1>1, CancelStage DEF TypeInv
  <1>3. Money' = [Money EXCEPT ![b] = "refused"] /\ Money[b] = "asked"
    <2>1. WordFor["FAILED"] = "refused" /\ Money[b] = "asked"
      BY <1>1, <1>2, MoneyIs DEF WordFor
    <2>2. Money' = [Money EXCEPT ![b] = WordFor["FAILED"]]
      BY <1>1, <1>2, StatusSet
    <2> QED  BY <2>1, <2>2
  <1>4. Purchase!Refuse(b)
    BY <1>2, <1>3 DEF Purchase!Refuse, Purchase!GiveUp
  <1>5. \A c \in Bookings : RowMoves(c)
    BY <1>1, <1>2, StatusSet DEF RowMoves
  <1> QED  BY <1>2, <1>4, <1>5 DEF PurchaseNext, Purchase!Next

(* The poll's unconditional EXPIRED never overwrites SUCCESS: its cancel    *)
(* fails when the booking was confirmed after the snapshot.                 *)
LEMMA LapseStep ==
  ASSUME TypeInv, GiveUpInv, CheckoutInv, NEW r \in Requests, CommitExpiredPayment(r)
  PROVE  PurchaseNext /\ \A b \in Bookings : RowMoves(b)
  <1> DEFINE b == req[r].booking
  <1>1. /\ Deciding(r) /\ CancelAndRelease(r)
        /\ payment' = [payment EXCEPT ![b].status = "EXPIRED"]
    BY DEF CommitExpiredPayment, At, Deciding, Gateways
  <1>2. /\ b \in Bookings /\ TypeOK
        /\ Stage' = [Stage EXCEPT ![b] = "over"] /\ UNCHANGED Bought
        /\ req[r].bs \in Outset => status[b] \in Outset
    BY <1>1, CancelStage DEF TypeInv
  <1>3. Money[b] # "none"
    BY <1>1, <1>2, MoneyIs DEF CheckoutInv, CallAsked, Deciding
  <1>4. Money[b] # "taken"
    <2>1. SUFFICES ASSUME payment[b].status = "SUCCESS"  PROVE FALSE
      BY <1>2, MoneyIs
    <2>2. Stage[b] # "open" /\ req[r].bs \in Outset
      BY <1>1, <2>1 DEF CheckoutInv, PaidSnapshot
    <2>3. Stage[b] = "open"
      BY <1>2, <2>2 DEF Stage, Outset
    <2> QED  BY <2>2, <2>3
  <1>5. Money' = [Money EXCEPT ![b] = "lapsed"]
    <2>1. WordFor["EXPIRED"] = "lapsed"
      BY DEF WordFor
    <2>2. Money' = [Money EXCEPT ![b] = WordFor["EXPIRED"]]
      BY <1>1, <1>2, StatusSet
    <2> QED  BY <2>1, <2>2
  <1>6. Purchase!Lapse(b)
    BY <1>2, <1>3, <1>4, <1>5 DEF Purchase!Lapse, Purchase!GiveUp
  <1>7. \A c \in Bookings : RowMoves(c)
    BY <1>1, <1>2, StatusSet DEF RowMoves
  <1> QED  BY <1>2, <1>6, <1>7 DEF PurchaseNext, Purchase!Next

LEMMA LateStep ==
  ASSUME TypeInv, CheckoutInv, NEW r \in Requests, CommitLatePayment(r)
  PROVE  PurchaseNext /\ \A b \in Bookings : RowMoves(b)
  <1> DEFINE b == req[r].booking
  <1>1. /\ Deciding(r) /\ UNCHANGED bookingVars
        /\ payment' = [payment EXCEPT ![b].status = "LATE_PAYMENT"]
    BY DEF CommitLatePayment, At, Deciding, Gateways
  <1>2. b \in Bookings /\ TypeOK
    BY <1>1 DEF Deciding, Gateways, TypeInv, InFlight
  <1>3. Money[b] # "none"
    BY <1>1, <1>2, MoneyIs DEF CheckoutInv, CallAsked, Deciding
  <1>4. Money' = [Money EXCEPT ![b] = "late"] /\ UNCHANGED <<Stage, Bought>>
    <2>1. WordFor["LATE_PAYMENT"] = "late" /\ UNCHANGED <<Stage, Bought>>
      BY <1>1, SameStage DEF WordFor
    <2>2. Money' = [Money EXCEPT ![b] = WordFor["LATE_PAYMENT"]]
      BY <1>1, <1>2, StatusSet
    <2> QED  BY <2>1, <2>2
  <1>5. Purchase!Late(b)
    BY <1>3, <1>4 DEF Purchase!Late
  <1>6. \A c \in Bookings : RowMoves(c)
    BY <1>1, <1>2, StatusSet DEF RowMoves
  <1> QED  BY <1>2, <1>5, <1>6 DEF PurchaseNext, Purchase!Next

LEMMA PurchaseStep ==
  ASSUME TypeInv, RecordInv, GiveUpInv, CheckoutInv, Next
  PROVE  PurchaseNext /\ \A b \in Bookings : RowMoves(b)
  <1>1. RecordEffect
    BY RecordEffects
  <1>2. CASE UNCHANGED payment
    <2>1. UNCHANGED Money
      BY <1>2 DEF Money
    <2> QED  BY <1>1, <1>2, <2>1, QuietPurchase DEF RowMoves
  <1>3. ASSUME NEW b \in Bookings, PaymentTimeout(b)
        PROVE  PurchaseNext /\ \A c \in Bookings : RowMoves(c)
    <2>1. \A c \in Bookings : payment'[c].status = payment[c].status
      BY <1>3 DEF PaymentTimeout, TypeInv, TypeOK, PaymentRows, PaymentRow
    <2>2. UNCHANGED Money
      BY <2>1 DEF Money
    <2>3. payment[b].status # "NONE"
      BY <1>3 DEF PaymentTimeout, CheckoutInv, RowAsked
    <2>4. \A c \in Bookings \ {b} : payment'[c] = payment[c]
      BY <1>3 DEF PaymentTimeout, TypeInv, TypeOK, PaymentRows
    <2> QED  BY <1>1, <2>1, <2>2, <2>3, <2>4, QuietPurchase DEF RowMoves
  <1>4. ASSUME NEW r \in Requests, PaymentStep(r), payment' # payment
        PROVE  PurchaseNext /\ \A b \in Bookings : RowMoves(b)
    <2>1. \/ CommitInitiatePayment(r) \/ CommitInitiateSepay(r)
          \/ \E ok \in BOOLEAN : CommitVnpayCallback(r, ok) \/ CommitSepayWebhook(r, ok)
          \/ CommitLatePayment(r) \/ CommitExpiredPayment(r)
      BY <1>4
      DEF PaymentStep, InitiateRead, ReadExistingPayment, VnpayCallback, SepayWebhook,
          Snapshot, GetPaymentStatus, SnapshotPaymentStatus, RequestRefund, CreateRefund,
          payVars
    <2>2. ASSUME NEW ok \in BOOLEAN, CommitVnpayCallback(r, ok) \/ CommitSepayWebhook(r, ok)
          PROVE  Deciding(r) /\ (PaymentSucceeds(r) \/ PaymentFails(r))
      BY <2>2 DEF CommitVnpayCallback, CommitSepayWebhook, At, Deciding, Gateways
    <2> QED
      BY <2>1, <2>2, AskStep, TakeStep, RefuseStep, LapseStep, LateStep
  <1>5. ASSUME payment' # payment
        PROVE  \/ \E b \in Bookings : PaymentTimeout(b)
               \/ \E r \in Requests : PaymentStep(r)
    BY <1>5
    DEF Next, ClientStep, CreateDraft, EnqueueExpiry, ReadDraft, UpdatePassengers,
        SelectSeatForPassenger, ApplyVoucher, CompleteBegin, AwardPoints, CompleteCommit,
        Abort, RowStep, UpdateStatus, CompleteWithoutPoints, WorkerStep, TakeJob,
        ExpireBooking, ExpireNothing, JobFails, WorkerCrash, payVars
  <1> QED  BY <1>2, <1>3, <1>4, <1>5

\* What a purchase step says of one booking.
LEMMA PurchaseMoves ==
  ASSUME TypeOK, TypeOK', PurchaseNext, NEW b \in Bookings
  PROVE  /\ Stage'[b] = "open" => Stage[b] = "open"
         /\ payment[b].status # "NONE" => payment'[b].status # "NONE"
         /\ payment'[b].status = "SUCCESS" =>
              payment[b].status = "SUCCESS" \/ (Stage[b] = "open" /\ Stage'[b] # "open")
  <1>1. /\ Money'[b] = "none" <=> payment'[b].status = "NONE"
        /\ Money'[b] = "taken" <=> payment'[b].status = "SUCCESS"
    <2>1. payment'[b].status \in PaymentStatus \cup {"NONE"}
      BY DEF TypeOK, PaymentRows, PaymentRow
    <2>2. Money'[b] = WordFor[payment'[b].status]
      BY DEF Money
    <2> QED  BY <2>1, <2>2, Words
  <1>2. DOMAIN Money = Bookings /\ DOMAIN Stage = Bookings
    BY DEF Money, Stage
  <1>3. /\ Stage'[b] = "open" => Stage[b] = "open"
        /\ Money[b] # "none" => Money'[b] # "none"
        /\ Money'[b] = "taken" =>
             Money[b] = "taken" \/ (Stage[b] = "open" /\ Stage'[b] # "open")
    <2>1. CASE UNCHANGED <<Stage, Money>>
      BY <2>1
    <2>2. ASSUME NEW c \in Bookings, NEW st, NEW w, Stage' = [Stage EXCEPT ![c] = st],
                 Money' = [Money EXCEPT ![c] = w], st # "open" \/ st = Stage[c],
                 w # "none" \/ w = Money[c],
                 w = "taken" => w = Money[c] \/ (Stage[c] = "open" /\ st # "open")
          PROVE  /\ Stage'[b] = "open" => Stage[b] = "open"
                 /\ Money[b] # "none" => Money'[b] # "none"
                 /\ Money'[b] = "taken" =>
                      Money[b] = "taken" \/ (Stage[b] = "open" /\ Stage'[b] # "open")
      <3>1. CASE b = c
        BY <1>2, <2>2, <3>1
      <3>2. CASE b # c
        BY <1>2, <2>2, <3>2
      <3> QED  BY <3>1, <3>2
    <2>3. \A c \in Bookings : /\ Stage = [Stage EXCEPT ![c] = Stage[c]]
                              /\ Money = [Money EXCEPT ![c] = Money[c]]
      BY DEF Stage, Money
    <2> DEFINE Held == /\ Stage'[b] = "open" => Stage[b] = "open"
                       /\ Money[b] # "none" => Money'[b] # "none"
                       /\ Money'[b] = "taken" =>
                            Money[b] = "taken" \/ (Stage[b] = "open" /\ Stage'[b] # "open")
    <2>4. ASSUME NEW c \in Bookings, Purchase!Ask(c)  PROVE Held
      <3>1. Stage' = [Stage EXCEPT ![c] = Stage[c]] /\ Money' = [Money EXCEPT ![c] = "asked"]
        BY <2>3, <2>4 DEF Purchase!Ask
      <3> QED  BY <2>2, <3>1
    <2>5. ASSUME NEW c \in Bookings, Purchase!Late(c)  PROVE Held
      <3>1. Stage' = [Stage EXCEPT ![c] = Stage[c]] /\ Money' = [Money EXCEPT ![c] = "late"]
        BY <2>3, <2>5 DEF Purchase!Late
      <3> QED  BY <2>2, <3>1
    <2>6. ASSUME NEW c \in Bookings, Purchase!Take(c)  PROVE Held
      <3>1. /\ Stage' = [Stage EXCEPT ![c] = "confirmed"] /\ Stage[c] = "open"
            /\ Money' = [Money EXCEPT ![c] = "taken"]
        BY <2>6 DEF Purchase!Take
      <3> QED  BY <2>2, <3>1
    <2>7. ASSUME NEW c \in Bookings, Purchase!Refuse(c)  PROVE Held
      <3>1. Stage' = [Stage EXCEPT ![c] = "over"] /\ Money' = [Money EXCEPT ![c] = "refused"]
        BY <2>7 DEF Purchase!Refuse, Purchase!GiveUp
      <3> QED  BY <2>2, <3>1
    <2>8. ASSUME NEW c \in Bookings, Purchase!Lapse(c)  PROVE Held
      <3>1. Stage' = [Stage EXCEPT ![c] = "over"] /\ Money' = [Money EXCEPT ![c] = "lapsed"]
        BY <2>8 DEF Purchase!Lapse, Purchase!GiveUp
      <3> QED  BY <2>2, <3>1
    <2>9. ASSUME NEW c \in Bookings, Purchase!Leave(c)  PROVE Held
      <3>1. Stage' = [Stage EXCEPT ![c] = "over"] /\ Money' = [Money EXCEPT ![c] = Money[c]]
        BY <2>3, <2>9 DEF Purchase!Leave
      <3> QED  BY <2>2, <3>1
    <2> HIDE DEF Held
    <2>10. Held
      BY <2>1, <2>4, <2>5, <2>6, <2>7, <2>8, <2>9 DEF PurchaseNext, Purchase!Next, Held
    <2> QED  BY <2>10 DEF Held
  <1> QED  BY <1>1, <1>3, MoneyIs

\* A gateway's request that was not there before: a payment waits for it, and a
\* snapshot shows what the booking is.
Asks(q) ==
  req'[q].op \in Gateways =>
    \/ req'[q] = req[q]
    \/ /\ UNCHANGED <<payment, status>> /\ req'[q].booking \in Bookings
       /\ payment[req'[q].booking].status \notin {"NONE", "SUCCESS"}
       /\ req'[q].step = "commit" => req'[q].bs = status[req'[q].booking]

LEMMA CheckoutKept ==
  ASSUME TypeInv, TypeInv', GiveUpInv, CheckoutInv, PurchaseNext,
         \A b \in Bookings : RowMoves(b), \A q \in Requests : Asks(q)
  PROVE  CheckoutInv'
  <1>a. TypeOK /\ TypeOK'
    BY DEF TypeInv
  <1>1. ASSUME NEW b \in Bookings  PROVE RowAsked(b)'
    BY DEF CheckoutInv, RowAsked, RowMoves
  <1>2. ASSUME NEW r \in Requests  PROVE CallAsked(r)' /\ OpenSnapshot(r)' /\ PaidSnapshot(r)'
    <2>1. CASE req'[r].op \notin Gateways
      BY <2>1 DEF CallAsked, OpenSnapshot, PaidSnapshot, Deciding
    <2>2. CASE req'[r].op \in Gateways /\ req'[r] = req[r]
      <3> DEFINE b == req[r].booking
      <3>1. b \in Bookings
        BY <2>2 DEF TypeInv, InFlight, Gateways
      <3>2. CallAsked(r) /\ OpenSnapshot(r) /\ PaidSnapshot(r)
        BY DEF CheckoutInv
      <3>3. /\ Stage'[b] = "open" => Stage[b] = "open"
            /\ payment[b].status # "NONE" => payment'[b].status # "NONE"
            /\ payment'[b].status = "SUCCESS" =>
                 payment[b].status = "SUCCESS" \/ (Stage[b] = "open" /\ Stage'[b] # "open")
        BY <1>a, <3>1, PurchaseMoves
      <3> QED
        BY <2>2, <3>2, <3>3 DEF CallAsked, OpenSnapshot, PaidSnapshot, Deciding
    <2>3. CASE /\ UNCHANGED <<payment, status>> /\ req'[r].booking \in Bookings
               /\ payment[req'[r].booking].status \notin {"NONE", "SUCCESS"}
               /\ req'[r].step = "commit" => req'[r].bs = status[req'[r].booking]
      <3> DEFINE b == req'[r].booking
      <3>1. payment[b] # NoPayment
        BY <2>3 DEF NoPayment
      <3>2. status[b] \in BookingStatus
        BY <1>a, <2>3, <3>1 DEF GiveUpInv, PaymentExists, TypeOK, BookingRows
      <3>3. Stage'[b] = "open" => status[b] \in Outset
        BY <2>3, <3>2 DEF Stage, BookingStatus, Outset
      <3> QED
        BY <2>3, <3>3 DEF CallAsked, OpenSnapshot, PaidSnapshot, Deciding
    <2> QED  BY <2>1, <2>2, <2>3 DEF Asks
  <1> QED  BY <1>1, <1>2 DEF CheckoutInv

LEMMA OneAsks ==
  ASSUME TypeInv, NEW r \in Requests, NEW x, req' = [req EXCEPT ![r] = x],
         \/ x.op \notin Gateways
         \/ /\ UNCHANGED <<payment, status>> /\ x.booking \in Bookings
            /\ payment[x.booking].status \notin {"NONE", "SUCCESS"}
            /\ x.step = "commit" => x.bs = status[x.booking]
  PROVE  \A q \in Requests : Asks(q)
  <1>1. req'[r] = x /\ \A q \in Requests \ {r} : req'[q] = req[q]
    BY DEF TypeInv, TypeOK, RequestRows
  <1> QED  BY <1>1 DEF Asks

LEMMA DoneAsks ==
  ASSUME TypeInv, NEW r \in Requests, Done(r)
  PROVE  \A q \in Requests : Asks(q)
  <1>1. Idle.op \notin Gateways
    BY DEF Idle, Gateways
  <1> QED  BY <1>1, OneAsks DEF Done

LEMMA BeginAsks ==
  ASSUME TypeInv, NEW r \in Requests, NEW b \in Bookings, NEW op, NEW step,
         Begin(r, op, step, b), step # "commit" \/ op \notin Gateways,
         \/ op \notin Gateways
         \/ UNCHANGED <<payment, status>> /\ payment[b].status \notin {"NONE", "SUCCESS"}
  PROVE  \A q \in Requests : Asks(q)
  <1> DEFINE x == [Idle EXCEPT !.op = op, !.step = step, !.booking = b, !.bs = status[b]]
  <1>1. /\ req' = [req EXCEPT ![r] = x]
        /\ x.op = op /\ x.step = step /\ x.booking = b
    BY DEF Begin, Idle
  <1> HIDE DEF x
  <1> QED  BY <1>1, OneAsks

LEMMA SnapshotAsks ==
  ASSUME TypeInv, NEW r \in Requests, NEW b \in Bookings, NEW op, Snapshot(r, op, b),
         payment[b].status \notin {"NONE", "SUCCESS"}
  PROVE  \A q \in Requests : Asks(q)
  <1> DEFINE x == [op |-> op, step |-> "commit", booking |-> b, bs |-> status[b],
                   ps |-> payment[b].status, late |-> payment[b].expired,
                   seats |-> SeatsOf(b)]
  <1>1. /\ req' = [req EXCEPT ![r] = x]
        /\ x.booking = b /\ x.bs = status[b]
        /\ UNCHANGED <<payment, status>>
    BY DEF Snapshot, payVars, bookingVars
  <1> HIDE DEF x
  <1> QED  BY <1>1, OneAsks

LEMMA ClientAsks ==
  ASSUME TypeInv, NEW r \in Requests, ClientStep(r)
  PROVE  \A q \in Requests : Asks(q)
  <1>1. ASSUME NEW b \in Bookings, CreateDraft(r, b)  PROVE \A q \in Requests : Asks(q)
    <2> DEFINE x == [Idle EXCEPT !.op = "createDraftBooking", !.step = "enqueue",
                                 !.booking = b]
    <2>1. req' = [req EXCEPT ![r] = x] /\ x.op \notin Gateways
      BY <1>1 DEF CreateDraft, Idle, Gateways
    <2> HIDE DEF x
    <2> QED  BY <2>1, OneAsks
  <1>2. ASSUME NEW b \in Bookings, NEW op \in Ops, ReadDraft(r, b, op)
        PROVE  \A q \in Requests : Asks(q)
    <2>1. Begin(r, op, "commit", b) /\ op \notin Gateways
      BY <1>2 DEF ReadDraft, Gateways
    <2> QED  BY <2>1, BeginAsks
  <1>3. ASSUME NEW b \in Bookings, CompleteBegin(r, b)  PROVE \A q \in Requests : Asks(q)
    <2>1. Begin(r, "complete", "award", b) /\ "complete" \notin Gateways
      BY <1>3 DEF CompleteBegin, Gateways
    <2> QED  BY <2>1, BeginAsks
  <1>4. ASSUME AwardPoints(r)  PROVE \A q \in Requests : Asks(q)
    <2> DEFINE x == [req[r] EXCEPT !.step = "commit"]
    <2>1. req' = [req EXCEPT ![r] = x] /\ req[r].op = "complete"
      BY <1>4 DEF AwardPoints, At
    <2>2. x.op \notin Gateways
      BY <2>1 DEF Gateways, TypeInv, TypeOK, RequestRows, Request
    <2> HIDE DEF x
    <2> QED  BY <2>1, <2>2, OneAsks
  <1>5. \/ Done(r) \/ AwardPoints(r)
        \/ \E b \in Bookings : CreateDraft(r, b) \/ CompleteBegin(r, b)
        \/ \E b \in Bookings, op \in Ops : ReadDraft(r, b, op)
    BY DEF ClientStep, EnqueueExpiry, UpdatePassengers, SelectSeatForPassenger,
           ApplyVoucher, CompleteCommit, Abort
  <1> QED  BY <1>1, <1>2, <1>3, <1>4, <1>5, DoneAsks

LEMMA PaymentAsks ==
  ASSUME TypeInv, CheckoutInv, NEW r \in Requests, PaymentStep(r)
  PROVE  \A q \in Requests : Asks(q)
  <1>1. ASSUME NEW b \in Bookings, NEW op \in Ops, InitiateRead(r, b, op)
        PROVE  \A q \in Requests : Asks(q)
    <2>1. Begin(r, op, "readPayment", b) /\ op \notin Gateways
      BY <1>1 DEF InitiateRead, Gateways
    <2> QED  BY <2>1, BeginAsks
  <1>2. ASSUME ReadExistingPayment(r)  PROVE \A q \in Requests : Asks(q)
    <2>1. PICK ps : req' = [req EXCEPT ![r] = [req[r] EXCEPT !.step = "commit", !.ps = ps]]
      BY <1>2 DEF ReadExistingPayment
    <2> DEFINE x == [req[r] EXCEPT !.step = "commit", !.ps = ps]
    <2>2. x.op \notin Gateways
      BY <1>2 DEF ReadExistingPayment, Gateways, TypeInv, TypeOK, RequestRows, Request
    <2> HIDE DEF x
    <2> QED  BY <2>1, <2>2, OneAsks DEF x
  <1>3. ASSUME NEW b \in Bookings, VnpayCallback(r, b) \/ SepayWebhook(r, b)
        PROVE  \A q \in Requests : Asks(q)
    <2>1. /\ payment[b].status \notin {"NONE", "SUCCESS"}
          /\ Snapshot(r, "vnpayCallback", b) \/ Snapshot(r, "sepayWebhook", b)
      BY <1>3 DEF VnpayCallback, SepayWebhook, CheckoutInv, RowAsked
    <2> QED  BY <2>1, SnapshotAsks
  <1>4. ASSUME NEW b \in Bookings, GetPaymentStatus(r, b)  PROVE \A q \in Requests : Asks(q)
    <2>1. /\ payment[b].status \notin {"NONE", "SUCCESS"} /\ UNCHANGED <<payment, status>>
          /\ Begin(r, "getPaymentStatus", "snapshot", b)
      BY <1>4 DEF GetPaymentStatus, payVars, bookingVars
    <2> QED  BY <2>1, BeginAsks
  <1>5. ASSUME SnapshotPaymentStatus(r)  PROVE \A q \in Requests : Asks(q)
    <2>1. /\ payment[req[r].booking].status \notin {"NONE", "SUCCESS"}
          /\ Snapshot(r, "getPaymentStatus", req[r].booking) /\ req[r].booking \in Bookings
      BY <1>5 DEF SnapshotPaymentStatus, At, TypeInv, InFlight
    <2> QED  BY <2>1, SnapshotAsks
  <1>6. ASSUME NEW b \in Bookings, RequestRefund(r, b)  PROVE \A q \in Requests : Asks(q)
    <2>1. Begin(r, "requestRefund", "commit", b) /\ "requestRefund" \notin Gateways
      BY <1>6 DEF RequestRefund, Gateways
    <2> QED  BY <2>1, BeginAsks
  <1>7. \/ Done(r)
        \/ \E b \in Bookings, op \in Ops : InitiateRead(r, b, op)
        \/ ReadExistingPayment(r) \/ SnapshotPaymentStatus(r)
        \/ \E b \in Bookings : VnpayCallback(r, b) \/ SepayWebhook(r, b)
                                \/ GetPaymentStatus(r, b) \/ RequestRefund(r, b)
    BY DEF PaymentStep, CommitInitiatePayment, CommitInitiateSepay, CommitVnpayCallback,
           CommitLatePayment, CommitSepayWebhook, CommitExpiredPayment, CreateRefund
  <1> QED  BY <1>1, <1>2, <1>3, <1>4, <1>5, <1>6, <1>7, DoneAsks

LEMMA AsksStep ==
  ASSUME TypeInv, CheckoutInv, Next
  PROVE  \A q \in Requests : Asks(q)
  <1>1. ASSUME RowStep \/ WorkerStep  PROVE \A q \in Requests : Asks(q)
    <2>1. UNCHANGED req
      BY <1>1
      DEF RowStep, UpdateStatus, CompleteWithoutPoints, PaymentTimeout, WorkerStep,
          TakeJob, ExpireBooking, ExpireNothing, JobFails, WorkerCrash
    <2> QED  BY <2>1 DEF Asks
  <1> QED  BY <1>1, ClientAsks, PaymentAsks DEF Next

(* Bookings, payments, gateways, polls and expiry together implement        *)
(* Checkout: a booking is bought at most once, in the step that takes the   *)
(* money it was asked for; who refuses the money, or lets it lapse, ends    *)
(* the booking; and no poll lets money lapse that was taken.                *)
THEOREM PaymentsAreCheckoutHolds == Spec => PaymentsAreCheckout
  <1>1. Init => CheckoutInv
    BY DEF Init, CheckoutInv, RowAsked, CallAsked, OpenSnapshot, PaidSnapshot, Deciding,
           NoPayment, Idle, Gateways
  <1>2. Init => Purchase!Init
    <2> SUFFICES ASSUME Init  PROVE Purchase!Init
      OBVIOUS
    <2>1. \A b \in Bookings : ~ WasConfirmed(b)
      BY DEF Init, WasConfirmed
    <2>2. \A b \in Bookings : status[b] = "NONE" /\ payment[b].status = "NONE"
      BY DEF Init, NoPayment
    <2>3. WordFor["NONE"] = "none"
      BY DEF WordFor
    <2> QED  BY <2>1, <2>2, <2>3 DEF Purchase!Init, Stage, Money, Bought
  <1>3. ASSUME TypeInv, RecordInv, GiveUpInv, CheckoutInv, [Next]_vars
        PROVE  PurchaseNext /\ (TypeInv' => CheckoutInv')
    <2>1. CASE Next
      <3>1. PurchaseNext /\ \A b \in Bookings : RowMoves(b)
        BY <1>3, <2>1, PurchaseStep
      <3> QED  BY <1>3, <2>1, <3>1, AsksStep, CheckoutKept
    <2>2. CASE UNCHANGED vars
      <3>1. UNCHANGED <<bookingVars, payment, req>>
        BY <2>2 DEF vars, bookingVars
      <3>2. UNCHANGED <<Stage, Bought, Money>>
        BY <3>1, SameStage DEF Money
      <3>3. PurchaseNext
        BY <3>2 DEF PurchaseNext
      <3> QED  BY <1>3, <3>1, <3>3, CheckoutKept DEF RowMoves, Asks
    <2> QED  BY <1>3, <2>1, <2>2
  <1>4. Spec => []TypeInv /\ []RecordInv /\ []GiveUpInv
    BY TypeInit, TypeStep, RecordHolds, GiveUpHolds, PTL DEF Spec
  <1>5. TypeInv /\ TypeInv' /\ RecordInv /\ GiveUpInv /\ CheckoutInv /\ [Next]_vars
          => PurchaseNext /\ CheckoutInv'
    BY <1>3
  <1> QED
    BY <1>1, <1>2, <1>4, <1>5, PTL
    DEF Spec, PaymentsAreCheckout, Purchase!Spec, PurchaseNext
=============================================================================
