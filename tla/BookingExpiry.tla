--------------------------- MODULE BookingExpiry ----------------------------
(***************************************************************************)
(* BookingExpiryProcessor: the BullMQ worker of the queue `booking`.  One    *)
(* job per booking, due 15 minutes after its creation; the worker runs one   *)
(* job at a time; a job that throws is not tried again (attempts is 1), a    *)
(* job whose worker dies is given out once more (maxStalledCount is 1).      *)
(***************************************************************************)
EXTENDS BookingTables

\* Mutant: a booking whose payment has begun is left to the gateways.
TakeJob_DraftOnly(b) ==
  /\ worker = WorkerIdle
  /\ job[b] \in {"delayed", "stalled"}
  /\ IF status[b] = "DRAFT"
     THEN /\ worker' = [booking |-> b, bs |-> status[b], seats |-> SeatsOf(b),
                        retried |-> job[b] = "stalled"]
          /\ job' = [job EXCEPT ![b] = "active"]
     ELSE /\ job' = [job EXCEPT ![b] = "done"]
          /\ UNCHANGED worker
  /\ UNCHANGED <<bookingVars, seatVars, payVars, points, voucherVars, req>>

(* The read outside the transaction: status, and the seats of the           *)
(* passengers at that moment.  A booking that is neither DRAFT nor          *)
(* PENDING_PAYMENT ends the job.                                            *)
TakeJob(b) ==
  /\ worker = WorkerIdle
  /\ job[b] \in {"delayed", "stalled"}
  /\ IF status[b] \in {"DRAFT", "PENDING_PAYMENT"}
     THEN /\ worker' = [booking |-> b, bs |-> status[b], seats |-> SeatsOf(b),
                        retried |-> job[b] = "stalled"]
          /\ job' = [job EXCEPT ![b] = "active"]
     ELSE /\ job' = [job EXCEPT ![b] = "done"]
          /\ UNCHANGED worker
  /\ UNCHANGED <<bookingVars, seatVars, payVars, points, voucherVars, req>>

\* findFirst: one redemption of the booking goes, if there is any.
ReleaseOneRedemption(b) ==
  IF \E v \in Vouchers : <<v, b>> \in redeemed
  THEN \E v \in Vouchers :
         /\ <<v, b>> \in redeemed
         /\ redeemed' = redeemed \ {<<v, b>>}
         /\ usedCount' = [usedCount EXCEPT ![v] = @ - 1]
  ELSE UNCHANGED voucherVars

\* Mutants: the cancel relies on the earlier read; a status of its own is written.
ExpireBooking_StaleRead ==
  LET b == worker.booking IN
  /\ b # None
  /\ Unlocked(b)
  /\ SetStatus(b, worker.bs, "CANCELLED")
  /\ ReleaseOneRedemption(b)
  /\ ReleaseSeats(worker.seats)
  /\ job' = [job EXCEPT ![b] = "done"]
  /\ worker' = WorkerIdle
  /\ UNCHANGED <<paxOf, paxSeat, payVars, points, req>>

ExpireBooking_AsExpired ==
  LET b == worker.booking IN
  /\ b # None
  /\ Unlocked(b)
  /\ status[b] \in {"DRAFT", "PENDING_PAYMENT"}
  /\ SetStatus(b, worker.bs, "EXPIRED")
  /\ ReleaseOneRedemption(b)
  /\ ReleaseSeats(worker.seats)
  /\ job' = [job EXCEPT ![b] = "done"]
  /\ worker' = WorkerIdle
  /\ UNCHANGED <<paxOf, paxSeat, payVars, points, req>>

(* The transaction: the cancel is conditional on the current status, the    *)
(* seats and the history row come from the earlier read.                    *)
ExpireBooking ==
  LET b == worker.booking IN
  /\ b # None
  /\ Unlocked(b)
  /\ status[b] \in {"DRAFT", "PENDING_PAYMENT"}
  /\ SetStatus(b, worker.bs, "CANCELLED")
  /\ ReleaseOneRedemption(b)
  /\ ReleaseSeats(worker.seats)
  /\ job' = [job EXCEPT ![b] = "done"]
  /\ worker' = WorkerIdle
  /\ UNCHANGED <<paxOf, paxSeat, payVars, points, req>>

\* Mutant: the seats are released outside the test of the count.
ExpireNothing_Releasing ==
  LET b == worker.booking IN
  /\ b # None
  /\ Unlocked(b)
  /\ status[b] \notin {"DRAFT", "PENDING_PAYMENT"}
  /\ ReleaseSeats(worker.seats)
  /\ job' = [job EXCEPT ![b] = "done"]
  /\ worker' = WorkerIdle
  /\ UNCHANGED <<bookingVars, paxOf, paxSeat, payVars, points, voucherVars, req>>

\* The booking was paid or cancelled since the read: count is 0.
ExpireNothing ==
  LET b == worker.booking IN
  /\ b # None
  /\ Unlocked(b)
  /\ status[b] \notin {"DRAFT", "PENDING_PAYMENT"}
  /\ job' = [job EXCEPT ![b] = "done"]
  /\ worker' = WorkerIdle
  /\ UNCHANGED <<bookingVars, seatVars, payVars, points, voucherVars, req>>

\* The transaction throws, or the worker dies for the second time in the job.
JobFails ==
  /\ worker.booking # None
  /\ job' = [job EXCEPT ![worker.booking] = "failed"]
  /\ worker' = WorkerIdle
  /\ UNCHANGED <<bookingVars, seatVars, payVars, points, voucherVars, req>>

\* The worker dies; BullMQ finds the job stalled and gives it out again.
WorkerCrash ==
  /\ worker.booking # None /\ ~ worker.retried
  /\ job' = [job EXCEPT ![worker.booking] = "stalled"]
  /\ worker' = WorkerIdle
  /\ UNCHANGED <<bookingVars, seatVars, payVars, points, voucherVars, req>>
=============================================================================
