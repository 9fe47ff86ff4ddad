--------------------------- MODULE MCTripBooking ----------------------------
(* Small instances of TripBooking for TLC: every cfg picks its constants    *)
(* from the definitions below.                                              *)
EXTENDS TripBooking, TLC

CONSTANTS b1, b2, s1, s2, p1, p2, v1, v2, r1, r2, u1, u2

OneUser == [b \in {b1, b2} |-> u1]
TwoUsers == [b \in {b1, b2} |-> IF b = b1 THEN u1 ELSE u2]
NoLimits == <<>>
LimitOne == [v \in {v1, v2} |-> IF v = v1 THEN 1 ELSE 0]

Versions == 0..6

SeatOps == {"createDraftBooking", "updatePassengers", "selectSeatForPassenger",
            "initiatePayment", "vnpayCallback"}
PaymentOps == {"createDraftBooking", "updateBookingStatus",
               "initiatePayment", "initiateSepay", "vnpayCallback", "sepayWebhook",
               "getPaymentStatus", "requestRefund", "complete"}
PaymentSeatOps == PaymentOps \cup SeatOps
VoucherOps == {"createDraftBooking", "applyVoucher", "updateBookingStatus"}

\* The endpoints that the refuted claims need.
TwoGatewayOps == {"createDraftBooking", "initiatePayment", "initiateSepay",
                  "vnpayCallback"}
SeatDraftOps == {"createDraftBooking", "updatePassengers", "selectSeatForPassenger"}
CompletionOps == {"createDraftBooking", "initiatePayment", "vnpayCallback", "complete"}

Symmetry == Permutations(Requests) \cup Permutations(Bookings)
              \cup Permutations(Passengers) \cup Permutations(Seats)
=============================================================================
