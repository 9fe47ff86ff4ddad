--------------------------- MODULE BookingPricing ---------------------------
(***************************************************************************)
(* The amounts of one booking: its items, the fares of its seats, vouchers, *)
(* totalAmount, and what a payment asks for.  BookingService checks that    *)
(* the booking is DRAFT, then opens a transaction; in between, and between  *)
(* the reads and the writes of the transaction, others commit.              *)
(***************************************************************************)
EXTENDS Handlers

CONSTANTS
  Menus,     \* sets of kinds of request: a behaviour sends those of one set
  ItemSums,  \* sums of the items of a type that a request may send
  MaxPax,    \* bound: passengers of the booking
  Fare,      \* basePrice and extraFee of a seat
  VoucherRow \* records [type, value, min, cap] of the vouchers; cap 0 is NULL

Sum3(f) == f["ADDON"] + f["BAGGAGE"] + f["MEAL"]
ItemTypes == {"ADDON", "BAGGAGE", "MEAL"}
PriceOps == ItemTypes \cup {"passengers", "refresh", "redeem", "seat"}
Vouchers == DOMAIN VoucherRow
Least(a, b) == IF a <= b THEN a ELSE b

ASSUME PricingAssumption ==
  /\ Menus \subseteq SUBSET PriceOps /\ ItemSums \subseteq Nat /\ MaxPax \in Nat /\ Fare \in Nat
  /\ VoucherRow \in Seq([type : {"FIXED", "PERCENT"}, value : Nat \ {0}, min : Nat, cap : Nat])

VARIABLES
  offered,   \* the kinds of request of this behaviour, constant along it
  state,     \* Booking.status, as far as prices go
  pax,       \* passengers of the booking
  seated,    \* those that have a seat
  item,      \* sum of the BookingItem rows of a type
  total,     \* Booking.totalAmount
  redeemed,  \* vouchers with a redemption row for the booking
  charged,   \* Payment.amount, 0 when there is no payment
  \* History variables:
  discount,  \* subtracted since the total was computed
  unpriced,  \* a seat was assigned, or read, since it was
  crowded,   \* the transaction that computed it was not alone
  late       \* a request that changes the total was in flight with the payment

priceRows == <<offered, state, pax, seated, item, total, redeemed, charged>>
priceHistory == <<discount, unpriced, crowded, late>>
priceVars == <<offered, state, pax, seated, item, total, redeemed, charged, call,
               discount, unpriced, crowded, late>>

PriceCalls ==
  {idle} \cup [step : {"begin"}, op : PriceOps, arg : Nat]
         \cup [step : {"write"}, op : PriceOps, arg : Nat,
               amount : Nat, alone : BOOLEAN]
         \cup [step : {"find", "pay"}, amount : Nat, found : BOOLEAN]

PricingTypeOK ==
  /\ offered \in SUBSET PriceOps
  /\ state \in {"DRAFT", "PENDING_PAYMENT", "CANCELLED"}
  /\ pax \in 0..MaxPax /\ seated \in 0..pax
  /\ item \in [ItemTypes -> ItemSums \cup {0}]
  /\ total \in Nat /\ redeemed \in SUBSET Vouchers /\ charged \in Nat
  /\ discount \in Nat /\ unpriced \in BOOLEAN /\ crowded \in BOOLEAN /\ late \in BOOLEAN
  /\ call \in [Requests -> PriceCalls]

PricingInit ==
  /\ offered \in Menus
  /\ state = "DRAFT" /\ pax = 0 /\ seated = 0
  /\ item = [k \in ItemTypes |-> 0]
  /\ total = 0 /\ redeemed = {} /\ charged = 0
  /\ discount = 0 /\ unpriced = FALSE /\ crowded = FALSE /\ late = FALSE
  /\ call = [r \in Requests |-> idle]
-----------------------------------------------------------------------------
Price(n, items) == n * Fare + Sum3(items)
Paying == \E r \in Requests : call[r].step \in {"find", "pay"}
Open(r) == At(r, "write")
Begins(r, ops) == At(r, "begin") /\ call[r].op \in ops

(* The checks that precede every transaction: the booking is DRAFT.         *)
Admit(r, op, arg) ==
  /\ state = "DRAFT" /\ op \in offered
  /\ Start(r, [step |-> "begin", op |-> op, arg |-> arg])
  /\ late' = (late \/ Paying)
  /\ UNCHANGED <<priceRows, discount, unpriced, crowded>>

\* Mutant: addMeals without its check.
AddItems_AnyStatus(r, k, sum) ==
  /\ (state = "DRAFT" \/ k = "MEAL") /\ k \in offered
  /\ Start(r, [step |-> "begin", op |-> k, arg |-> sum])
  /\ late' = (late \/ Paying)
  /\ UNCHANGED <<priceRows, discount, unpriced, crowded>>

(* addAddons, addBaggage and addMeals: an empty list is a sum of 0.         *)
AddItems(r, k, sum) == Admit(r, k, sum)
ReplacePassengers(r, n) == Admit(r, "passengers", n)
TakeSeat(r) == Admit(r, "seat", 0)
Redeem(r, v) == Admit(r, "refresh", v)

(* A transaction that is open reads its snapshot; `alone` is for the        *)
(* history.                                                                 *)
Reads(r, amount) ==
  /\ call' = [q \in Requests |->
                IF q = r
                THEN [step |-> "write", op |-> call[r].op, arg |-> call[r].arg,
                      amount |-> amount, alone |-> \A p \in Requests : ~ Open(p)]
                ELSE IF Open(q) THEN [call[q] EXCEPT !.alone = FALSE] ELSE call[q]]
  /\ UNCHANGED <<priceRows, priceHistory>>

(* recalculateTotalWithTx reads its own new rows and those of the snapshot. *)
ReadItems(r) ==
  /\ Begins(r, ItemTypes)
  /\ Reads(r, Price(seated, [item EXCEPT ![call[r].op] = call[r].arg]))
ReadPassengers(r) ==
  /\ Begins(r, {"passengers"}) /\ Reads(r, Price(0, item))
ReadRefresh(r) ==
  /\ Begins(r, {"refresh"}) /\ Reads(r, Price(seated, item))
ReadSeat(r) ==
  /\ Begins(r, {"seat"}) /\ seated < pax /\ Reads(r, 0)

(* The discount of a voucher on the total of the snapshot.                  *)
DiscountOf(v, amount) ==
  LET row == VoucherRow[v]
      full == IF row.type = "FIXED" THEN row.value ELSE (amount * row.value) \div 100
  IN  IF row.cap = 0 THEN full ELSE Least(full, row.cap)

ReadVoucher(r) ==
  LET v == call[r].arg IN
  /\ Begins(r, {"redeem"})
  /\ total >= VoucherRow[v].min
  /\ v \notin redeemed
  /\ Reads(r, DiscountOf(v, total))

(* The end of recalculateTotalWithTx: the total is what was read, whatever  *)
(* it has become, discounts included.                                       *)
WriteTotal(r) ==
  /\ total' = call[r].amount
  /\ discount' = 0
  /\ crowded' = ~ call[r].alone

\* Mutant: the rows are replaced, the total stays.
WriteItems_NoTotal(r) ==
  /\ Open(r) /\ call[r].op \in ItemTypes
  /\ item' = [item EXCEPT ![call[r].op] = call[r].arg]
  /\ crowded' = ~ call[r].alone
  /\ unpriced' = FALSE
  /\ Finish(r)
  /\ UNCHANGED <<offered, state, pax, seated, total, redeemed, charged, discount, late>>

WriteItems(r) ==
  /\ Open(r) /\ call[r].op \in ItemTypes
  /\ item' = [item EXCEPT ![call[r].op] = call[r].arg]
  /\ WriteTotal(r)
  /\ unpriced' = FALSE
  /\ Finish(r)
  /\ UNCHANGED <<offered, state, pax, seated, redeemed, charged, late>>

WritePassengers(r) ==
  /\ Open(r) /\ call[r].op = "passengers"
  /\ pax' = call[r].arg /\ seated' = 0
  /\ WriteTotal(r)
  /\ unpriced' = FALSE
  /\ Finish(r)
  /\ UNCHANGED <<offered, state, item, redeemed, charged, late>>

(* applyVoucher: recalculateTotal in a transaction of its own, then the     *)
(* redemption in another.                                                   *)
WriteRefresh(r) ==
  /\ Open(r) /\ call[r].op = "refresh"
  /\ WriteTotal(r)
  /\ unpriced' = FALSE
  /\ Become(r, [step |-> "begin", op |-> "redeem", arg |-> call[r].arg])
  /\ UNCHANGED <<offered, state, pax, seated, item, redeemed, charged, late>>

(* The key (voucher, booking) is unique and a total is not negative.        *)
WriteVoucher(r) ==
  /\ Open(r) /\ call[r].op = "redeem"
  /\ call[r].arg \notin redeemed
  /\ call[r].amount <= total
  /\ redeemed' = redeemed \cup {call[r].arg}
  /\ total' = total - call[r].amount
  /\ discount' = discount + call[r].amount
  /\ Finish(r)
  /\ UNCHANGED <<offered, state, pax, seated, item, charged, unpriced, crowded, late>>

(* selectSeatForPassenger computes no total.                                *)
WriteSeat(r) ==
  /\ Open(r) /\ call[r].op = "seat"
  /\ seated < pax
  /\ seated' = seated + 1
  /\ unpriced' = TRUE
  /\ crowded' = (crowded \/ ~ call[r].alone)
  /\ Finish(r)
  /\ UNCHANGED <<offered, state, pax, item, total, redeemed, charged, discount, late>>

(* initiatePayment and initiateSepay: the amount is that of the first read. *)
Pay(r) ==
  /\ state = "DRAFT"
  /\ Start(r, [step |-> "find", amount |-> total, found |-> FALSE])
  /\ late' = (late \/ ~ NoneInFlight)
  /\ UNCHANGED <<priceRows, discount, unpriced, crowded>>

FindPayment(r) ==
  /\ At(r, "find")
  /\ Become(r, [call[r] EXCEPT !.step = "pay", !.found = (charged > 0)])
  /\ UNCHANGED <<priceRows, priceHistory>>

(* One payment per booking, of an amount that is not 0; the amount of one   *)
(* that was found stays.  A cancelled booking keeps its status.             *)
CreatePaymentRow(r) ==
  /\ At(r, "pay")
  /\ ~ call[r].found => charged = 0 /\ call[r].amount > 0
  /\ charged' = IF call[r].found THEN charged ELSE call[r].amount
  /\ state' = IF state = "DRAFT" THEN "PENDING_PAYMENT" ELSE state
  /\ Finish(r)
  /\ UNCHANGED <<offered, pax, seated, item, total, redeemed, priceHistory>>

CancelBooking ==
  /\ state # "CANCELLED"
  /\ state' = "CANCELLED"
  /\ UNCHANGED <<offered, pax, seated, item, total, redeemed, charged, call, priceHistory>>

(* A check throws, the database rolls back, or the process dies.            *)
RollBack(r) ==
  /\ ~ At(r, "idle")
  /\ Finish(r)
  /\ UNCHANGED <<priceRows, priceHistory>>

PricingNext ==
  \/ \E r \in Requests :
       \/ \E k \in ItemTypes, sum \in ItemSums : AddItems(r, k, sum)
       \/ \E n \in 0..MaxPax : ReplacePassengers(r, n)
       \/ \E v \in Vouchers : Redeem(r, v)
       \/ TakeSeat(r) \/ ReadItems(r) \/ ReadPassengers(r) \/ ReadRefresh(r)
       \/ ReadSeat(r) \/ ReadVoucher(r)
       \/ WriteItems(r) \/ WritePassengers(r) \/ WriteRefresh(r) \/ WriteVoucher(r)
       \/ WriteSeat(r) \/ Pay(r) \/ FindPayment(r) \/ CreatePaymentRow(r) \/ RollBack(r)
  \/ CancelBooking

PricingSpec == PricingInit /\ [][PricingNext]_priceVars
-----------------------------------------------------------------------------
(* The total is the price of the booking's items and seats less the         *)
(* discounts given since it was computed, if the transaction that computed  *)
(* it was alone and no seat was taken since: requests may overlap as long   *)
(* as their transactions do not.                                            *)
TotalIsPrice ==
  ~ crowded /\ ~ unpriced => total + discount = Price(seated, item)

(* A payment asks for the booking's total, for good, unless a request that  *)
(* changes the total was in flight together with the one that pays.         *)
ChargedIsTotal == charged # 0 /\ ~ late => charged = total
=============================================================================
