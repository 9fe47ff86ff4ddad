--------------------------- MODULE ServiceProofs ----------------------------
(***************************************************************************)
(* Proofs about the services that keep to tables of their own: the amounts  *)
(* of a booking, media, reviews, permissions, the wishlist, the blog, the   *)
(* membership tiers and the queued mails.                                   *)
(***************************************************************************)
EXTENDS BookingPricing, MediaStore, ReviewService, PermissionCache, WishlistSync, BlogService,
        MembershipService, MailQueue, FiniteSetTheorems, SequenceTheorems, WellFoundedInduction,
        TLAPS

-----------------------------------------------------------------------------
(* BookingPricing.  What a handler has been asked to write.                 *)
Asked(c) ==
  c.step \in {"begin", "write"} =>
    /\ c.op = "passengers" => c.arg \in 0..MaxPax
    /\ c.op \in ItemTypes => c.arg \in ItemSums
    /\ c.op \in {"refresh", "redeem"} => c.arg \in Vouchers

PriceTypes == PricingTypeOK /\ \A r \in Requests : Asked(call[r])

LEMMA PricingNumbers ==
  ItemSums \subseteq Nat /\ MaxPax \in Nat /\ Fare \in Nat /\ Menus \subseteq SUBSET PriceOps
BY PricingAssumption, Zenon

(* A price is a natural number, and so is a discount.                       *)
LEMMA PriceIsNat ==
  ASSUME NEW n \in Nat, NEW f \in [ItemTypes -> Nat]
  PROVE  Price(n, f) \in Nat
<1>1. n * Fare \in Nat
  BY PricingNumbers
<1>2. Sum3(f) \in Nat
  BY DEF Sum3, ItemTypes
<1>3. \A a, b \in Nat : a + b \in Nat
  OBVIOUS
<1> HIDE DEF Sum3
<1> QED BY <1>1, <1>2, <1>3, Zenon DEF Price

LEMMA VoucherIsNat == Vouchers \subseteq Nat
<1> DEFINE Rows == [type : {"FIXED", "PERCENT"}, value : Nat \ {0}, min : Nat, cap : Nat]
<1>1. VoucherRow \in Seq(Rows)
  BY PricingAssumption, Zenon DEF Rows
<1> HIDE DEF Rows
<1> QED BY <1>1, LenProperties DEF Vouchers

LEMMA DiscountIsNat ==
  ASSUME NEW v \in Vouchers, NEW n \in Nat
  PROVE  DiscountOf(v, n) \in Nat
<1>1. VoucherRow[v] \in [type : {"FIXED", "PERCENT"}, value : Nat \ {0}, min : Nat, cap : Nat]
  <2> DEFINE Rows == [type : {"FIXED", "PERCENT"}, value : Nat \ {0}, min : Nat, cap : Nat]
  <2>1. VoucherRow \in Seq(Rows)
    BY PricingAssumption, Zenon DEF Rows
  <2> HIDE DEF Rows
  <2>2. VoucherRow[v] \in Rows
    BY <2>1, ElementOfSeq, LenProperties DEF Vouchers
  <2> QED BY <2>2 DEF Rows
<1>2. /\ VoucherRow[v].value \in Nat /\ VoucherRow[v].cap \in Nat
  BY <1>1
<1>3. n * VoucherRow[v].value \in Nat
  BY <1>2
<1>4. (n * VoucherRow[v].value) \div 100 \in Nat
  BY <1>3
<1> QED BY <1>2, <1>4 DEF DiscountOf, Least

(* A handler's new state is what counts: the others keep theirs.            *)
LEMMA PriceCallStep ==
  ASSUME PriceTypes, NEW r \in Requests, NEW c \in PriceCalls, Asked(c),
         call' = [call EXCEPT ![r] = c]
  PROVE  call' \in [Requests -> PriceCalls] /\ \A q \in Requests : Asked(call'[q])
BY DEF PriceTypes, PricingTypeOK

LEMMA PriceReadStep ==
  ASSUME PriceTypes, NEW r \in Requests, NEW amount \in Nat, At(r, "begin"), Reads(r, amount)
  PROVE  PriceTypes'
<1> DEFINE c == [step |-> "write", op |-> call[r].op, arg |-> call[r].arg,
                 amount |-> amount, alone |-> \A p \in Requests : ~ Open(p)]
           kept(q) == IF Open(q) THEN [call[q] EXCEPT !.alone = FALSE] ELSE call[q]
<1>1. c \in PriceCalls /\ Asked(c)
  <2>1. call[r] \in PriceCalls /\ call[r].step = "begin" /\ Asked(call[r])
    BY DEF PriceTypes, PricingTypeOK, At
  <2> DEFINE b == \A p \in Requests : ~ Open(p)
  <2>2. b \in BOOLEAN
    OBVIOUS
  <2> HIDE DEF b
  <2>3. [step |-> "write", op |-> call[r].op, arg |-> call[r].arg,
         amount |-> amount, alone |-> b] \in PriceCalls
    BY <2>1, <2>2 DEF PriceCalls, idle
  <2>4. Asked([step |-> "write", op |-> call[r].op, arg |-> call[r].arg,
               amount |-> amount, alone |-> b])
    BY <2>1 DEF Asked
  <2> QED BY <2>3, <2>4 DEF b
<1>2. ASSUME NEW q \in Requests
      PROVE  kept(q) \in PriceCalls /\ Asked(kept(q))
  <2>1. call[q] \in PriceCalls /\ Asked(call[q])
    BY DEF PriceTypes, PricingTypeOK
  <2> QED BY <2>1 DEF PriceCalls, Asked, Open, At, idle
<1>3. call' = [q \in Requests |-> IF q = r THEN c ELSE kept(q)]
  BY DEF Reads
<1> HIDE DEF c, kept
<1>4. call' \in [Requests -> PriceCalls] /\ \A q \in Requests : Asked(call'[q])
  BY <1>1, <1>2, <1>3
<1> QED BY <1>4 DEF Reads, priceRows, priceHistory, PriceTypes, PricingTypeOK

LEMMA PriceTypesInit == PricingInit => PriceTypes
<1> SUFFICES ASSUME PricingInit PROVE PriceTypes
  OBVIOUS
<1>1. offered \in SUBSET PriceOps /\ 0 \in 0..MaxPax
  BY PricingNumbers DEF PricingInit
<1>2. idle \in PriceCalls /\ Asked(idle)
  BY DEF PriceCalls, Asked, idle
<1>3. pax \in 0..MaxPax /\ seated \in 0..pax /\ total \in Nat /\ charged \in Nat /\ discount \in Nat
  BY <1>1 DEF PricingInit
<1>4. item \in [ItemTypes -> ItemSums \cup {0}]
  BY DEF PricingInit
<1>5. call \in [Requests -> PriceCalls] /\ \A r \in Requests : Asked(call[r])
  BY <1>2 DEF PricingInit
<1> QED BY <1>1, <1>3, <1>4, <1>5 DEF PricingInit, PriceTypes, PricingTypeOK

LEMMA PriceTypesStep == PriceTypes /\ [PricingNext]_priceVars => PriceTypes'
<1> SUFFICES ASSUME PriceTypes, [PricingNext]_priceVars PROVE PriceTypes'
  OBVIOUS
<1>1. ASSUME NEW r \in Requests, NEW op \in PriceOps, NEW arg \in Nat,
             Asked([step |-> "begin", op |-> op, arg |-> arg]), Admit(r, op, arg)
      PROVE  PriceTypes'
  <2>1. [step |-> "begin", op |-> op, arg |-> arg] \in PriceCalls
    BY DEF PriceCalls
  <2> QED BY <1>1, <2>1, PriceCallStep DEF PriceTypes, PricingTypeOK, priceRows, priceHistory, Admit, Start, Paying
<1>2. ASSUME NEW r \in Requests, NEW k \in ItemTypes, NEW sum \in ItemSums, AddItems(r, k, sum)
      PROVE  PriceTypes'
  <2>1. k \in PriceOps /\ sum \in Nat
    BY <1>2, PricingNumbers DEF ItemTypes, PriceOps
  <2>2. Asked([step |-> "begin", op |-> k, arg |-> sum])
    BY <1>2 DEF Asked, ItemTypes
  <2> QED BY <1>1, <1>2, <2>1, <2>2 DEF AddItems
<1>3. ASSUME NEW r \in Requests, NEW n \in 0..MaxPax, ReplacePassengers(r, n)
      PROVE  PriceTypes'
  BY <1>1, <1>3, PricingNumbers DEF ReplacePassengers, Asked, ItemTypes, PriceOps
<1>4. ASSUME NEW r \in Requests, NEW v \in Vouchers, Redeem(r, v)
      PROVE  PriceTypes'
  <2>1. v \in Nat
    BY VoucherIsNat
  <2> QED BY <1>1, <1>4, <2>1 DEF Redeem, Asked, ItemTypes, PriceOps
<1>5. ASSUME NEW r \in Requests, TakeSeat(r) PROVE PriceTypes'
  BY <1>1, <1>5 DEF TakeSeat, Asked, ItemTypes, PriceOps
<1>6. item \in [ItemTypes -> Nat] /\ seated \in Nat /\ total \in Nat /\ pax \in 0..MaxPax
  <2>1. pax \in 0..MaxPax /\ seated \in 0..pax /\ total \in Nat /\ item \in [ItemTypes -> ItemSums \cup {0}]
    BY DEF PriceTypes, PricingTypeOK
  <2>2. pax \in Nat
    BY <2>1, PricingNumbers
  <2>3. item \in [ItemTypes -> Nat]
    <3>1. ItemSums \cup {0} \subseteq Nat
      BY PricingNumbers
    <3> QED BY <2>1, <3>1
  <2> QED BY <2>1, <2>2, <2>3
<1>7. ASSUME NEW r \in Requests, ReadItems(r) PROVE PriceTypes'
  <2>1. [item EXCEPT ![call[r].op] = call[r].arg] \in [ItemTypes -> Nat]
    BY <1>6, <1>7, PricingNumbers DEF PriceTypes, ReadItems, Begins, Asked, At
  <2> QED BY <1>6, <1>7, <2>1, PriceIsNat, PriceReadStep DEF ReadItems, Begins
<1>8. ASSUME NEW r \in Requests, ReadPassengers(r) PROVE PriceTypes'
  BY <1>6, <1>8, PriceIsNat, PriceReadStep DEF ReadPassengers, Begins
<1>9. ASSUME NEW r \in Requests, ReadRefresh(r) PROVE PriceTypes'
  BY <1>6, <1>9, PriceIsNat, PriceReadStep DEF ReadRefresh, Begins
<1>10. ASSUME NEW r \in Requests, ReadSeat(r) PROVE PriceTypes'
  BY <1>10, PriceReadStep DEF ReadSeat, Begins
<1>11. ASSUME NEW r \in Requests, ReadVoucher(r) PROVE PriceTypes'
  <2>1. call[r].arg \in Vouchers
    BY <1>11 DEF PriceTypes, ReadVoucher, Begins, Asked, At
  <2> QED BY <1>6, <1>11, <2>1, DiscountIsNat, PriceReadStep DEF ReadVoucher, Begins
<1>12. ASSUME NEW r \in Requests, call' = [call EXCEPT ![r] = idle]
       PROVE  call' \in [Requests -> PriceCalls] /\ \A q \in Requests : Asked(call'[q])
  <2>1. idle \in PriceCalls /\ Asked(idle)
    BY DEF PriceCalls, Asked, idle
  <2> QED BY <1>12, <2>1, PriceCallStep
<1>13. ASSUME NEW r \in Requests, Open(r)
       PROVE  /\ call[r].arg \in Nat /\ call[r].amount \in Nat /\ call[r].alone \in BOOLEAN
              /\ Asked(call[r])
  <2>1. call[r] \in PriceCalls /\ call[r].step = "write" /\ Asked(call[r])
    BY <1>13 DEF PriceTypes, PricingTypeOK, Open, At
  <2> QED BY <2>1 DEF PriceCalls, idle
<1>14. ASSUME NEW r \in Requests, WriteItems(r) PROVE PriceTypes'
  BY <1>12, <1>13, <1>14 DEF PriceTypes, PricingTypeOK, priceRows, priceHistory,
           WriteItems, WriteTotal, Finish, Asked, Open, At
<1>15. ASSUME NEW r \in Requests, WritePassengers(r) PROVE PriceTypes'
  <2>1. pax' \in 0..MaxPax /\ seated' = 0 /\ total' \in Nat
    BY <1>13, <1>15 DEF WritePassengers, WriteTotal, Asked, Open, At
  <2>2. seated' \in 0..pax'
    BY <2>1, PricingNumbers
  <2> QED BY <1>12, <1>13, <1>15, <2>1, <2>2 DEF PriceTypes, PricingTypeOK,
             WritePassengers, WriteTotal, Finish
<1>16. ASSUME NEW r \in Requests, WriteRefresh(r) PROVE PriceTypes'
  <2> DEFINE c == [step |-> "begin", op |-> "redeem", arg |-> call[r].arg]
  <2>1. c \in PriceCalls /\ Asked(c)
    BY <1>13, <1>16 DEF WriteRefresh, PriceCalls, Asked, PriceOps, ItemTypes, Open, At
  <2>2. call' = [call EXCEPT ![r] = c]
    BY <1>16 DEF WriteRefresh, Become
  <2> HIDE DEF c
  <2>3. call' \in [Requests -> PriceCalls] /\ \A q \in Requests : Asked(call'[q])
    BY <2>1, <2>2, PriceCallStep
  <2> QED BY <2>3, <1>13, <1>16 DEF PriceTypes, PricingTypeOK, priceRows, priceHistory,
            WriteRefresh, WriteTotal
<1>17. ASSUME NEW r \in Requests, WriteVoucher(r) PROVE PriceTypes'
  <2>1. total' \in Nat /\ discount' \in Nat
    BY <1>6, <1>13, <1>17 DEF WriteVoucher, PriceTypes, PricingTypeOK
  <2>2. redeemed' \in SUBSET Vouchers
    BY <1>13, <1>17 DEF WriteVoucher, PriceTypes, PricingTypeOK, Asked, Open, At
  <2> QED BY <1>12, <1>17, <2>1, <2>2 DEF PriceTypes, PricingTypeOK, WriteVoucher, Finish
<1>18. ASSUME NEW r \in Requests, WriteSeat(r) PROVE PriceTypes'
  <2>1. seated' \in 0..pax'
    BY <1>6, <1>18, PricingNumbers DEF WriteSeat, PriceTypes, PricingTypeOK
  <2>2. crowded' \in BOOLEAN
    BY <1>18 DEF WriteSeat
  <2> QED BY <1>12, <1>18, <2>1, <2>2 DEF PriceTypes, PricingTypeOK, WriteSeat, Finish
<1>19. ASSUME NEW r \in Requests, Pay(r) PROVE PriceTypes'
  <2> DEFINE c == [step |-> "find", amount |-> total, found |-> FALSE]
  <2>1. c \in PriceCalls /\ Asked(c)
    BY <1>6 DEF PriceCalls, Asked
  <2>2. call' = [call EXCEPT ![r] = c]
    BY <1>19 DEF Pay, Start
  <2> HIDE DEF c
  <2>3. call' \in [Requests -> PriceCalls] /\ \A q \in Requests : Asked(call'[q])
    BY <2>1, <2>2, PriceCallStep
  <2> QED BY <2>3, <1>19 DEF PriceTypes, PricingTypeOK, priceRows, priceHistory,
           Pay
<1>20. ASSUME NEW r \in Requests, FindPayment(r) PROVE PriceTypes'
  <2> DEFINE c == [call[r] EXCEPT !.step = "pay", !.found = (charged > 0)]
  <2> DEFINE b == charged > 0
  <2>0. b \in BOOLEAN
    OBVIOUS
  <2> HIDE DEF b
  <2>3. call[r] \in PriceCalls /\ call[r].step = "find"
    BY <1>20 DEF PriceTypes, PricingTypeOK, FindPayment, At
  <2>4. [call[r] EXCEPT !.step = "pay", !.found = b] \in PriceCalls
    <3>1. call[r] \in [step : {"find", "pay"}, amount : Nat, found : BOOLEAN]
      BY <2>3 DEF PriceCalls, idle
    <3>2. [call[r] EXCEPT !.step = "pay", !.found = b]
            \in [step : {"find", "pay"}, amount : Nat, found : BOOLEAN]
      BY <2>0, <3>1
    <3> QED BY <3>2 DEF PriceCalls
  <2>5. [call[r] EXCEPT !.step = "pay", !.found = b].step = "pay"
    BY <2>3 DEF PriceCalls, idle
  <2>1. c \in PriceCalls /\ Asked(c)
    BY <2>4, <2>5 DEF b, Asked
  <2>2. call' = [call EXCEPT ![r] = c]
    BY <1>20 DEF FindPayment, Become
  <2> HIDE DEF c
  <2>6. call' \in [Requests -> PriceCalls] /\ \A q \in Requests : Asked(call'[q])
    BY <2>1, <2>2, PriceCallStep
  <2> QED BY <2>6, <1>20 DEF PriceTypes, PricingTypeOK, priceRows, priceHistory,
            FindPayment
<1>21. ASSUME NEW r \in Requests, CreatePaymentRow(r) PROVE PriceTypes'
  <2>1. call[r].amount \in Nat
    BY <1>21 DEF PriceTypes, PricingTypeOK, CreatePaymentRow, At, PriceCalls, idle
  <2> QED BY <1>12, <1>21, <2>1 DEF PriceTypes, PricingTypeOK, priceRows, priceHistory,
           CreatePaymentRow, Finish
<1>22. ASSUME NEW r \in Requests, RollBack(r) PROVE PriceTypes'
  BY <1>12, <1>22 DEF PriceTypes, PricingTypeOK, priceRows, priceHistory,
           RollBack, Finish
<1>23. CASE CancelBooking
  BY <1>23 DEF PriceTypes, PricingTypeOK, priceRows, priceHistory,
           CancelBooking
<1>24. CASE UNCHANGED priceVars
  BY <1>24 DEF PriceTypes, PricingTypeOK, priceRows, priceHistory,
           priceVars
<1> QED BY <1>2, <1>3, <1>4, <1>5, <1>7, <1>8, <1>9, <1>10, <1>11, <1>14, <1>15, <1>16, <1>17,
           <1>18, <1>19, <1>20, <1>21, <1>22, <1>23, <1>24 DEF PricingNext

(* The rows of a booking and the state of its handlers keep to their types. *)
THEOREM PricingTypeCorrect == PricingSpec => []PricingTypeOK
<1>1. PriceTypes => PricingTypeOK
  BY DEF PriceTypes
<1> QED BY <1>1, PriceTypesInit, PriceTypesStep, PTL DEF PricingSpec

-----------------------------------------------------------------------------
(* What a payment asks for: unless a request overlapped it, the handler     *)
(* that pays is the only one in flight and has read the total, there was no *)
(* payment before, and afterwards nothing can start.                        *)
AtPayment(c) == c.step \in {"find", "pay"}

ChargeInv ==
  /\ charged # 0 => state # "DRAFT"
  /\ ~ late /\ charged # 0 => charged = total /\ NoneInFlight
  /\ ~ late => \A r \in Requests : AtPayment(call[r]) =>
       /\ call[r].amount = total /\ charged = 0
       /\ \A q \in Requests \ {r} : At(q, "idle")

LEMMA ChargeInit == PricingInit => ChargeInv
BY DEF PricingInit, ChargeInv, AtPayment, idle

(* While a handler pays, or a payment is there, no other one is in flight.  *)
LEMMA ChargeAlone ==
  ASSUME PriceTypes, ChargeInv, ~ late, NEW r \in Requests, ~ At(r, "idle"), ~ AtPayment(call[r])
  PROVE  charged = 0 /\ \A q \in Requests : ~ AtPayment(call[q])
BY DEF ChargeInv, AtPayment, At, NoneInFlight

(* A step of a handler that is not paying leaves what a payment relies on.  *)
LEMMA ChargeOther ==
  ASSUME PriceTypes, ChargeInv, NEW r \in Requests, ~ At(r, "idle"), ~ AtPayment(call[r]),
         late' = late, charged' = charged, state' = state,
         \A q \in Requests : AtPayment(call'[q]) => AtPayment(call[q])
  PROVE  ChargeInv'
<1>1. CASE late
  BY <1>1 DEF ChargeInv
<1>2. CASE ~ late
  BY <1>2, ChargeAlone DEF ChargeInv
<1> QED BY <1>1, <1>2

LEMMA ChargeStep == PriceTypes /\ ChargeInv /\ [PricingNext]_priceVars => ChargeInv'
<1> SUFFICES ASSUME PriceTypes, ChargeInv, [PricingNext]_priceVars PROVE ChargeInv'
  OBVIOUS
<1>0. call \in [Requests -> PriceCalls] /\ late \in BOOLEAN
  BY DEF PriceTypes, PricingTypeOK
<1>1. ASSUME NEW r \in Requests, NEW op, NEW arg, Admit(r, op, arg)
      PROVE  ChargeInv'
  <2>1. state' = state /\ charged = 0 /\ charged' = charged /\ total' = total
    BY <1>1 DEF Admit, priceRows, ChargeInv
  <2>2. ~ late' => ~ late /\ \A q \in Requests : ~ AtPayment(call[q])
    BY <1>1 DEF Admit, Paying, AtPayment
  <2>3. \A q \in Requests : AtPayment(call'[q]) => AtPayment(call[q])
    BY <1>0, <1>1 DEF Admit, Start, AtPayment
  <2> QED BY <2>1, <2>2, <2>3 DEF ChargeInv
<1>2. ASSUME NEW r \in Requests, NEW amount, At(r, "begin"), Reads(r, amount)
      PROVE  ChargeInv'
  <2>1. \A q \in Requests : AtPayment(call'[q]) => AtPayment(call[q])
    BY <1>0, <1>2 DEF Reads, AtPayment, Open, At, PriceCalls, idle
  <2>2. ~ At(r, "idle") /\ ~ AtPayment(call[r])
    BY <1>2 DEF At, AtPayment
  <2> QED BY <1>2, <2>1, <2>2, ChargeOther DEF Reads, priceRows, priceHistory
<1>3. ASSUME NEW r \in Requests,
             \/ WriteItems(r) \/ WritePassengers(r) \/ WriteRefresh(r)
             \/ WriteVoucher(r) \/ WriteSeat(r)
      PROVE  ChargeInv'
  <2>1. At(r, "write") /\ late' = late /\ charged' = charged /\ state' = state
    BY <1>3 DEF WriteItems, WritePassengers, WriteRefresh, WriteVoucher, WriteSeat, Open
  <2>2. \/ call' = [call EXCEPT ![r] = idle]
        \/ call' = [call EXCEPT ![r] = [step |-> "begin", op |-> "redeem", arg |-> call[r].arg]]
    BY <1>3 DEF WriteItems, WritePassengers, WriteRefresh, WriteVoucher, WriteSeat, Finish, Become
  <2>3. \A q \in Requests : AtPayment(call'[q]) => AtPayment(call[q])
    BY <1>0, <2>2 DEF AtPayment, idle
  <2> QED BY <2>1, <2>3, ChargeOther DEF At, AtPayment
<1>4. ASSUME NEW r \in Requests, Pay(r) PROVE ChargeInv'
  <2>1. state = "DRAFT" /\ charged = 0 /\ charged' = 0 /\ total' = total
    BY <1>4 DEF Pay, priceRows, ChargeInv
  <2>2. ~ late' => NoneInFlight
    BY <1>4 DEF Pay
  <2>3. /\ call'[r].amount = total
        /\ \A q \in Requests \ {r} : call'[q] = call[q]
    BY <1>0, <1>4 DEF Pay, Start
  <2> QED BY <2>1, <2>2, <2>3 DEF ChargeInv, NoneInFlight, AtPayment, At
<1>5. ASSUME NEW r \in Requests, FindPayment(r) PROVE ChargeInv'
  <2>1. call[r].step = "find" /\ call[r] \in PriceCalls
    BY <1>0, <1>5 DEF FindPayment, At
  <2>2. call'[r].amount = call[r].amount /\ \A q \in Requests \ {r} : call'[q] = call[q]
    BY <1>0, <1>5, <2>1 DEF FindPayment, Become, PriceCalls, idle
  <2>3. ~ late => charged = 0
    BY <2>1 DEF ChargeInv, AtPayment
  <2> QED BY <1>5, <2>1, <2>2, <2>3 DEF FindPayment, priceRows, priceHistory, ChargeInv, AtPayment, At
<1>6. ASSUME NEW r \in Requests, CreatePaymentRow(r) PROVE ChargeInv'
  <2>1. call[r].step = "pay" /\ state' # "DRAFT" /\ total' = total /\ late' = late
    BY <1>6 DEF CreatePaymentRow, At, priceHistory
  <2>2. call' = [call EXCEPT ![r] = idle]
    BY <1>6 DEF CreatePaymentRow, Finish
  <2>3. ~ late => charged' \in {0, total} /\ NoneInFlight'
    BY <1>0, <1>6, <2>1, <2>2
       DEF CreatePaymentRow, ChargeInv, AtPayment, NoneInFlight, At, idle
  <2>4. ~ late => \A q \in Requests : ~ AtPayment(call'[q])
    BY <1>0, <2>1, <2>2 DEF ChargeInv, AtPayment, At, idle
  <2> QED BY <2>1, <2>3, <2>4 DEF ChargeInv
<1>7. ASSUME NEW r \in Requests, RollBack(r) PROVE ChargeInv'
  <2>1. call' = [call EXCEPT ![r] = idle] /\ UNCHANGED <<priceRows, priceHistory>>
    BY <1>7 DEF RollBack, Finish
  <2>2. \A q \in Requests : call'[q] = IF q = r THEN idle ELSE call[q]
    BY <1>0, <2>1
  <2> QED BY <2>1, <2>2 DEF ChargeInv, priceRows, priceHistory, AtPayment, NoneInFlight, At, idle
<1>8. CASE CancelBooking
  BY <1>8 DEF CancelBooking, ChargeInv, priceHistory, NoneInFlight, At
<1>9. CASE UNCHANGED priceVars
  BY <1>9 DEF priceVars, ChargeInv, NoneInFlight, At
<1> QED BY <1>1, <1>2, <1>3, <1>4, <1>5, <1>6, <1>7, <1>8, <1>9
        DEF PricingNext, AddItems, ReplacePassengers, Redeem, TakeSeat,
            ReadItems, ReadPassengers, ReadRefresh, ReadSeat, ReadVoucher, Begins

(* A payment that nothing overlapped asks for the booking's total for good, *)
(* however many requests, vouchers and passengers there are.                *)
THEOREM ChargedIsTotalHolds == PricingSpec => []ChargedIsTotal
<1>1. ChargeInv => ChargedIsTotal
  BY DEF ChargeInv, ChargedIsTotal
<1> QED BY <1>1, PriceTypesInit, PriceTypesStep, ChargeInit, ChargeStep, PTL DEF PricingSpec

-----------------------------------------------------------------------------
(* What a transaction computes: while it is the only one that is open, the  *)
(* amount it is to write is the price of the rows as they will be.          *)
Computed(c) ==
  /\ c.op \in ItemTypes => c.amount = Price(seated, [item EXCEPT ![c.op] = c.arg])
  /\ c.op = "passengers" => c.amount = Price(0, item)
  /\ c.op = "refresh" => c.amount = Price(seated, item)

OpenAlone(r) == At(r, "write") /\ call[r].alone

TotalInv ==
  /\ TotalIsPrice
  /\ \A r \in Requests : OpenAlone(r) =>
       Computed(call[r]) /\ \A q \in Requests \ {r} : ~ At(q, "write")

LEMMA TotalInit == PricingInit => TotalInv
<1> SUFFICES ASSUME PricingInit PROVE TotalInv
  OBVIOUS
<1>1. Price(0, item) = 0
  <2>1. item["ADDON"] = 0 /\ item["BAGGAGE"] = 0 /\ item["MEAL"] = 0
    BY DEF PricingInit, ItemTypes
  <2>2. Sum3(item) = 0
    BY <2>1 DEF Sum3
  <2>3. 0 * Fare = 0
    BY PricingNumbers
  <2> QED BY <2>2, <2>3 DEF Price
<1> QED BY <1>1 DEF PricingInit, TotalInv, TotalIsPrice, OpenAlone, At, idle

(* A step that moves no rows and opens no transaction.                      *)
LEMMA TotalQuiet ==
  ASSUME TotalInv, UNCHANGED <<item, seated, total, discount, unpriced, crowded>>,
         \A r \in Requests : At(r, "write")' => At(r, "write") /\ call'[r] = call[r]
  PROVE  TotalInv'
BY DEF TotalInv, TotalIsPrice, OpenAlone, Computed, At

(* The end of a transaction: nothing is known of the others, but none of    *)
(* them is alone.                                                           *)
LEMMA TotalWritten ==
  ASSUME TotalInv, NEW r \in Requests, At(r, "write"), TotalIsPrice',
         \A q \in Requests : At(q, "write")' => q # r /\ At(q, "write") /\ call'[q] = call[q]
  PROVE  TotalInv'
BY DEF TotalInv, OpenAlone, At

LEMMA AmountIsNat ==
  ASSUME PriceTypes, NEW r \in Requests, Open(r)
  PROVE  call[r].amount \in Nat
BY DEF PriceTypes, PricingTypeOK, Open, At, PriceCalls, idle

LEMMA TotalStep == PriceTypes /\ TotalInv /\ [PricingNext]_priceVars => TotalInv'
<1> SUFFICES ASSUME PriceTypes, TotalInv, [PricingNext]_priceVars PROVE TotalInv'
  OBVIOUS
<1>0. call \in [Requests -> PriceCalls]
  BY DEF PriceTypes, PricingTypeOK
<1>1. ASSUME NEW r \in Requests, NEW c, c.step # "write", call' = [call EXCEPT ![r] = c],
             UNCHANGED <<item, seated, total, discount, unpriced, crowded>>
      PROVE  TotalInv'
  <2>1. \A q \in Requests : call'[q] = IF q = r THEN c ELSE call[q]
    BY <1>0, <1>1
  <2> QED BY <1>1, <2>1, TotalQuiet DEF At
<1>2. ASSUME NEW r \in Requests, NEW op, NEW arg, Admit(r, op, arg)
      PROVE  TotalInv'
  BY <1>1, <1>2 DEF Admit, Start, priceRows
<1>3. ASSUME NEW r \in Requests, NEW amount, At(r, "begin"), Reads(r, amount),
             Computed([op |-> call[r].op, arg |-> call[r].arg, amount |-> amount])
      PROVE  TotalInv'
  <2> DEFINE b == \A p \in Requests : ~ Open(p)
             c == [step |-> "write", op |-> call[r].op, arg |-> call[r].arg,
                   amount |-> amount, alone |-> b]
  <2>1. /\ UNCHANGED <<item, seated, total, discount, unpriced, crowded>>
        /\ call'[r] = c
        /\ \A q \in Requests \ {r} :
             call'[q] = IF Open(q) THEN [call[q] EXCEPT !.alone = FALSE] ELSE call[q]
    BY <1>3 DEF Reads, priceRows, priceHistory
  <2> HIDE DEF b
  <2>2. /\ c.step = "write" /\ c.op = call[r].op /\ c.arg = call[r].arg
        /\ c.amount = amount /\ c.alone = b
    OBVIOUS
  <2> HIDE DEF c
  <2>3. Computed(call[r])'
    <3>1. /\ call'[r].op = call[r].op /\ call'[r].arg = call[r].arg
          /\ call'[r].amount = amount /\ item' = item /\ seated' = seated
      BY <2>1, <2>2
    <3> QED BY <1>3, <3>1 DEF Computed
  <2>4. ASSUME NEW q \in Requests \ {r} PROVE ~ OpenAlone(q)'
    <3>1. CASE Open(q)
      <4>1. call[q] \in PriceCalls /\ call[q].step = "write"
        BY <1>0, <3>1 DEF Open, At
      <4>2. ~ [call[q] EXCEPT !.alone = FALSE].alone
        BY <4>1 DEF PriceCalls, idle
      <4> QED BY <2>1, <3>1, <4>2 DEF OpenAlone
    <3>2. CASE ~ Open(q)
      BY <2>1, <3>2 DEF OpenAlone, Open, At
    <3> QED BY <3>1, <3>2
  <2>5. ASSUME OpenAlone(r)'
        PROVE  Computed(call[r])' /\ \A q \in Requests \ {r} : ~ At(q, "write")'
    <3>1. b
      BY <2>1, <2>2, <2>5 DEF OpenAlone
    <3>2. \A q \in Requests \ {r} : call'[q] = call[q] /\ ~ At(q, "write")
      BY <2>1, <3>1 DEF b, Open
    <3> QED BY <2>3, <3>2 DEF At
  <2>6. TotalIsPrice'
    BY <2>1 DEF TotalInv, TotalIsPrice
  <2> QED BY <2>4, <2>5, <2>6 DEF TotalInv
<1>4. ASSUME NEW r \in Requests, Open(r), call' = [call EXCEPT ![r] = idle], TotalIsPrice'
      PROVE  TotalInv'
  <2>1. \A q \in Requests : call'[q] = IF q = r THEN idle ELSE call[q]
    BY <1>0, <1>4
  <2> QED BY <1>4, <2>1, TotalWritten DEF Open, At, idle
<1>5. ASSUME NEW r \in Requests, WriteItems(r) PROVE TotalInv'
  <2>1. call[r].alone => total' = Price(seated', item') /\ discount' = 0
    BY <1>5 DEF WriteItems, WriteTotal, Open, TotalInv, OpenAlone, Computed
  <2>2. TotalIsPrice'
    <3>1. crowded' \/ call[r].alone
      BY <1>5, Zenon DEF WriteItems, WriteTotal
    <3>2. total' \in Nat
      BY <1>5, AmountIsNat DEF WriteItems, WriteTotal
    <3> QED BY <2>1, <3>1, <3>2 DEF TotalIsPrice
  <2> QED BY <1>4, <1>5, <2>2 DEF WriteItems, Finish
<1>6. ASSUME NEW r \in Requests, WritePassengers(r) PROVE TotalInv'
  <2>1. call[r].alone => total' = Price(seated', item') /\ discount' = 0
    BY <1>6 DEF WritePassengers, WriteTotal, Open, TotalInv, OpenAlone, Computed
  <2>2. TotalIsPrice'
    <3>1. crowded' \/ call[r].alone
      BY <1>6, Zenon DEF WritePassengers, WriteTotal
    <3>2. total' \in Nat
      BY <1>6, AmountIsNat DEF WritePassengers, WriteTotal
    <3> QED BY <2>1, <3>1, <3>2 DEF TotalIsPrice
  <2> QED BY <1>4, <1>6, <2>2 DEF WritePassengers, Finish
<1>7. ASSUME NEW r \in Requests, WriteRefresh(r) PROVE TotalInv'
  <2>1. call[r].alone => total' = Price(seated', item') /\ discount' = 0
    BY <1>7 DEF WriteRefresh, WriteTotal, Open, TotalInv, OpenAlone, Computed
  <2>2. TotalIsPrice'
    <3>1. crowded' \/ call[r].alone
      BY <1>7, Zenon DEF WriteRefresh, WriteTotal
    <3>2. total' \in Nat
      BY <1>7, AmountIsNat DEF WriteRefresh, WriteTotal
    <3> QED BY <2>1, <3>1, <3>2 DEF TotalIsPrice
  <2> DEFINE c == [step |-> "begin", op |-> "redeem", arg |-> call[r].arg]
  <2>3. c.step = "begin" /\ call' = [call EXCEPT ![r] = c]
    BY <1>7 DEF WriteRefresh, Become
  <2> HIDE DEF c
  <2>4. \A q \in Requests : call'[q] = IF q = r THEN c ELSE call[q]
    BY <1>0, <2>3
  <2> QED BY <1>7, <2>2, <2>3, <2>4, TotalWritten DEF WriteRefresh, Open, At
<1>8. ASSUME NEW r \in Requests, WriteVoucher(r) PROVE TotalInv'
  <2>1. call[r].amount \in Nat /\ total \in Nat /\ discount \in Nat
    BY <1>0, <1>8 DEF WriteVoucher, Open, At, PriceCalls, idle, PriceTypes, PricingTypeOK
  <2>2. total' + discount' = total + discount
    BY <1>8, <2>1 DEF WriteVoucher
  <2>3. TotalIsPrice'
    BY <1>8, <2>2 DEF WriteVoucher, TotalInv, TotalIsPrice
  <2> QED BY <1>4, <1>8, <2>3 DEF WriteVoucher, Finish
<1>9. ASSUME NEW r \in Requests, WriteSeat(r) PROVE TotalInv'
  BY <1>4, <1>9 DEF WriteSeat, Finish, TotalIsPrice
<1>10. ASSUME NEW r \in Requests,
              ReadItems(r) \/ ReadPassengers(r) \/ ReadRefresh(r) \/ ReadSeat(r) \/ ReadVoucher(r)
       PROVE  TotalInv'
  <2>1. PICK amount :
          /\ At(r, "begin") /\ Reads(r, amount)
          /\ Computed([op |-> call[r].op, arg |-> call[r].arg, amount |-> amount])
    BY <1>10 DEF ReadItems, ReadPassengers, ReadRefresh, ReadSeat, ReadVoucher, Begins,
                 Computed, ItemTypes
  <2> QED BY <1>3, <2>1
<1>11. ASSUME NEW r \in Requests, Pay(r) PROVE TotalInv'
  BY <1>1, <1>11 DEF Pay, Start, priceRows
<1>12. ASSUME NEW r \in Requests, FindPayment(r) PROVE TotalInv'
  <2> DEFINE c == [call[r] EXCEPT !.step = "pay", !.found = (charged > 0)]
  <2>1. call' = [call EXCEPT ![r] = c] /\ UNCHANGED <<priceRows, priceHistory>>
    BY <1>12 DEF FindPayment, Become
  <2>2. call[r] \in PriceCalls /\ call[r].step = "find"
    BY <1>0, <1>12 DEF FindPayment, At
  <2>3. c.step # "write"
    BY <2>2 DEF PriceCalls, idle
  <2> HIDE DEF c
  <2> QED BY <1>1, <2>1, <2>3 DEF priceRows, priceHistory
<1>13. ASSUME NEW r \in Requests, CreatePaymentRow(r) \/ RollBack(r) PROVE TotalInv'
  <2>1. idle.step # "write" /\ call' = [call EXCEPT ![r] = idle]
    BY <1>13 DEF CreatePaymentRow, RollBack, Finish, idle
  <2> QED BY <1>1, <1>13, <2>1 DEF CreatePaymentRow, RollBack, priceRows, priceHistory
<1>14. CASE CancelBooking
  BY <1>14, TotalQuiet DEF CancelBooking, priceHistory, At
<1>15. CASE UNCHANGED priceVars
  BY <1>15, TotalQuiet DEF priceVars, At
<1> QED BY <1>2, <1>5, <1>6, <1>7, <1>8, <1>9, <1>10, <1>11, <1>12, <1>13, <1>14, <1>15
        DEF PricingNext, AddItems, ReplacePassengers, Redeem, TakeSeat

(* The total is the price of what is booked, less discounts, whatever       *)
(* requests overlap, as long as the transactions do not.                    *)
THEOREM TotalIsPriceHolds == PricingSpec => []TotalIsPrice
<1>1. TotalInv => TotalIsPrice
  BY DEF TotalInv
<1> QED BY <1>1, PriceTypesInit, PriceTypesStep, TotalInit, TotalStep, PTL DEF PricingSpec

-----------------------------------------------------------------------------
(* MediaStore.  The files of an upload are its own until their rows are     *)
(* there, and on disk until they are removed for a bad signature.           *)
Carries(c) == c.step \in {"check", "avatar", "rows", "clean"}
Deletes(c) == c.step \in {"unlink", "forget"}

FilesOf(c) ==
  /\ Carries(c) => /\ c.files # {} /\ c.files \subseteq named
                   /\ \A f \in c.files : owner[f] = NoFile
                   /\ c.step # "clean" => c.files \subseteq disk
  /\ Deletes(c) => c.file \in named

Exclusive(c, d) ==
  Carries(c) =>
    /\ Carries(d) => c.files \cap d.files = {}
    /\ Deletes(d) => d.file \notin c.files

MediaInv ==
  /\ MediaTypeOK
  /\ \A f \in Files : owner[f] # NoFile => f \in named
  /\ \A r \in Requests : FilesOf(call[r])
  /\ \A r, q \in Requests : r # q => Exclusive(call[r], call[q])
  /\ MediaRowsHaveFiles

LEMMA MediaInitOK == MediaInit => MediaInv
<1> SUFFICES ASSUME MediaInit PROVE MediaInv
  OBVIOUS
<1>1. MediaTypeOK
  BY DEF MediaInit, MediaTypeOK, MediaCalls
<1> QED BY <1>1 DEF MediaInit, MediaInv, MediaRowsHaveFiles, FilesOf, Exclusive, Carries, Deletes, idle

(* Handler r changes its state; the others must still be right.             *)
LEMMA MediaFrom ==
  ASSUME MediaInv, NEW r \in Requests, call' = [call EXCEPT ![r] = call'[r]],
         call'[r] \in MediaCalls,
         disk' \in SUBSET named', named' \in SUBSET Files, lost' \in SUBSET Files,
         owner' \in [Files -> Uploaders \cup {NoFile}],
         avatar' \in [Uploaders -> Files \cup {NoFile}],
         \A f \in Files : owner'[f] # NoFile => f \in named',
         FilesOf(call[r])',
         \A q \in Requests \ {r} : /\ Exclusive(call'[r], call[q]) /\ Exclusive(call[q], call'[r])
                                   /\ call'[q] = call[q] => FilesOf(call[q])',
         MediaRowsHaveFiles'
  PROVE  MediaInv'
<1>1. call \in [Requests -> MediaCalls]
  BY DEF MediaInv, MediaTypeOK
<1>2. \A q \in Requests \ {r} : call'[q] = call[q]
  BY <1>1
<1>3. MediaTypeOK'
  BY <1>1 DEF MediaTypeOK
<1>4. \A q \in Requests : FilesOf(call[q])'
  BY <1>2
<1>5. \A p, q \in Requests : p # q => Exclusive(call'[p], call'[q])
  BY <1>2 DEF MediaInv
<1> QED BY <1>3, <1>4, <1>5 DEF MediaInv, Exclusive, Carries, Deletes

(* What is known of a handler by its step.                                  *)
LEMMA MediaKnown ==
  ASSUME MediaInv, NEW r \in Requests
  PROVE  /\ call[r] \in MediaCalls
         /\ Carries(call[r]) => /\ call[r].files \in SUBSET Files /\ call[r].user \in Uploaders
                                /\ call[r].kind \in {"avatar", "blog", "gallery"}
         /\ Deletes(call[r]) => call[r].file \in Files
         /\ FilesOf(call[r])
         /\ \A q \in Requests \ {r} : Exclusive(call[r], call[q]) /\ Exclusive(call[q], call[r])
<1>1. call[r] \in MediaCalls /\ FilesOf(call[r])
  BY DEF MediaInv, MediaTypeOK
<1> QED BY <1>1 DEF MediaInv, MediaCalls, Carries, Deletes, idle

(* A handler ends, or gives up, and nothing else changes but what was lost. *)
LEMMA MediaEnds ==
  ASSUME MediaInv, NEW r \in Requests, call' = [call EXCEPT ![r] = idle],
         UNCHANGED <<disk, named, owner, avatar>>, lost' \in SUBSET Files,
         \A f \in lost : f \in lost' \/ owner[f] = NoFile,
         At(r, "forget") => call[r].file \in lost'
  PROVE  MediaInv'
<1>1. call'[r] = idle /\ \A q \in Requests \ {r} : call'[q] = call[q]
  BY DEF MediaInv, MediaTypeOK
<1>2. \A f \in Files : Deleting(f) => Deleting(f)' \/ f \in lost'
  BY <1>1 DEF Deleting, At
<1>3. MediaRowsHaveFiles'
  BY <1>2 DEF MediaInv, MediaRowsHaveFiles
<1>4. idle \in MediaCalls /\ ~ Carries(idle) /\ ~ Deletes(idle)
  BY DEF MediaCalls, Carries, Deletes, idle
<1>5. FilesOf(call[r])' /\ \A q \in Requests \ {r} : FilesOf(call[q])'
  BY <1>1, <1>4, MediaKnown DEF FilesOf, Carries, Deletes
<1> QED BY <1>1, <1>3, <1>4, <1>5, MediaFrom DEF MediaInv, MediaTypeOK, Exclusive

LEMMA MediaStep == MediaInv /\ [MediaNext]_mediaVars => MediaInv'
<1> SUFFICES ASSUME MediaInv, [MediaNext]_mediaVars PROVE MediaInv'
  OBVIOUS
<1>0. /\ call \in [Requests -> MediaCalls] /\ disk \in SUBSET named /\ named \in SUBSET Files
      /\ owner \in [Files -> Uploaders \cup {NoFile}]
      /\ avatar \in [Uploaders -> Files \cup {NoFile}] /\ lost \in SUBSET Files
      /\ MediaRowsHaveFiles
      /\ \A f \in Files : owner[f] # NoFile => f \in named
  BY DEF MediaInv, MediaTypeOK
(* The handler goes on: it carries no more than it did.                     *)
<1>1. ASSUME NEW r \in Requests, NEW next \in {"avatar", "rows", "clean"},
             Carries(call[r]), call[r].step # "clean", call' = [call EXCEPT ![r].step = next],
             UNCHANGED <<disk, named, owner, lost>>, avatar' \in [Uploaders -> Files \cup {NoFile}]
      PROVE  MediaInv'
  <2>1. /\ call[r] \in [step : {"check", "avatar", "rows", "clean"}, kind : {"avatar", "blog", "gallery"},
                        user : Uploaders, files : SUBSET Files]
    BY <1>0, <1>1 DEF MediaCalls, Carries, idle
  <2>2. /\ call'[r] = [call[r] EXCEPT !.step = next]
        /\ \A q \in Requests \ {r} : call'[q] = call[q]
        /\ call' = [call EXCEPT ![r] = call'[r]]
    BY <1>0, <1>1
  <2>3. call'[r].step = next /\ call'[r].files = call[r].files /\ call'[r] \in MediaCalls
    BY <2>1, <2>2 DEF MediaCalls
  <2>4. \A f \in Files : Deleting(f) => Deleting(f)'
    BY <1>1, <2>2 DEF Deleting, At, Carries
  <2>5. MediaRowsHaveFiles'
    BY <1>0, <1>1, <2>4 DEF MediaRowsHaveFiles
  <2>6. FilesOf(call[r])'
    BY <1>1, <2>3, MediaKnown DEF FilesOf, Carries, Deletes
  <2>7. ASSUME NEW q \in Requests \ {r}
        PROVE  /\ Exclusive(call'[r], call[q]) /\ Exclusive(call[q], call'[r])
               /\ call'[q] = call[q] => FilesOf(call[q])'
    BY <1>1, <2>3, MediaKnown DEF FilesOf, Exclusive, Carries, Deletes
  <2> QED BY <1>0, <1>1, <2>2, <2>3, <2>5, <2>6, <2>7, MediaFrom
<1>2. ASSUME NEW r \in Requests, NEW u \in Uploaders, NEW kind \in {"avatar", "blog", "gallery"},
             NEW F \in SUBSET Files, Upload(r, u, kind, F)
      PROVE  MediaInv'
  <2> DEFINE c == [step |-> "check", kind |-> kind, user |-> u, files |-> F]
  <2>1. c \in MediaCalls /\ c.step = "check" /\ c.files = F
    BY DEF MediaCalls
  <2>2. call' = [call EXCEPT ![r] = c] /\ At(r, "idle")
    BY <1>2 DEF Upload, Start
  <2> HIDE DEF c
  <2>3. /\ call'[r] = c /\ call' = [call EXCEPT ![r] = call'[r]]
        /\ \A q \in Requests \ {r} : call'[q] = call[q]
    BY <1>0, <2>2
  <2>4. /\ disk' = disk \cup F /\ named' = named \cup F /\ F # {} /\ F \cap named = {}
        /\ UNCHANGED <<owner, avatar, lost>>
    BY <1>2 DEF Upload
  <2>5. \A f \in Files : Deleting(f) => Deleting(f)'
    BY <2>2, <2>3 DEF Deleting, At
  <2>6. MediaRowsHaveFiles'
    BY <1>0, <2>4, <2>5 DEF MediaRowsHaveFiles
  <2>7. FilesOf(call[r])'
    BY <1>0, <2>1, <2>3, <2>4 DEF FilesOf, Carries, Deletes
  <2>8. ASSUME NEW q \in Requests \ {r}
        PROVE  /\ Exclusive(call'[r], call[q]) /\ Exclusive(call[q], call'[r])
               /\ call'[q] = call[q] => FilesOf(call[q])'
    <3>1. FilesOf(call[q])
      BY MediaKnown
    <3>2. call'[q] = call[q] => FilesOf(call[q])'
      BY <2>4, <3>1 DEF FilesOf, Carries, Deletes
    <3> QED BY <2>1, <2>3, <2>4, <3>1, <3>2 DEF FilesOf, Exclusive, Carries, Deletes
  <2>9. disk' \in SUBSET named' /\ named' \in SUBSET Files
    BY <1>0, <2>4
  <2> QED BY <1>0, <2>1, <2>3, <2>4, <2>6, <2>7, <2>8, <2>9, MediaFrom
<1>3. ASSUME NEW r \in Requests, ValidImages(r) PROVE MediaInv'
  BY <1>0, <1>1, <1>3 DEF ValidImages, GoTo, At, Carries
<1>4. ASSUME NEW r \in Requests, InvalidImage(r) PROVE MediaInv'
  BY <1>0, <1>1, <1>4 DEF InvalidImage, GoTo, At, Carries
<1>5. ASSUME NEW r \in Requests, SetAvatar(r) PROVE MediaInv'
  <2>1. Carries(call[r]) /\ call[r].step # "clean"
    BY <1>5 DEF SetAvatar, At, Carries
  <2>2. (CHOOSE f \in call[r].files : TRUE) \in Files
    BY <2>1, MediaKnown DEF FilesOf
  <2>3. avatar' \in [Uploaders -> Files \cup {NoFile}]
    BY <1>0, <1>5, <2>2 DEF SetAvatar
  <2> QED BY <1>1, <1>5, <2>1, <2>3 DEF SetAvatar, GoTo
(* One file of a handler is done with; the handler carries the others.      *)
<1>6. ASSUME NEW r \in Requests, NEW f \in Files, f \in call[r].files, Carries(call[r]),
             IF call[r].files = {f} THEN Finish(r) ELSE Become(r, [call[r] EXCEPT !.files = @ \ {f}])
      PROVE  /\ call'[r] \in MediaCalls /\ call' = [call EXCEPT ![r] = call'[r]]
             /\ \A q \in Requests \ {r} : call'[q] = call[q]
             /\ \/ call'[r] = idle
                \/ /\ Carries(call'[r]) /\ call'[r].step = call[r].step
                   /\ call'[r].files = call[r].files \ {f} /\ call'[r].files # {}
  <2>1. call[r] \in [step : {"check", "avatar", "rows", "clean"}, kind : {"avatar", "blog", "gallery"},
                     user : Uploaders, files : SUBSET Files]
    BY <1>0, <1>6 DEF MediaCalls, Carries, idle
  <2>2. CASE call[r].files = {f}
    <3>1. call' = [call EXCEPT ![r] = idle]
      BY <1>6, <2>2 DEF Finish
    <3> QED BY <1>0, <3>1 DEF MediaCalls
  <2>3. CASE call[r].files # {f}
    <3> DEFINE c == [call[r] EXCEPT !.files = call[r].files \ {f}]
    <3>1. call' = [call EXCEPT ![r] = c]
      BY <1>6, <2>3 DEF Become
    <3>2. /\ c \in MediaCalls /\ c.step = call[r].step /\ c.files = call[r].files \ {f}
          /\ c.files # {} /\ Carries(c)
      BY <1>6, <2>1, <2>3 DEF MediaCalls, Carries
    <3> HIDE DEF c
    <3> QED BY <1>0, <3>1, <3>2
  <2> QED BY <2>2, <2>3
<1>7. ASSUME NEW r \in Requests, NEW f \in Files, CleanUp(r, f) PROVE MediaInv'
  <2>1. /\ call[r].step = "clean" /\ f \in call[r].files /\ Carries(call[r])
        /\ disk' = disk \ {f} /\ UNCHANGED <<named, owner, avatar, lost>>
    BY <1>7 DEF CleanUp, At, Carries
  <2>2. /\ call'[r] \in MediaCalls /\ call' = [call EXCEPT ![r] = call'[r]]
        /\ \A q \in Requests \ {r} : call'[q] = call[q]
        /\ \/ call'[r] = idle
           \/ /\ Carries(call'[r]) /\ call'[r].step = call[r].step
              /\ call'[r].files = call[r].files \ {f} /\ call'[r].files # {}
    BY <1>6, <1>7, <2>1 DEF CleanUp
  <2>3. \A g \in Files : Deleting(g) => Deleting(g)'
    BY <2>1, <2>2 DEF Deleting, At
  <2>4. owner[f] = NoFile
    BY <2>1, MediaKnown DEF FilesOf
  <2>5. MediaRowsHaveFiles'
    BY <1>0, <2>1, <2>3, <2>4 DEF MediaRowsHaveFiles
  <2>6. FilesOf(call[r])'
    BY <2>1, <2>2, MediaKnown DEF FilesOf, Carries, Deletes, idle
  <2>7. ASSUME NEW q \in Requests \ {r}
        PROVE  /\ Exclusive(call'[r], call[q]) /\ Exclusive(call[q], call'[r])
               /\ call'[q] = call[q] => FilesOf(call[q])'
    <3>1. FilesOf(call[q]) /\ Exclusive(call[r], call[q]) /\ Exclusive(call[q], call[r])
      BY MediaKnown
    <3>2. call'[q] = call[q] => FilesOf(call[q])'
      BY <2>1, <3>1 DEF FilesOf, Exclusive, Carries, Deletes
    <3> QED BY <2>1, <2>2, <3>1, <3>2 DEF Exclusive, Carries, Deletes, idle
  <2>8. disk' \in SUBSET named'
    BY <1>0, <2>1
  <2> QED BY <1>0, <2>1, <2>2, <2>5, <2>6, <2>7, <2>8, MediaFrom
<1>8. ASSUME NEW r \in Requests, NEW f \in Files, RecordFile(r, f) PROVE MediaInv'
  <2>1. /\ call[r].step = "rows" /\ f \in call[r].files /\ Carries(call[r])
        /\ owner' = [owner EXCEPT ![f] = call[r].user] /\ UNCHANGED <<disk, named, avatar, lost>>
    BY <1>8 DEF RecordFile, At, Carries
  <2>2. /\ call'[r] \in MediaCalls /\ call' = [call EXCEPT ![r] = call'[r]]
        /\ \A q \in Requests \ {r} : call'[q] = call[q]
        /\ \/ call'[r] = idle
           \/ /\ Carries(call'[r]) /\ call'[r].step = call[r].step
              /\ call'[r].files = call[r].files \ {f} /\ call'[r].files # {}
    BY <1>6, <1>8, <2>1 DEF RecordFile
  <2>3. \A g \in Files : Deleting(g) => Deleting(g)'
    BY <2>1, <2>2 DEF Deleting, At
  <2>4. f \in disk /\ f \in named /\ call[r].user \in Uploaders
    BY <2>1, MediaKnown DEF FilesOf
  <2>5. /\ owner' \in [Files -> Uploaders \cup {NoFile}]
        /\ \A g \in Files : g # f => owner'[g] = owner[g]
    BY <1>0, <2>1, <2>4
  <2>6. MediaRowsHaveFiles'
    BY <1>0, <2>1, <2>3, <2>4, <2>5 DEF MediaRowsHaveFiles
  <2>7. FilesOf(call[r])'
    <3>1. FilesOf(call[r]) /\ call[r].files \in SUBSET Files
      BY <2>1, MediaKnown
    <3> QED BY <2>1, <2>2, <2>5, <3>1 DEF FilesOf, Carries, Deletes, idle
  <2>8. ASSUME NEW q \in Requests \ {r}
        PROVE  /\ Exclusive(call'[r], call[q]) /\ Exclusive(call[q], call'[r])
               /\ call'[q] = call[q] => FilesOf(call[q])'
    <3>1. /\ FilesOf(call[q]) /\ Exclusive(call[r], call[q]) /\ Exclusive(call[q], call[r])
          /\ Carries(call[q]) => call[q].files \in SUBSET Files
      BY MediaKnown
    <3>2. call'[q] = call[q] => FilesOf(call[q])'
      BY <2>1, <2>5, <3>1 DEF FilesOf, Exclusive, Carries, Deletes
    <3> QED BY <2>1, <2>2, <3>1, <3>2 DEF Exclusive, Carries, Deletes, idle
  <2> QED BY <1>0, <2>1, <2>2, <2>4, <2>5, <2>6, <2>7, <2>8, MediaFrom
<1>9. ASSUME NEW r \in Requests, NEW u \in Uploaders, NEW f \in Files, DeleteMedia(r, u, f)
      PROVE  MediaInv'
  <2> DEFINE c == [step |-> "unlink", file |-> f]
  <2>1. c \in MediaCalls /\ c.step = "unlink" /\ c.file = f
    BY DEF MediaCalls
  <2>2. call' = [call EXCEPT ![r] = c] /\ At(r, "idle")
    BY <1>9 DEF DeleteMedia, Start
  <2> HIDE DEF c
  <2>3. /\ call'[r] = c /\ call' = [call EXCEPT ![r] = call'[r]]
        /\ \A q \in Requests \ {r} : call'[q] = call[q]
    BY <1>0, <2>2
  <2>4. UNCHANGED <<disk, named, owner, avatar, lost>> /\ owner[f] # NoFile
    BY <1>9 DEF DeleteMedia
  <2>5. MediaRowsHaveFiles'
    BY <1>0, <2>2, <2>3, <2>4 DEF MediaRowsHaveFiles, Deleting, At
  <2>6. FilesOf(call[r])'
    BY <1>0, <2>1, <2>3, <2>4 DEF FilesOf, Carries, Deletes
  <2>7. ASSUME NEW q \in Requests \ {r}
        PROVE  /\ Exclusive(call'[r], call[q]) /\ Exclusive(call[q], call'[r])
               /\ call'[q] = call[q] => FilesOf(call[q])'
    BY <2>1, <2>3, <2>4, MediaKnown DEF FilesOf, Exclusive, Carries, Deletes
  <2> QED BY <1>0, <2>1, <2>3, <2>4, <2>5, <2>6, <2>7, MediaFrom
<1>10. ASSUME NEW r \in Requests, Unlink(r) PROVE MediaInv'
  <2>1. /\ call[r].step = "unlink" /\ disk' \in SUBSET disk /\ disk \ {call[r].file} \subseteq disk'
        /\ UNCHANGED <<named, owner, avatar, lost>> /\ call' = [call EXCEPT ![r].step = "forget"]
    BY <1>10 DEF Unlink, At, GoTo
  <2>2. call[r] \in [step : {"unlink", "forget"}, file : Files]
    BY <1>0, <2>1 DEF MediaCalls, idle
  <2>3. /\ call'[r] = [call[r] EXCEPT !.step = "forget"]
        /\ call' = [call EXCEPT ![r] = call'[r]]
        /\ \A q \in Requests \ {r} : call'[q] = call[q]
    BY <1>0, <2>1
  <2>4. call'[r] \in MediaCalls /\ call'[r].step = "forget" /\ call'[r].file = call[r].file
    BY <2>2, <2>3 DEF MediaCalls
  <2>5. \A f \in Files : Deleting(f) => Deleting(f)'
    BY <2>1, <2>3 DEF Deleting, At
  <2>6. Deleting(call[r].file)'
    BY <2>1, <2>3, <2>4 DEF Deleting, At
  <2>7. MediaRowsHaveFiles'
    BY <1>0, <2>1, <2>5, <2>6 DEF MediaRowsHaveFiles
  <2>8. FilesOf(call[r])'
    BY <2>1, <2>4, MediaKnown DEF FilesOf, Carries, Deletes
  <2>9. ASSUME NEW q \in Requests \ {r}
        PROVE  /\ Exclusive(call'[r], call[q]) /\ Exclusive(call[q], call'[r])
               /\ call'[q] = call[q] => FilesOf(call[q])'
    <3>1. FilesOf(call[q]) /\ Exclusive(call[r], call[q]) /\ Exclusive(call[q], call[r])
      BY MediaKnown
    <3>2. call'[q] = call[q] => FilesOf(call[q])'
      BY <2>1, <3>1 DEF FilesOf, Exclusive, Carries, Deletes
    <3> QED BY <2>1, <2>4, <3>1, <3>2 DEF Exclusive, Carries, Deletes
  <2>10. disk' \in SUBSET named'
    BY <1>0, <2>1
  <2> QED BY <1>0, <2>1, <2>3, <2>4, <2>7, <2>8, <2>9, <2>10, MediaFrom
<1>11. ASSUME NEW r \in Requests, ForgetFile(r) PROVE MediaInv'
  <2> DEFINE f == call[r].file
  <2>1. /\ call[r].step = "forget" /\ owner' = [owner EXCEPT ![f] = NoFile] /\ lost' = lost \ {f}
        /\ UNCHANGED <<disk, named, avatar>> /\ call' = [call EXCEPT ![r] = idle]
    BY <1>11 DEF ForgetFile, At, Finish
  <2>2. call'[r] = idle /\ \A q \in Requests \ {r} : call'[q] = call[q]
    BY <1>0, <2>1
  <2>3. f \in Files
    BY <2>1, MediaKnown DEF Deletes
  <2>4. /\ owner' \in [Files -> Uploaders \cup {NoFile}] /\ owner'[f] = NoFile
        /\ \A g \in Files : g # f => owner'[g] = owner[g]
    BY <1>0, <2>1, <2>3
  <2> HIDE DEF f
  <2>5. \A g \in Files : g # f /\ Deleting(g) => Deleting(g)'
    BY <2>2 DEF Deleting, At, f
  <2>6. MediaRowsHaveFiles'
    BY <1>0, <2>1, <2>4, <2>5 DEF MediaRowsHaveFiles
  <2>7. idle \in MediaCalls /\ ~ Carries(idle) /\ ~ Deletes(idle)
    BY DEF MediaCalls, Carries, Deletes, idle
  <2>8. FilesOf(call[r])'
    BY <2>2, <2>7 DEF FilesOf, Carries, Deletes
  <2>9. ASSUME NEW q \in Requests \ {r} PROVE call'[q] = call[q] => FilesOf(call[q])'
    <3>1. FilesOf(call[q]) /\ (Carries(call[q]) => call[q].files \in SUBSET Files)
      BY MediaKnown
    <3> QED BY <2>1, <2>4, <3>1 DEF FilesOf, Carries, Deletes
  <2> QED BY <1>0, <2>1, <2>2, <2>4, <2>6, <2>7, <2>8, <2>9, MediaFrom DEF Exclusive
<1>12. ASSUME NEW r \in Requests, MediaFails(r) PROVE MediaInv'
  <2>1. At(r, "forget") => call[r].file \in Files
    BY MediaKnown DEF At, Deletes
  <2> QED BY <1>0, <1>12, <2>1, MediaEnds DEF MediaFails, Finish
<1>13. CASE UNCHANGED mediaVars
  BY <1>13 DEF mediaVars, MediaInv, MediaTypeOK, FilesOf, MediaRowsHaveFiles, Deleting, At
<1> QED BY <1>2, <1>3, <1>4, <1>5, <1>7, <1>8, <1>9, <1>10, <1>11, <1>12, <1>13 DEF MediaNext

(* Every row of the media library has its file, whatever uploads and        *)
(* deletions overlap, but for a deletion that is halfway or was cut off.    *)
THEOREM MediaRowsHaveFilesHolds == MediaSpec => []MediaRowsHaveFiles
<1>1. MediaInv => MediaRowsHaveFiles
  BY DEF MediaInv
<1> QED BY <1>1, MediaInitOK, MediaStep, PTL DEF MediaSpec

-----------------------------------------------------------------------------
(* ReviewService.  A count is that of the votes, whatever the reviews race. *)
VoiceInv ==
  /\ call \in [Requests -> ReviewCalls] /\ votes \in SUBSET (Reviews \X Reviewers)
  /\ author \in [Reviews -> Reviewers \cup {NoAuthor}] /\ DOMAIN helpful = Reviews
  /\ helpful = [i \in Reviews |-> helpful[i]]
  /\ VotesAreCounted

LEMMA VoiceInitOK == ReviewInit => VoiceInv
<1> SUFFICES ASSUME ReviewInit PROVE VoiceInv
  OBVIOUS
<1>1. \A i \in Reviews : Voters(i) = {}
  BY DEF ReviewInit, Voters
<1>2. VotesAreCounted
  BY <1>1, FS_EmptySet DEF ReviewInit, VotesAreCounted
<1> QED BY <1>2 DEF ReviewInit, VoiceInv, ReviewCalls, idle

(* A step that writes neither a review nor a vote.                          *)
LEMMA VoiceQuiet ==
  ASSUME VoiceInv, NEW r \in Requests, NEW c \in ReviewCalls, call' = [call EXCEPT ![r] = c],
         UNCHANGED <<author, helpful, votes>>
  PROVE  VoiceInv'
BY DEF VoiceInv, VotesAreCounted, Voters

LEMMA VoiceStep == VoiceInv /\ [ReviewNext]_reviewVars => VoiceInv'
<1> SUFFICES ASSUME VoiceInv, [ReviewNext]_reviewVars PROVE VoiceInv'
  OBVIOUS
<1>0. /\ call \in [Requests -> ReviewCalls] /\ author \in [Reviews -> Reviewers \cup {NoAuthor}]
      /\ votes \in SUBSET (Reviews \X Reviewers) /\ VotesAreCounted
  BY DEF VoiceInv
<1>1. ASSUME NEW r \in Requests, NEW u \in Reviewers, CreateReview(r, u) PROVE VoiceInv'
  <2>1. [step |-> "check", user |-> u] \in ReviewCalls
    BY DEF ReviewCalls
  <2> QED BY <1>1, <2>1, VoiceQuiet DEF CreateReview, Start
<1>2. ASSUME NEW r \in Requests, NEW u \in Reviewers, NEW i \in Reviews, Upvote(r, u, i)
      PROVE  VoiceInv'
  <2>1. [step |-> "look", user |-> u, review |-> i] \in ReviewCalls
    BY DEF ReviewCalls
  <2> QED BY <1>2, <2>1, VoiceQuiet DEF Upvote, Start
<1>3. ASSUME NEW r \in Requests, CheckExisting(r) PROVE VoiceInv'
  <2> DEFINE c == [call[r] EXCEPT !.step = "create"]
  <2>1. call[r] \in [step : {"check", "create"}, user : Reviewers]
    BY <1>0, <1>3 DEF CheckExisting, At, ReviewCalls, idle
  <2>2. c \in ReviewCalls
    BY <2>1 DEF ReviewCalls
  <2>3. call' = [call EXCEPT ![r] = c] /\ UNCHANGED <<author, helpful, votes>>
    BY <1>3 DEF CheckExisting, GoTo
  <2> HIDE DEF c
  <2> QED BY <2>2, <2>3, VoiceQuiet
<1>4. ASSUME NEW r \in Requests, LookForVote(r) PROVE VoiceInv'
  <2> DEFINE c == [call[r] EXCEPT !.step = "vote"]
  <2>1. call[r] \in [step : {"look", "vote"}, user : Reviewers, review : Reviews]
    BY <1>0, <1>4 DEF LookForVote, At, ReviewCalls, idle
  <2>2. c \in ReviewCalls
    BY <2>1 DEF ReviewCalls
  <2>3. call' = [call EXCEPT ![r] = c] /\ UNCHANGED <<author, helpful, votes>>
    BY <1>4 DEF LookForVote, GoTo
  <2> HIDE DEF c
  <2> QED BY <2>2, <2>3, VoiceQuiet
<1>5. ASSUME NEW r \in Requests, ReviewFails(r) PROVE VoiceInv'
  <2>1. idle \in ReviewCalls
    BY DEF ReviewCalls
  <2> QED BY <1>5, <2>1, VoiceQuiet DEF ReviewFails, Finish
<1>6. ASSUME NEW r \in Requests, NEW i \in Reviews, WriteReview(r, i) PROVE VoiceInv'
  <2>1. /\ At(r, "create") /\ author' = [author EXCEPT ![i] = call[r].user]
        /\ call' = [call EXCEPT ![r] = idle] /\ UNCHANGED <<helpful, votes>>
    BY <1>6 DEF WriteReview, Finish
  <2>2. call[r].user \in Reviewers
    BY <1>0, <2>1 DEF At, ReviewCalls, idle
  <2>3. author' \in [Reviews -> Reviewers \cup {NoAuthor}]
    BY <1>0, <2>1, <2>2
  <2>4. call' \in [Requests -> ReviewCalls]
    BY <1>0, <2>1 DEF ReviewCalls
  <2>5. VotesAreCounted'
    BY <1>0, <2>1 DEF VotesAreCounted, Voters
  <2> QED BY <2>1, <2>3, <2>4, <2>5 DEF VoiceInv
<1>7. ASSUME NEW r \in Requests, WriteVote(r) PROVE VoiceInv'
  <2> DEFINE i == call[r].review
             u == call[r].user
  <2>1. /\ At(r, "vote") /\ <<i, u>> \notin votes /\ votes' = votes \cup {<<i, u>>}
        /\ helpful' = [helpful EXCEPT ![i] = @ + 1] /\ call' = [call EXCEPT ![r] = idle]
        /\ UNCHANGED author
    BY <1>7 DEF WriteVote, Finish
  <2>2. i \in Reviews /\ u \in Reviewers
    BY <1>0, <2>1 DEF At, ReviewCalls, idle
  <2> HIDE DEF i, u
  <2>3. ASSUME NEW j \in Reviews
        PROVE  helpful'[j] = Cardinality(Voters(j)')
    <3>1. IsFiniteSet(Voters(j))
      BY ReviewAssumption, FS_Subset DEF Voters
    <3>2. CASE j = i
      <4>1. Voters(j)' = Voters(j) \cup {u} /\ u \notin Voters(j)
        BY <2>1, <2>2, <3>2 DEF Voters
      <4>2. Cardinality(Voters(j) \cup {u}) = Cardinality(Voters(j)) + 1
        BY <3>1, <4>1, FS_AddElement
      <4> QED BY <1>0, <2>1, <3>2, <4>1, <4>2 DEF VoiceInv, VotesAreCounted
    <3>3. CASE j # i
      <4>1. Voters(j)' = Voters(j)
        BY <2>1, <3>3 DEF Voters
      <4> QED BY <1>0, <2>1, <3>3, <4>1 DEF VoiceInv, VotesAreCounted
    <3> QED BY <3>2, <3>3
  <2>4. VotesAreCounted'
    BY <2>3 DEF VotesAreCounted
  <2>5. call' \in [Requests -> ReviewCalls]
    BY <1>0, <2>1 DEF ReviewCalls
  <2>6. helpful' = [j \in Reviews |-> helpful'[j]]
    BY <2>1 DEF VoiceInv
  <2> QED BY <1>0, <2>1, <2>2, <2>4, <2>5, <2>6 DEF VoiceInv
<1>8. CASE UNCHANGED reviewVars
  BY <1>8 DEF reviewVars, VoiceInv, VotesAreCounted, Voters
<1> QED BY <1>1, <1>2, <1>3, <1>4, <1>5, <1>6, <1>7, <1>8 DEF ReviewNext

(* The count of a review is that of its voters, for any number of users and *)
(* of requests that race.                                                   *)
THEOREM VotesAreCountedHolds == ReviewSpec => []VotesAreCounted
<1>1. VoiceInv => VotesAreCounted
  BY DEF VoiceInv
<1> QED BY <1>1, VoiceInitOK, VoiceStep, PTL DEF ReviewSpec

-----------------------------------------------------------------------------
(* PermissionCache.  A list that is not stored yet is that of the rows,     *)
(* unless an edit overtook it; an entry is, unless an edit has still to     *)
(* delete it or one of the two races left it behind.                        *)
StaleInv ==
  /\ grants \in [Roles -> SUBSET Codes] /\ cached \in [Roles -> SUBSET SUBSET Codes]
  /\ call \in [Requests -> CacheCalls]
  /\ \A r \in Requests : At(r, "invalidate") => call[r].roles # << >>
  /\ \A role \in Roles : role \notin tainted /\ ~ Invalidating(role)
       => cached[role] \in {{}, {grants[role]}}
  /\ \A r \in Requests : At(r, "store") /\ ~ call[r].raced => call[r].list = grants[call[r].role]

LEMMA ThreeRoles ==
  /\ "ADMIN" \in Roles /\ "STAFF" \in Roles /\ \A role \in Roles : role \in {"USER", "STAFF", "ADMIN"}
  /\ DefaultsOf \in [Roles -> SUBSET DefaultCodes]
BY CacheAssumption, Zenon

LEMMA StaleInitOK == CacheInit => StaleInv
BY ThreeRoles DEF CacheInit, StaleInv, CacheCalls, Codes, At, idle

(* Neither rows nor entries change, and no invalidation is given up.        *)
LEMMA StaleQuiet ==
  ASSUME StaleInv, NEW r \in Requests, NEW c \in CacheCalls, call' = [call EXCEPT ![r] = c],
         UNCHANGED <<grants, cached>>, tainted \subseteq tainted',
         c.step \notin {"invalidate", "grantStaff"},
         c.step = "store" => c.list = grants[c.role],
         \A role \in Roles : At(r, "invalidate") /\ role \in ToForget(r) => role \in tainted',
         At(r, "grantStaff") => "ADMIN" \in tainted'
  PROVE  StaleInv'
<1>1. \A q \in Requests : call'[q] = IF q = r THEN c ELSE call[q]
  BY DEF StaleInv
<1>2. ASSUME NEW role \in Roles, role \notin tainted', ~ Invalidating(role)'
      PROVE  cached'[role] \in {{}, {grants'[role]}}
  <2>1. ~ Invalidating(role)
    BY <1>1, <1>2 DEF Invalidating, ToForget, At
  <2> QED BY <1>2, <2>1 DEF StaleInv
<1>3. \A q \in Requests : At(q, "invalidate")' => call'[q].roles # << >>
  BY <1>1 DEF StaleInv, At
<1>4. \A q \in Requests : At(q, "store")' /\ ~ call'[q].raced => call'[q].list = grants'[call'[q].role]
  BY <1>1 DEF StaleInv, At
<1>5. call' \in [Requests -> CacheCalls]
  BY DEF StaleInv
<1> QED BY <1>2, <1>3, <1>4, <1>5 DEF StaleInv

(* The rows of a role change: the entry of that role is still to be         *)
(* deleted, and every list of it that is on its way is marked.              *)
LEMMA StaleOvertaken ==
  ASSUME StaleInv, NEW r \in Requests, NEW c \in CacheCalls, NEW role \in Roles,
         Overtake(r, c, role), UNCHANGED <<cached, tainted>>,
         grants' \in [Roles -> SUBSET Codes], \A other \in Roles \ {role} : grants'[other] = grants[other],
         \/ /\ c.step = "invalidate" /\ c.roles # << >>
            /\ role \in {c.roles[i] : i \in DOMAIN c.roles}
            /\ At(r, "grantStaff") => "ADMIN" \in {c.roles[i] : i \in DOMAIN c.roles}
         \/ c.step = "grantStaff" /\ role = "ADMIN" /\ ~ At(r, "grantStaff"),
         ~ At(r, "invalidate")
  PROVE  StaleInv'
<1>1. /\ call'[r] = c
      /\ \A q \in Requests \ {r} :
           call'[q] = IF call[q].step = "store" /\ call[q].role = role
                      THEN [call[q] EXCEPT !.raced = TRUE] ELSE call[q]
  BY DEF Overtake
<1>2. ASSUME NEW q \in Requests \ {r}
      PROVE  /\ call'[q] \in CacheCalls /\ call'[q].step = call[q].step
             /\ ~ At(q, "store") => call'[q] = call[q]
             /\ At(q, "store") => /\ call'[q].role = call[q].role /\ call'[q].list = call[q].list
                                  /\ call[q].role = role => call'[q].raced
                                  /\ call[q].role # role => call'[q] = call[q]
  <2>1. call[q] \in CacheCalls
    BY DEF StaleInv
  <2>2. CASE call[q].step = "store" /\ call[q].role = role
    <3>1. call[q] \in [step : {"store"}, role : Roles, list : SUBSET Codes, raced : BOOLEAN]
      BY <2>1, <2>2 DEF CacheCalls, idle
    <3>2. call'[q] = [call[q] EXCEPT !.raced = TRUE]
      BY <1>1, <2>2
    <3>3. call'[q] \in [step : {"store"}, role : Roles, list : SUBSET Codes, raced : BOOLEAN]
      BY <3>1, <3>2
    <3>4. call'[q].step = call[q].step /\ call'[q].role = call[q].role
            /\ call'[q].list = call[q].list /\ call'[q].raced
      BY <3>1, <3>2
    <3> QED BY <2>2, <3>3, <3>4 DEF CacheCalls, At
  <2>3. CASE ~ (call[q].step = "store" /\ call[q].role = role)
    BY <1>1, <2>1, <2>3 DEF At
  <2> QED BY <2>2, <2>3
<1>3. call' \in [Requests -> CacheCalls]
  BY <1>1, <1>2 DEF Overtake
<1>4. ASSUME NEW other \in Roles, other \notin tainted', ~ Invalidating(other)'
      PROVE  cached'[other] \in {{}, {grants'[other]}}
  <2>1. \A q \in Requests \ {r} : call[q].step \in {"invalidate", "grantStaff"} => call'[q] = call[q]
    BY <1>2 DEF At
  <2>2. other # role
    BY <1>1, <1>4 DEF Invalidating, ToForget
  <2>3. ~ Invalidating(other)
    BY <1>1, <1>4, <2>1, <2>2 DEF Invalidating, ToForget, At
  <2> QED BY <1>4, <2>2, <2>3 DEF StaleInv
<1>5. \A q \in Requests : At(q, "invalidate")' => call'[q].roles # << >>
  BY <1>1, <1>2 DEF StaleInv, At
<1>6. ASSUME NEW q \in Requests, At(q, "store")', ~ call'[q].raced
      PROVE  call'[q].list = grants'[call'[q].role]
  <2>1. q # r /\ At(q, "store") /\ call[q].role # role /\ call'[q] = call[q]
    BY <1>1, <1>2, <1>6 DEF At
  <2>2. call[q].role \in Roles
    BY <2>1 DEF StaleInv, At, CacheCalls, idle
  <2> QED BY <1>6, <2>1, <2>2 DEF StaleInv
<1> QED BY <1>3, <1>4, <1>5, <1>6 DEF StaleInv

LEMMA StaleStep == StaleInv /\ codes \in SUBSET Codes /\ [CacheNext]_cacheVars => StaleInv'
<1> SUFFICES ASSUME StaleInv, codes \in SUBSET Codes, [CacheNext]_cacheVars PROVE StaleInv'
  OBVIOUS
<1>0. /\ grants \in [Roles -> SUBSET Codes] /\ cached \in [Roles -> SUBSET SUBSET Codes]
      /\ call \in [Requests -> CacheCalls]
  BY DEF StaleInv
<1>1. ASSUME NEW r \in Requests, NEW role \in Roles, CanActivate(r, role) PROVE StaleInv'
  <2>1. [step |-> "query", role |-> role] \in CacheCalls
    BY DEF CacheCalls
  <2> QED BY <1>1, <2>1, StaleQuiet DEF CanActivate, Start, cacheRows, At
<1>2. ASSUME NEW r \in Requests, QueryPermissions(r) PROVE StaleInv'
  <2> DEFINE c == [step |-> "store", role |-> call[r].role, raced |-> FALSE,
                   list |-> grants[call[r].role]]
  <2>1. call[r].role \in Roles
    BY <1>0, <1>2 DEF QueryPermissions, At, CacheCalls, idle
  <2>2. c \in CacheCalls /\ c.step = "store" /\ c.list = grants[c.role]
    BY <1>0, <2>1 DEF CacheCalls
  <2>3. call' = [call EXCEPT ![r] = c]
    BY <1>2 DEF QueryPermissions, Become
  <2> HIDE DEF c
  <2> QED BY <1>2, <2>2, <2>3, StaleQuiet DEF QueryPermissions, cacheRows, At
<1>3. ASSUME NEW r \in Requests, StorePermissions(r) PROVE StaleInv'
  <2> DEFINE role == call[r].role
  <2>1. /\ call[r].step = "store" /\ cached' = [cached EXCEPT ![role] = {call[r].list}]
        /\ tainted' = IF call[r].raced THEN tainted \cup {role} ELSE tainted \ {role}
        /\ call' = [call EXCEPT ![r] = idle] /\ UNCHANGED grants
    BY <1>3 DEF StorePermissions, Finish, At
  <2>2. role \in Roles /\ call[r].list \in SUBSET Codes
    BY <1>0, <2>1 DEF CacheCalls, idle
  <2>3. \A q \in Requests : call'[q] = IF q = r THEN idle ELSE call[q]
    BY <1>0, <2>1
  <2>4. ~ call[r].raced => call[r].list = grants[role]
    BY <2>1 DEF StaleInv, At
  <2> HIDE DEF role
  <2>5. \A other \in Roles : cached'[other] = IF other = role THEN {call[r].list} ELSE cached[other]
    BY <1>0, <2>1
  <2>6. ASSUME NEW other \in Roles, other \notin tainted', ~ Invalidating(other)'
        PROVE  cached'[other] \in {{}, {grants'[other]}}
    <3>1. ~ Invalidating(other)
      BY <2>1, <2>3, <2>6 DEF Invalidating, ToForget
    <3> QED BY <2>1, <2>4, <2>5, <2>6, <3>1 DEF StaleInv
  <2>7. cached' \in [Roles -> SUBSET SUBSET Codes]
    BY <1>0, <2>1, <2>2
  <2>8. call' \in [Requests -> CacheCalls]
    BY <1>0, <2>1 DEF CacheCalls
  <2> QED BY <1>0, <2>1, <2>3, <2>6, <2>7, <2>8 DEF StaleInv, At, idle
<1>4. ASSUME NEW role \in Roles, EntryExpires(role) PROVE StaleInv'
  <2>1. \A other \in Roles : cached'[other] = IF other = role THEN {} ELSE cached[other]
    BY <1>0, <1>4 DEF EntryExpires
  <2>2. cached' \in [Roles -> SUBSET SUBSET Codes]
    BY <1>0, <1>4 DEF EntryExpires
  <2> QED BY <1>4, <2>1, <2>2 DEF EntryExpires, StaleInv, Invalidating, ToForget, At
<1>5. ASSUME NEW r \in Requests, NEW role \in Roles, NEW code \in Codes, RemovePermission(r, role, code)
      PROVE  StaleInv'
  <2> DEFINE c == [step |-> "invalidate", roles |-> <<role>>]
  <2>1. c.roles = <<role>> /\ c.step = "invalidate" /\ c \in CacheCalls
    BY DEF CacheCalls
  <2> HIDE DEF c
  <2>2. c.roles # << >> /\ role \in {c.roles[i] : i \in DOMAIN c.roles}
    BY <2>1
  <2>3. Overtake(r, c, role) /\ At(r, "idle") /\ grants' = [grants EXCEPT ![role] = @ \ {code}]
          /\ UNCHANGED <<cached, tainted>>
    BY <1>5 DEF RemovePermission, c
  <2>4. grants' \in [Roles -> SUBSET Codes] /\ \A other \in Roles \ {role} : grants'[other] = grants[other]
    BY <1>0, <2>3
  <2> QED BY <2>1, <2>2, <2>3, <2>4, StaleOvertaken DEF At
<1>6. ASSUME NEW code \in CustomCodes, CreatePermission(code) PROVE StaleInv'
  BY <1>6 DEF CreatePermission, StaleInv, Invalidating, ToForget, At
<1>7. ASSUME NEW r \in Requests, SeedDefaults(r) PROVE StaleInv'
  <2> DEFINE c == [step |-> "grantAdmin", seen |-> codes \cup DefaultCodes]
  <2>1. c \in CacheCalls /\ c.step = "grantAdmin"
    BY DEF CacheCalls, Codes
  <2>2. At(r, "idle") /\ call' = [call EXCEPT ![r] = c] /\ UNCHANGED <<grants, cached, tainted>>
    BY <1>7 DEF SeedDefaults, Start
  <2> HIDE DEF c
  <2> QED BY <2>1, <2>2, StaleQuiet DEF At
<1>8. ASSUME NEW r \in Requests, GrantAdmin(r) PROVE StaleInv'
  <2> DEFINE c == [step |-> "grantStaff", seen |-> call[r].seen]
  <2>1. call[r].seen \in SUBSET Codes
    BY <1>0, <1>8 DEF GrantAdmin, At, CacheCalls, idle
  <2>2. c \in CacheCalls /\ c.step = "grantStaff"
    BY <2>1 DEF CacheCalls
  <2> HIDE DEF c
  <2>3. /\ At(r, "grantAdmin") /\ Overtake(r, c, "ADMIN") /\ UNCHANGED <<cached, tainted>>
        /\ grants' = [grants EXCEPT !["ADMIN"] = @ \cup call[r].seen]
    BY <1>8 DEF GrantAdmin, c
  <2>4. grants' \in [Roles -> SUBSET Codes] /\ \A other \in Roles \ {"ADMIN"} : grants'[other] = grants[other]
    BY <1>0, <2>1, <2>3
  <2> QED BY <2>2, <2>3, <2>4, StaleOvertaken, ThreeRoles DEF At
<1>9. ASSUME NEW r \in Requests, GrantStaff(r) PROVE StaleInv'
  <2> DEFINE c == [step |-> "invalidate", roles |-> <<"ADMIN", "STAFF", "USER">>]
  <2>0. "USER" \in Roles
    BY CacheAssumption, Zenon
  <2>1. c.roles = <<"ADMIN", "STAFF", "USER">> /\ c.step = "invalidate" /\ c \in CacheCalls
    BY <2>0, ThreeRoles DEF CacheCalls
  <2> HIDE DEF c
  <2>2. /\ c.roles # << >> /\ "STAFF" \in {c.roles[i] : i \in DOMAIN c.roles}
        /\ "ADMIN" \in {c.roles[i] : i \in DOMAIN c.roles}
    <3>1. 1 \in DOMAIN c.roles /\ 2 \in DOMAIN c.roles /\ c.roles[1] = "ADMIN" /\ c.roles[2] = "STAFF"
      BY <2>1
    <3> QED BY <2>1, <3>1
  <2>3. /\ At(r, "grantStaff") /\ Overtake(r, c, "STAFF") /\ UNCHANGED <<cached, tainted>>
        /\ grants' = [grants EXCEPT !["STAFF"] = @ \cup (DefaultsOf["STAFF"] \cap call[r].seen)]
    BY <1>9 DEF GrantStaff, c
  <2>4. grants' \in [Roles -> SUBSET Codes] /\ \A other \in Roles \ {"STAFF"} : grants'[other] = grants[other]
    BY <1>0, <2>3, ThreeRoles DEF Codes
  <2> QED BY <2>1, <2>2, <2>3, <2>4, StaleOvertaken, ThreeRoles DEF At
<1>10. ASSUME NEW r \in Requests, ForgetRole(r) PROVE StaleInv'
  <2> DEFINE s == call[r].roles
             role == Head(s)
  <2>1. /\ call[r].step = "invalidate" /\ cached' = [cached EXCEPT ![role] = {}]
        /\ tainted' = tainted \ {role} /\ UNCHANGED grants
        /\ \/ Len(s) = 1 /\ call' = [call EXCEPT ![r] = idle]
           \/ Len(s) # 1 /\ call' = [call EXCEPT ![r] = [call[r] EXCEPT !.roles = Tail(s)]]
    BY <1>10 DEF ForgetRole, At, Finish, Become
  <2>2. call[r] \in [step : {"invalidate"}, roles : Seq(Roles)] /\ s # << >>
    BY <1>0, <2>1 DEF StaleInv, At, CacheCalls, idle
  <2>3. s \in Seq(Roles)
    BY <2>2
  <2> HIDE DEF s
  <2>4. role \in Roles /\ Len(s) \in Nat \ {0} /\ DOMAIN s = 1..Len(s) /\ role = s[1]
    BY <2>2, <2>3, EmptySeq, LenProperties, HeadTailProperties
  <2>5. /\ Tail(s) \in Seq(Roles) /\ Len(Tail(s)) = Len(s) - 1
        /\ DOMAIN Tail(s) = 1..(Len(s) - 1) /\ \A i \in 1..(Len(s) - 1) : Tail(s)[i] = s[i + 1]
    BY <2>2, <2>3, <2>4, HeadTailProperties, LenProperties
  <2> HIDE DEF role
  <2>6. \A other \in Roles : cached'[other] = IF other = role THEN {} ELSE cached[other]
    BY <1>0, <2>1
  <2>7. \A q \in Requests \ {r} : call'[q] = call[q]
    BY <1>0, <2>1
  <2>8. CASE Len(s) = 1
    <3>1. call'[r] = idle
      BY <1>0, <2>1, <2>8
    <3>2. \A other \in Roles \ {role} : Invalidating(other) => Invalidating(other)'
      <4> SUFFICES ASSUME NEW other \in Roles \ {role}, Invalidating(other) PROVE Invalidating(other)'
        OBVIOUS
      <4>1. other \notin ToForget(r)
        BY <2>4, <2>8 DEF ToForget, s
      <4> QED BY <2>1, <2>7, <4>1 DEF Invalidating, ToForget
    <3>3. \A other \in Roles : other \notin tainted' /\ ~ Invalidating(other)'
             => cached'[other] \in {{}, {grants'[other]}}
      BY <2>1, <2>6, <3>2 DEF StaleInv
    <3>4. cached' \in [Roles -> SUBSET SUBSET Codes] /\ call' \in [Requests -> CacheCalls]
      BY <1>0, <2>1, <2>8 DEF CacheCalls
    <3> QED BY <1>0, <2>1, <2>7, <3>1, <3>3, <3>4 DEF StaleInv, At, idle
  <2>9. CASE Len(s) # 1
    <3>1. /\ call'[r] = [call[r] EXCEPT !.roles = Tail(s)]
          /\ call'[r].step = "invalidate" /\ call'[r].roles = Tail(s)
      BY <1>0, <2>1, <2>2, <2>9
    <3>2. call'[r] \in CacheCalls
      BY <2>2, <2>5, <3>1 DEF CacheCalls
    <3>3. Tail(s) # << >>
      BY <2>4, <2>5, <2>9
    <3>4. \A other \in Roles \ {role} : Invalidating(other) => Invalidating(other)'
      <4> SUFFICES ASSUME NEW other \in Roles \ {role}, Invalidating(other) PROVE Invalidating(other)'
        OBVIOUS
      <4>1. CASE other \in ToForget(r)
        <5>1. PICK i \in 1..Len(s) : s[i] = other
          BY <2>4, <4>1 DEF ToForget, s
        <5>2. i - 1 \in 1..(Len(s) - 1) /\ s[(i - 1) + 1] = other
          BY <2>4, <5>1
        <5>3. i - 1 \in DOMAIN Tail(s) /\ Tail(s)[i - 1] = other
          BY <2>5, <5>2
        <5> QED BY <3>1, <5>3 DEF Invalidating, ToForget
      <4>2. CASE other \notin ToForget(r)
        BY <2>1, <2>7, <4>2 DEF Invalidating, ToForget
      <4> QED BY <4>1, <4>2
    <3>5. \A other \in Roles : other \notin tainted' /\ ~ Invalidating(other)'
             => cached'[other] \in {{}, {grants'[other]}}
      BY <2>1, <2>6, <3>4 DEF StaleInv
    <3>6. cached' \in [Roles -> SUBSET SUBSET Codes] /\ call' \in [Requests -> CacheCalls]
      BY <1>0, <2>1, <2>7, <3>2
    <3> QED BY <1>0, <2>1, <2>7, <3>1, <3>3, <3>5, <3>6 DEF StaleInv, At
  <2> QED BY <2>8, <2>9
<1>11. ASSUME NEW r \in Requests, CutOff(r) PROVE StaleInv'
  <2>1. idle \in CacheCalls /\ idle.step = "idle"
    BY DEF CacheCalls, idle
  <2>2. call' = [call EXCEPT ![r] = idle] /\ UNCHANGED <<grants, cached>>
    BY <1>11 DEF CutOff, Finish, cacheRows
  <2>3. /\ tainted \subseteq tainted'
        /\ At(r, "invalidate") => \A role \in ToForget(r) : role \in tainted'
        /\ At(r, "grantStaff") => "ADMIN" \in tainted'
    BY <1>11 DEF CutOff, At
  <2> QED BY <2>1, <2>2, <2>3, StaleQuiet
<1>12. CASE UNCHANGED cacheVars
  BY <1>12 DEF cacheVars, StaleInv, Invalidating, ToForget, At
<1> QED BY <1>1, <1>2, <1>3, <1>4, <1>5, <1>6, <1>7, <1>8, <1>9, <1>10, <1>11, <1>12 DEF CacheNext

LEMMA CodesStep == codes \in SUBSET Codes /\ [CacheNext]_cacheVars => (codes \in SUBSET Codes)'
BY DEF CacheNext, cacheVars, cacheRows, Codes, CanActivate, QueryPermissions, StorePermissions,
       EntryExpires, RemovePermission, CreatePermission, SeedDefaults, GrantAdmin, GrantStaff,
       ForgetRole, CutOff

(* The guard answers by the rows, but for the races and failures that       *)
(* StaleEntryExplained names, for any number of requests and of edits.      *)
THEOREM StaleEntryExplainedHolds == CacheSpec => []StaleEntryExplained
<1>1. StaleInv => StaleEntryExplained
  <2> SUFFICES ASSUME StaleInv, NEW role \in Roles, NEW code \in Codes,
                      role \notin tainted, ~ Invalidating(role)
               PROVE  Allowed(role, code) <=> code \in grants[role]
    BY DEF StaleEntryExplained
  <2> QED BY DEF StaleInv, Allowed
<1>2. CacheInit => codes \in SUBSET Codes
  BY DEF CacheInit, Codes
<1> QED BY <1>1, <1>2, StaleInitOK, StaleStep, CodesStep, PTL DEF CacheSpec

-----------------------------------------------------------------------------
(* WishlistSync.  Only a settled tab's own requests can change the row, one *)
(* at a time, and its heart is ahead of the row until that request writes.  *)
Toggling(c) == c.step \in {"find", "delete", "insert"}

(* How the heart of a tab stands to the row while its request c is on its   *)
(* way: the row is about to become what the heart shows.                    *)
Ahead(c) ==
  /\ Toggling(c) => (heart[c.tab] <=> ~ saved)
  /\ c.step = "delete" => saved
  /\ c.step = "insert" => ~ saved
  /\ c.step \in {"fetch", "show"} => (heart[c.tab] <=> saved)
  /\ c.step = "show" => (c.list <=> saved)

Settled(t) ==
  /\ \A r \in Requests : Toggling(call[r]) => call[r].tab = t
  /\ \A r \in Requests : ~ At(r, "idle") /\ call[r].tab = t => Ahead(call[r])
  /\ \A r, q \in Requests :
       r # q /\ ~ At(r, "idle") /\ ~ At(q, "idle") => call[r].tab # t \/ call[q].tab # t
  /\ (\A r \in Requests : ~ At(r, "idle") => call[r].tab # t) => (heart[t] <=> saved)

WishInv ==
  /\ WishlistTypeOK
  /\ \A r \in Requests : ~ At(r, "idle") /\ call[r].alone =>
       /\ \A q \in Requests \ {r} : At(q, "idle")
       /\ At(r, "show") => (call[r].list <=> saved)
  /\ \A t \in Tabs : t \notin unsettled => Settled(t)

LEMMA WishInitOK == WishlistInit => WishInv
<1> SUFFICES ASSUME WishlistInit PROVE WishInv
  OBVIOUS
<1>1. \A r \in Requests : call[r] = idle /\ At(r, "idle") /\ ~ Toggling(call[r])
  BY DEF WishlistInit, At, Toggling, idle
<1>2. WishlistTypeOK
  BY DEF WishlistInit, WishlistTypeOK, WishCalls
<1>3. ASSUME NEW t \in Tabs, t \notin unsettled PROVE heart[t] <=> saved
  BY <1>3 DEF WishlistInit
<1> QED BY <1>1, <1>2, <1>3 DEF WishInv, Settled

(* What is known of a request in flight.                                    *)
LEMMA WishKnown ==
  ASSUME WishInv, NEW r \in Requests, ~ At(r, "idle")
  PROVE  /\ call[r].tab \in Tabs
         /\ \/ call[r] \in [step : {"find", "delete", "insert", "fetch"}, tab : Tabs, alone : BOOLEAN]
            \/ call[r] \in [step : {"show"}, tab : Tabs, alone : BOOLEAN, list : BOOLEAN]
         /\ call[r] \in WishCalls
<1>1. call[r] \in WishCalls /\ call[r].step # "idle"
  BY DEF WishInv, WishlistTypeOK, At
<1> QED BY <1>1 DEF WishCalls, idle

(* A request of tab t is sent, at step `find` or `fetch`.                   *)
LEMMA WishSent ==
  ASSUME WishInv, NEW r \in Requests, NEW t \in Tabs, NEW step \in {"find", "fetch"}, Send(r, t, step),
         saved' = saved, heart' \in [Tabs -> BOOLEAN], unsettled' \in SUBSET Tabs,
         unsettled \subseteq unsettled', ~ NoneInFlight => t \in unsettled',
         step = "find" => \A s \in Tabs \ {t} : s \in unsettled',
         step = "find" => (heart'[t] <=> ~ heart[t]),
         step = "fetch" => heart' = heart
  PROVE  WishInv'
<1> DEFINE b == NoneInFlight
           c == [step |-> step, tab |-> t, alone |-> b]
<1>1. /\ At(r, "idle") /\ call'[r] = c
      /\ \A q \in Requests \ {r} :
           call'[q] = IF At(q, "idle") THEN call[q] ELSE [call[q] EXCEPT !.alone = FALSE]
  BY DEF Send, WishInv, WishlistTypeOK
<1>2. b \in BOOLEAN
  BY DEF NoneInFlight
<1> HIDE DEF b
<1>3. c \in WishCalls /\ c.step = step /\ c.tab = t /\ c.alone = b
  BY <1>2 DEF WishCalls
<1> HIDE DEF c
<1>4. ASSUME NEW q \in Requests \ {r}
      PROVE  /\ call'[q] \in WishCalls /\ call'[q].step = call[q].step
             /\ ~ At(q, "idle") => call'[q].tab = call[q].tab /\ ~ call'[q].alone
             /\ At(q, "show") => call'[q].list = call[q].list
  <2>1. CASE At(q, "idle")
    BY <1>1, <2>1 DEF WishInv, WishlistTypeOK, At
  <2>2. CASE ~ At(q, "idle")
    <3>1. call'[q] = [call[q] EXCEPT !.alone = FALSE]
      BY <1>1, <2>2
    <3>2. CASE call[q] \in [step : {"find", "delete", "insert", "fetch"}, tab : Tabs, alone : BOOLEAN]
      BY <3>1, <3>2 DEF WishCalls, At
    <3>3. CASE call[q] \in [step : {"show"}, tab : Tabs, alone : BOOLEAN, list : BOOLEAN]
      BY <3>1, <3>3 DEF WishCalls, At
    <3> QED BY <2>2, <3>2, <3>3, WishKnown
  <2> QED BY <2>1, <2>2
<1>5. WishlistTypeOK'
  <2>1. call' \in [Requests -> WishCalls]
    BY <1>1, <1>3, <1>4 DEF Send
  <2> QED BY <2>1 DEF WishInv, WishlistTypeOK
<1>6. b <=> \A q \in Requests : At(q, "idle")
  BY DEF b, NoneInFlight
<1>7. ASSUME NEW p \in Requests, ~ At(p, "idle")', call'[p].alone
      PROVE  /\ \A q \in Requests \ {p} : At(q, "idle")'
             /\ At(p, "show")' => (call'[p].list <=> saved')
  <2>1. p = r
    BY <1>1, <1>4, <1>7 DEF At
  <2>2. b
    BY <1>1, <1>3, <1>7, <2>1
  <2> QED BY <1>1, <1>3, <1>4, <1>6, <2>1, <2>2 DEF At
<1>8. ASSUME NEW s \in Tabs, s \notin unsettled' PROVE Settled(s)'
  <2>1. Settled(s)
    BY <1>8 DEF WishInv
  <2>2. CASE s = t
    <3>1. /\ \A q \in Requests : At(q, "idle")
          /\ heart[t] <=> saved
      BY <1>6, <1>8, <2>1, <2>2 DEF b, Settled
    <3>2. \A q \in Requests \ {r} : At(q, "idle")' /\ ~ Toggling(call'[q])
      BY <1>4, <3>1 DEF At, Toggling
    <3>3. call'[r].step = step /\ call'[r].tab = t /\ (step = "find" <=> Toggling(call'[r]))
      BY <1>1, <1>3 DEF Toggling
    <3>4. Ahead(call[r])'
      BY <3>1, <3>3 DEF Ahead, Toggling
    <3> QED BY <2>2, <3>2, <3>3, <3>4 DEF Settled, At
  <2>3. CASE s # t
    <3>1. step = "fetch" /\ heart' = heart
      BY <1>8, <2>3
    <3>2. call'[r].tab # s /\ ~ Toggling(call'[r])
      BY <1>1, <1>3, <2>3, <3>1 DEF Toggling
    <3>3. \A q \in Requests \ {r} : Toggling(call'[q]) => call'[q].tab = s
      BY <1>4, <2>1 DEF Settled, Toggling, At
    <3>4. \A q \in Requests \ {r} : ~ At(q, "idle")' /\ call'[q].tab = s => Ahead(call[q])'
      <4> SUFFICES ASSUME NEW q \in Requests \ {r}, ~ At(q, "idle")', call'[q].tab = s
                   PROVE  Ahead(call[q])'
        OBVIOUS
      <4>1. /\ call'[q].step = call[q].step /\ call'[q].tab = call[q].tab /\ ~ At(q, "idle")
            /\ At(q, "show") => call'[q].list = call[q].list
        BY <1>4 DEF At
      <4>2. Ahead(call[q])
        BY <2>1, <4>1 DEF Settled
      <4> QED BY <3>1, <4>1, <4>2 DEF Ahead, Toggling, At
    <3>5. \A p, q \in Requests :
            p # q /\ ~ At(p, "idle")' /\ ~ At(q, "idle")' => call'[p].tab # s \/ call'[q].tab # s
      BY <1>4, <2>1, <3>2 DEF Settled, At
    <3>6. (\A q \in Requests : ~ At(q, "idle")' => call'[q].tab # s) => (heart'[s] <=> saved')
      BY <1>1, <1>4, <2>1, <3>1 DEF Settled, At
    <3> QED BY <3>2, <3>3, <3>4, <3>5, <3>6 DEF Settled
  <2> QED BY <2>2, <2>3
<1> QED BY <1>5, <1>7, <1>8 DEF WishInv

(* A request is over, and the row is as it was: its tab is settled only if  *)
(* the heart is now right.                                                  *)
LEMMA WishOver ==
  ASSUME WishInv, NEW r \in Requests, ~ At(r, "idle"), call' = [call EXCEPT ![r] = idle],
         heart' \in [Tabs -> BOOLEAN], saved' \in BOOLEAN, unsettled' \in SUBSET Tabs,
         \A t \in Tabs \ {call[r].tab} : heart'[t] = heart[t] /\ (t \in unsettled' <=> t \in unsettled),
         \/ saved' = saved
         \/ Toggling(call[r]),
         call[r].tab \notin unsettled' =>
           /\ heart'[call[r].tab] <=> saved'
           /\ call[r].tab \notin unsettled \/ \A q \in Requests \ {r} : At(q, "idle")
  PROVE  WishInv'
<1> DEFINE t == call[r].tab
<1>1. call'[r] = idle /\ \A q \in Requests \ {r} : call'[q] = call[q]
  BY DEF WishInv, WishlistTypeOK
<1>2. t \in Tabs
  BY WishKnown
<1> HIDE DEF t
<1>3. idle.step = "idle" /\ idle \in WishCalls /\ ~ Toggling(idle)
  BY DEF idle, WishCalls, Toggling
<1>4. WishlistTypeOK'
  BY <1>3 DEF WishInv, WishlistTypeOK
<1>5. ASSUME NEW p \in Requests, ~ At(p, "idle")', call'[p].alone
      PROVE  /\ \A q \in Requests \ {p} : At(q, "idle")'
             /\ At(p, "show")' => (call'[p].list <=> saved')
  <2>1. p # r /\ ~ At(p, "idle") /\ call[p].alone
    BY <1>1, <1>3, <1>5 DEF At
  <2>2. At(r, "idle")
    BY <2>1 DEF WishInv
  <2> QED BY <2>2
<1>6. ASSUME NEW s \in Tabs, s \notin unsettled' PROVE Settled(s)'
  <2>1. CASE s = t
    <3>1. heart'[s] <=> saved'
      BY <1>6, <2>1 DEF t
    <3>2. \A q \in Requests \ {r} : At(q, "idle") \/ (call[q].tab # s /\ ~ Toggling(call[q]))
      <4>1. CASE \A q \in Requests \ {r} : At(q, "idle")
        BY <4>1
      <4>2. CASE s \notin unsettled
        BY <4>2, <2>1 DEF WishInv, Settled, t, Toggling, At
      <4> QED BY <1>6, <2>1, <4>1, <4>2 DEF t
    <3>3. \A q \in Requests : ~ Toggling(call'[q]) /\ (At(q, "idle")' \/ call'[q].tab # s)
      BY <1>1, <1>3, <3>2 DEF At, Toggling
    <3> QED BY <3>1, <3>3 DEF Settled
  <2>2. CASE s # t
    <3>1. Settled(s) /\ heart'[s] = heart[s]
      BY <1>6, <2>2 DEF WishInv, t
    <3>2. saved' = saved
      BY <2>2, <3>1 DEF Settled, t
    <3>3. \A q \in Requests : ~ At(q, "idle")' => q # r /\ call'[q] = call[q] /\ ~ At(q, "idle")
      BY <1>1, <1>3 DEF At
    <3>4. \A q \in Requests : Toggling(call'[q]) => call'[q].tab = s
      BY <1>1, <1>3, <3>1 DEF Settled
    <3>5. \A q \in Requests : ~ At(q, "idle")' /\ call'[q].tab = s => Ahead(call[q])'
      BY <3>1, <3>2, <3>3 DEF Settled, Ahead
    <3>6. \A p, q \in Requests :
            p # q /\ ~ At(p, "idle")' /\ ~ At(q, "idle")' => call'[p].tab # s \/ call'[q].tab # s
      BY <3>1, <3>3 DEF Settled
    <3>7. (\A q \in Requests : ~ At(q, "idle")' => call'[q].tab # s) => (heart'[s] <=> saved')
      BY <1>1, <2>2, <3>1, <3>2 DEF Settled, At, t
    <3> QED BY <3>4, <3>5, <3>6, <3>7 DEF Settled
  <2> QED BY <2>1, <2>2
<1> QED BY <1>4, <1>5, <1>6 DEF WishInv

(* A request reads the row and goes on.                                     *)
LEMMA WishReads ==
  ASSUME WishInv, NEW r \in Requests, ~ At(r, "idle"), NEW c \in WishCalls, call' = [call EXCEPT ![r] = c],
         c.step # "idle", c.tab = call[r].tab, c.alone = call[r].alone,
         Toggling(c) <=> Toggling(call[r]), UNCHANGED <<saved, heart, unsettled>>,
         c.step = "delete" => saved, c.step = "insert" => ~ saved,
         c.step = "show" => (c.list <=> saved), c.step \in {"fetch", "show"} => At(r, "fetch")
  PROVE  WishInv'
<1>1. call'[r] = c /\ \A q \in Requests \ {r} : call'[q] = call[q]
  BY DEF WishInv, WishlistTypeOK
<1>2. WishlistTypeOK'
  BY DEF WishInv, WishlistTypeOK
<1>3. \A q \in Requests : /\ call'[q].tab = call[q].tab \/ At(q, "idle")
                          /\ At(q, "idle")' <=> At(q, "idle")
                          /\ Toggling(call'[q]) <=> Toggling(call[q])
  BY <1>1 DEF At
<1>4. ASSUME NEW p \in Requests, ~ At(p, "idle")', call'[p].alone
      PROVE  /\ \A q \in Requests \ {p} : At(q, "idle")'
             /\ At(p, "show")' => (call'[p].list <=> saved')
  BY <1>1, <1>3, <1>4 DEF WishInv, At
<1>5. ASSUME NEW s \in Tabs, s \notin unsettled' PROVE Settled(s)'
  <2>1. Settled(s)
    BY <1>5 DEF WishInv
  <2>2. ASSUME NEW q \in Requests, ~ At(q, "idle")', call'[q].tab = s PROVE Ahead(call[q])'
    <3>1. Ahead(call[q])
      BY <1>1, <1>3, <2>1, <2>2 DEF Settled
    <3> QED BY <1>1, <3>1 DEF Ahead, At
  <2>3. \A q \in Requests : Toggling(call'[q]) => call'[q].tab = s
    BY <1>1, <2>1 DEF Settled
  <2>4. \A p, q \in Requests :
          p # q /\ ~ At(p, "idle")' /\ ~ At(q, "idle")' => call'[p].tab # s \/ call'[q].tab # s
    BY <1>3, <2>1 DEF Settled
  <2>5. (\A q \in Requests : ~ At(q, "idle")' => call'[q].tab # s) => (heart'[s] <=> saved')
    BY <1>3, <2>1 DEF Settled
  <2> QED BY <2>2, <2>3, <2>4, <2>5 DEF Settled
<1> QED BY <1>2, <1>4, <1>5 DEF WishInv

LEMMA WishStep == WishInv /\ [WishlistNext]_wishVars => WishInv'
<1> SUFFICES ASSUME WishInv, [WishlistNext]_wishVars PROVE WishInv'
  OBVIOUS
<1>0. /\ call \in [Requests -> WishCalls] /\ heart \in [Tabs -> BOOLEAN] /\ saved \in BOOLEAN
      /\ unsettled \in SUBSET Tabs
  BY DEF WishInv, WishlistTypeOK
<1>1. ASSUME NEW r \in Requests, NEW t \in Tabs, Toggle(r, t) PROVE WishInv'
  <2>1. heart' \in [Tabs -> BOOLEAN] /\ (heart'[t] <=> ~ heart[t])
    BY <1>0, <1>1 DEF Toggle
  <2>2. /\ unsettled' \in SUBSET Tabs /\ unsettled \subseteq unsettled'
        /\ \A s \in Tabs \ {t} : s \in unsettled'
        /\ ~ NoneInFlight => t \in unsettled'
    BY <1>0, <1>1 DEF Toggle
  <2> QED BY <1>1, <2>1, <2>2, WishSent DEF Toggle
<1>2. ASSUME NEW r \in Requests, NEW t \in Tabs, Sync(r, t) PROVE WishInv'
  <2>1. /\ unsettled' \in SUBSET Tabs /\ unsettled \subseteq unsettled'
        /\ ~ NoneInFlight => t \in unsettled'
    BY <1>0, <1>2 DEF Sync
  <2> QED BY <1>0, <1>2, <2>1, WishSent DEF Sync
<1>3. ASSUME NEW r \in Requests, FindRow(r) PROVE WishInv'
  <2> DEFINE next == IF saved THEN "delete" ELSE "insert"
             c == [call[r] EXCEPT !.step = next]
  <2>1. call[r].step = "find" /\ call' = [call EXCEPT ![r] = c] /\ UNCHANGED <<saved, heart, unsettled>>
    BY <1>3 DEF FindRow, At, GoTo
  <2>2. call[r] \in [step : {"find", "delete", "insert", "fetch"}, tab : Tabs, alone : BOOLEAN]
    BY <2>1, WishKnown DEF At
  <2>3. next \in {"delete", "insert"} /\ (next = "delete" => saved) /\ (next = "insert" => ~ saved)
    OBVIOUS
  <2> HIDE DEF next
  <2>4. c \in WishCalls /\ c.step = next /\ c.tab = call[r].tab /\ c.alone = call[r].alone
    BY <2>2, <2>3 DEF WishCalls
  <2> HIDE DEF c
  <2> QED BY <2>1, <2>3, <2>4, WishReads DEF At, Toggling
<1>4. ASSUME NEW r \in Requests, FetchRows(r) PROVE WishInv'
  <2> DEFINE c == [step |-> "show", tab |-> call[r].tab, alone |-> call[r].alone, list |-> saved]
  <2>1. call[r].step = "fetch" /\ call' = [call EXCEPT ![r] = c] /\ UNCHANGED <<saved, heart, unsettled>>
    BY <1>4 DEF FetchRows, At, Become
  <2>2. call[r] \in [step : {"find", "delete", "insert", "fetch"}, tab : Tabs, alone : BOOLEAN]
    BY <2>1, WishKnown DEF At
  <2>3. c \in WishCalls
    BY <1>0, <2>2 DEF WishCalls
  <2>4. c.step = "show" /\ c.tab = call[r].tab /\ c.alone = call[r].alone /\ c.list = saved
    OBVIOUS
  <2> HIDE DEF c
  <2> QED BY <2>1, <2>3, <2>4, WishReads DEF At, Toggling
<1>5. ASSUME NEW r \in Requests, DeleteRow(r) \/ InsertRow(r) PROVE WishInv'
  <2>1. /\ Toggling(call[r]) /\ ~ At(r, "idle") /\ saved' \in BOOLEAN
        /\ call' = [call EXCEPT ![r] = idle] /\ UNCHANGED <<heart, unsettled>>
        /\ saved' <=> ~ saved
    BY <1>5 DEF DeleteRow, InsertRow, Finish, Toggling, At
  <2>2. call[r].tab \notin unsettled => (heart[call[r].tab] <=> ~ saved)
    BY <2>1, WishKnown DEF WishInv, Settled, Ahead
  <2> QED BY <1>0, <2>1, <2>2, WishOver
<1>6. ASSUME NEW r \in Requests, ShowRows(r) PROVE WishInv'
  <2> DEFINE t == call[r].tab
  <2>1. /\ call[r].step = "show" /\ heart' = [heart EXCEPT ![t] = call[r].list]
        /\ unsettled' = IF call[r].alone THEN unsettled \ {t} ELSE unsettled
        /\ call' = [call EXCEPT ![r] = idle] /\ saved' = saved
    BY <1>6 DEF ShowRows, At, Finish
  <2>2. call[r] \in [step : {"show"}, tab : Tabs, alone : BOOLEAN, list : BOOLEAN]
    BY <2>1, WishKnown DEF At
  <2>3. t \in Tabs /\ call[r].list \in BOOLEAN
    BY <2>2
  <2>4. call[r].alone => (call[r].list <=> saved) /\ \A q \in Requests \ {r} : At(q, "idle")
    BY <2>1 DEF WishInv, At
  <2>5. t \notin unsettled => (call[r].list <=> saved)
    BY <2>1, <2>3 DEF WishInv, Settled, Ahead, At
  <2> HIDE DEF t
  <2>6. /\ heart' \in [Tabs -> BOOLEAN] /\ heart'[t] = call[r].list
        /\ \A s \in Tabs \ {t} : heart'[s] = heart[s]
    BY <1>0, <2>1, <2>3
  <2>7. t \notin unsettled' => /\ heart'[t] <=> saved'
                               /\ t \notin unsettled \/ \A q \in Requests \ {r} : At(q, "idle")
    BY <2>1, <2>4, <2>5, <2>6
  <2>8. /\ unsettled' \in SUBSET Tabs
        /\ \A s \in Tabs \ {t} : s \in unsettled' <=> s \in unsettled
    BY <1>0, <2>1
  <2> QED BY <1>0, <2>1, <2>6, <2>7, <2>8, WishOver DEF t, At
<1>7. ASSUME NEW r \in Requests, RequestFails(r) PROVE WishInv'
  <2>1. call[r].tab \in Tabs
    BY <1>7, WishKnown DEF RequestFails
  <2> QED BY <1>0, <1>7, <2>1, WishOver DEF RequestFails, Finish
<1>8. ASSUME NEW t \in Tabs, ReloadTab(t) PROVE WishInv'
  <2>1. /\ heart' = [heart EXCEPT ![t] = FALSE] /\ UNCHANGED <<saved, call>>
        /\ unsettled \subseteq unsettled' /\ unsettled' \in SUBSET Tabs
        /\ saved \/ Busy # {} => t \in unsettled'
    BY <1>0, <1>8 DEF ReloadTab
  <2>2. heart' \in [Tabs -> BOOLEAN] /\ ~ heart'[t] /\ \A s \in Tabs \ {t} : heart'[s] = heart[s]
    BY <1>0, <2>1
  <2>3. t \notin unsettled' => ~ saved /\ \A q \in Requests : At(q, "idle")
    BY <2>1 DEF Busy
  <2>4. ASSUME NEW s \in Tabs, s \notin unsettled' PROVE Settled(s)'
    <3>1. CASE s = t
      BY <2>1, <2>2, <2>3, <2>4, <3>1 DEF Settled, At, Toggling
    <3>2. CASE s # t
      <4>1. Settled(s) /\ heart'[s] = heart[s]
        BY <2>1, <2>2, <2>4, <3>2 DEF WishInv
      <4> QED BY <2>1, <4>1 DEF Settled, Ahead, At
    <3> QED BY <3>1, <3>2
  <2> QED BY <1>0, <2>1, <2>2, <2>4 DEF WishInv, WishlistTypeOK, At
<1>9. CASE UNCHANGED wishVars
  BY <1>9 DEF wishVars, WishInv, WishlistTypeOK, Settled, Ahead, At
<1> QED BY <1>1, <1>2, <1>3, <1>4, <1>5, <1>6, <1>7, <1>8, <1>9 DEF WishlistNext

(* A settled tab with nothing in flight shows the row, for any number of    *)
(* tabs and of requests.                                                    *)
THEOREM HeartIsRowHolds == WishlistSpec => []HeartIsRow
<1>1. WishInv => HeartIsRow
  <2> SUFFICES ASSUME WishInv, NEW t \in Tabs, t \notin unsettled, NoneInFlight PROVE heart[t] = saved
    BY DEF HeartIsRow
  <2>1. Settled(t) /\ heart[t] \in BOOLEAN /\ saved \in BOOLEAN
    BY DEF WishInv, WishlistTypeOK
  <2> QED BY <2>1 DEF Settled, NoneInFlight
<1> QED BY <1>1, WishInitOK, WishStep, PTL DEF WishlistSpec

-----------------------------------------------------------------------------
(* BlogService.  A row that is there has a slug, so that writing its other  *)
(* columns neither removes it nor takes a slug from another one.            *)
RowOK(row) ==
  /\ row.status = "DRAFT"     => ~ row.published /\ ~ row.scheduled
  /\ row.status = "PUBLISHED" => row.published /\ ~ row.scheduled
  /\ row.status = "SCHEDULED" => row.scheduled
  /\ row # NoRow => row.slug \in Slugs

PostInv ==
  /\ post \in [Posts -> BlogRow] /\ call \in [Requests -> BlogCalls]
  /\ \A i \in Posts : RowOK(post[i])
  /\ \A i \in Posts, t \in Tags : <<i, t>> \in tagged => Alive(i)
  /\ \A i, j \in Posts : i # j /\ Alive(i) /\ Alive(j) => post[i].slug # post[j].slug

LEMMA NoRowIsARow == NoRow \in BlogRow /\ RowOK(NoRow)
<1>1. NoRow \in BlogRow
  BY BlogAssumption DEF NoRow, BlogRow
<1>2. NoRow.status = "DRAFT" /\ ~ NoRow.published /\ ~ NoRow.scheduled
  BY DEF NoRow
<1> QED BY <1>1, <1>2 DEF RowOK

LEMMA PostInitOK == BlogInit => PostInv
<1>1. idle \in BlogCalls
  BY DEF BlogCalls
<1> QED BY <1>1, NoRowIsARow DEF BlogInit, PostInv, Alive

(* A row that is there gets new values in columns other than its slug.      *)
LEMMA PostWritten ==
  ASSUME PostInv, NEW i \in Posts, Alive(i), NEW row \in BlogRow, RowOK(row), row.slug = post[i].slug,
         post' = [post EXCEPT ![i] = row], UNCHANGED tagged, call' \in [Requests -> BlogCalls]
  PROVE  PostInv'
<1>1. row # NoRow
  BY BlogAssumption DEF PostInv, RowOK, Alive, NoRow
<1>2. \A j \in Posts : post'[j] = IF j = i THEN row ELSE post[j]
  BY DEF PostInv
<1>3. post' \in [Posts -> BlogRow]
  BY DEF PostInv
<1> QED BY <1>1, <1>2, <1>3 DEF PostInv, Alive

(* A row goes, with its tags.                                               *)
LEMMA PostRemoved ==
  ASSUME PostInv, NEW i \in Posts, Remove(i), call' \in [Requests -> BlogCalls]
  PROVE  PostInv'
<1>1. \A j \in Posts : post'[j] = IF j = i THEN NoRow ELSE post[j]
  BY DEF Remove, PostInv
<1>2. post' \in [Posts -> BlogRow]
  BY NoRowIsARow DEF Remove, PostInv
<1>3. \A j \in Posts, t \in Tags : <<j, t>> \in tagged' => j # i /\ <<j, t>> \in tagged
  BY DEF Remove, Retag
<1> QED BY <1>1, <1>2, <1>3, NoRowIsARow DEF PostInv, Alive

LEMMA PostStep == PostInv /\ [BlogNext]_blogVars => PostInv'
<1> SUFFICES ASSUME PostInv, [BlogNext]_blogVars PROVE PostInv'
  OBVIOUS
<1>0. /\ post \in [Posts -> BlogRow] /\ call \in [Requests -> BlogCalls]
      /\ \A i \in Posts : RowOK(post[i])
      /\ idle \in BlogCalls
  BY DEF PostInv, BlogCalls
<1>1. ASSUME UNCHANGED <<post, tagged>>, call' \in [Requests -> BlogCalls] PROVE PostInv'
  BY <1>1 DEF PostInv, Alive
<1>2. ASSUME NEW r \in Requests, NEW u \in Authors, NEW slug \in Slugs, NEW tags \in SUBSET Tags,
             CreatePost(r, u, slug, tags)
      PROVE  PostInv'
  <2>1. [step |-> "insert", slug |-> slug, author |-> u, tags |-> tags] \in BlogCalls
    BY DEF BlogCalls
  <2>2. call' \in [Requests -> BlogCalls]
    BY <1>0, <1>2, <2>1 DEF CreatePost, Start
  <2> QED BY <1>1, <1>2, <2>2 DEF CreatePost
<1>3. ASSUME NEW r \in Requests, NEW i \in Posts, NEW step \in BlogSteps, NEW tags \in SUBSET Tags,
             FindPost(r, i, step, tags)
      PROVE  PostInv'
  <2>1. [step |-> step, post |-> i, tags |-> tags] \in BlogCalls
    BY DEF BlogCalls
  <2>2. call' \in [Requests -> BlogCalls]
    BY <1>0, <1>3, <2>1 DEF FindPost, Start
  <2> QED BY <1>1, <1>3, <2>2 DEF FindPost
<1>4. ASSUME NEW r \in Requests, Finish(r) PROVE call' \in [Requests -> BlogCalls]
  BY <1>0, <1>4 DEF Finish
<1>5. ASSUME NEW r \in Requests, call[r].step \in BlogSteps
      PROVE  call[r].post \in Posts /\ call[r].tags \in SUBSET Tags
  BY <1>0, <1>5 DEF BlogCalls, BlogSteps, idle
<1>6. ASSUME NEW r \in Requests, InsertPost(r) PROVE PostInv'
  <2> DEFINE i == used + 1
             row == [NoRow EXCEPT !.slug = call[r].slug, !.author = call[r].author]
  <2>1. /\ call[r].step = "insert" /\ i \in Posts /\ BySlug(call[r].slug) = {}
        /\ post' = [post EXCEPT ![i] = row] /\ tagged' = Retag(i, call[r].tags) /\ Finish(r)
    BY <1>6 DEF InsertPost, At
  <2>2. call[r] \in [step : {"insert"}, slug : Slugs, author : Authors, tags : SUBSET Tags]
    BY <1>0, <2>1 DEF BlogCalls, BlogSteps, idle
  <2>3. /\ row \in BlogRow /\ row.slug = call[r].slug /\ row.slug \in Slugs
        /\ row.status = "DRAFT" /\ ~ row.published /\ ~ row.scheduled
    BY <2>2, NoRowIsARow DEF NoRow, BlogRow
  <2>4. RowOK(row) /\ row # NoRow
    BY <2>3, BlogAssumption DEF RowOK, NoRow
  <2> HIDE DEF i, row
  <2>5. \A j \in Posts : post'[j] = IF j = i THEN row ELSE post[j]
    BY <1>0, <2>1
  <2>6. post' \in [Posts -> BlogRow]
    BY <1>0, <2>1, <2>3
  <2>7. \A j \in Posts, t \in Tags : <<j, t>> \in tagged' => j = i \/ <<j, t>> \in tagged
    BY <2>1 DEF Retag
  <2>8. \A j \in Posts : j # i /\ Alive(j) => post[j].slug # row.slug
    BY <2>1, <2>3 DEF BySlug
  <2> QED BY <1>4, <2>1, <2>4, <2>5, <2>6, <2>7, <2>8 DEF PostInv, Alive
<1>7. ASSUME NEW r \in Requests, ReplaceTags(r) PROVE PostInv'
  <2>1. /\ Alive(call[r].post) /\ tagged' = Retag(call[r].post, call[r].tags) /\ post' = post
        /\ Finish(r)
    BY <1>7 DEF ReplaceTags
  <2>2. \A j \in Posts, t \in Tags : <<j, t>> \in tagged' => j = call[r].post \/ <<j, t>> \in tagged
    BY <2>1 DEF Retag
  <2> QED BY <1>4, <2>1, <2>2 DEF PostInv, Alive
<1>8. ASSUME NEW r \in Requests, DeleteTags(r) PROVE PostInv'
  <2>1. \A j \in Posts, t \in Tags : <<j, t>> \in tagged' => <<j, t>> \in tagged
    BY <1>8 DEF DeleteTags, Retag
  <2>2. call[r] \in [step : BlogSteps, post : Posts, tags : SUBSET Tags]
    BY <1>0, <1>8 DEF DeleteTags, At, BlogCalls, idle
  <2>3. [call[r] EXCEPT !.step = "remove"] \in BlogCalls
    BY <2>2 DEF BlogCalls, BlogSteps
  <2>4. call' \in [Requests -> BlogCalls] /\ post' = post
    BY <1>0, <1>8, <2>3 DEF DeleteTags, GoTo
  <2> QED BY <2>1, <2>4 DEF PostInv, Alive
(* The three writes of a status, and the count of a view.                   *)
<1>9. ASSUME NEW r \in Requests, call[r].step \in BlogSteps, NEW row \in BlogRow, RowOK(row),
             row.slug = post[call[r].post].slug, Write(r, row)
      PROVE  PostInv'
  BY <1>4, <1>5, <1>9, PostWritten DEF Write
<1>10. ASSUME NEW r \in Requests, WritePublished(r) PROVE PostInv'
  <2> DEFINE old == post[call[r].post]
             row == [old EXCEPT !.status = "PUBLISHED", !.published = TRUE, !.scheduled = FALSE]
  <2>1. call[r].step \in BlogSteps /\ Write(r, row)
    BY <1>10 DEF WritePublished, At, BlogSteps
  <2>2. old \in BlogRow /\ RowOK(old) /\ Alive(call[r].post)
    BY <1>0, <1>5, <2>1 DEF Write
  <2>3. /\ row \in BlogRow /\ row.slug = old.slug /\ row.slug \in Slugs
        /\ row.status = "PUBLISHED" /\ row.published /\ ~ row.scheduled
    BY <2>2 DEF BlogRow, RowOK, Alive
  <2>4. RowOK(row)
    BY <2>3 DEF RowOK
  <2> QED BY <1>9, <2>1, <2>3, <2>4
<1>11. ASSUME NEW r \in Requests, WriteScheduled(r) PROVE PostInv'
  <2> DEFINE old == post[call[r].post]
             row == [old EXCEPT !.status = "SCHEDULED", !.scheduled = TRUE]
  <2>1. call[r].step \in BlogSteps /\ Write(r, row)
    BY <1>11 DEF WriteScheduled, At, BlogSteps
  <2>2. old \in BlogRow /\ RowOK(old) /\ Alive(call[r].post)
    BY <1>0, <1>5, <2>1 DEF Write
  <2>3. /\ row \in BlogRow /\ row.slug = old.slug /\ row.slug \in Slugs
        /\ row.status = "SCHEDULED" /\ row.scheduled
    BY <2>2 DEF BlogRow, RowOK, Alive
  <2>4. RowOK(row)
    BY <2>3 DEF RowOK
  <2> QED BY <1>9, <2>1, <2>3, <2>4
<1>12. ASSUME NEW r \in Requests, WriteDraft(r) PROVE PostInv'
  <2> DEFINE old == post[call[r].post]
             row == [old EXCEPT !.status = "DRAFT", !.published = FALSE, !.scheduled = FALSE]
  <2>1. call[r].step \in BlogSteps /\ Write(r, row)
    BY <1>12 DEF WriteDraft, At, BlogSteps
  <2>2. old \in BlogRow /\ RowOK(old) /\ Alive(call[r].post)
    BY <1>0, <1>5, <2>1 DEF Write
  <2>3. /\ row \in BlogRow /\ row.slug = old.slug /\ row.slug \in Slugs
        /\ row.status = "DRAFT" /\ ~ row.published /\ ~ row.scheduled
    BY <2>2 DEF BlogRow, RowOK, Alive
  <2>4. RowOK(row)
    BY <2>3 DEF RowOK
  <2> QED BY <1>9, <2>1, <2>3, <2>4
<1>13. ASSUME NEW r \in Requests, CountView(r) PROVE PostInv'
  <2> DEFINE old == post[call[r].post]
             row == [old EXCEPT !.views = @ + 1]
  <2>1. call[r].step \in BlogSteps /\ Write(r, row) /\ old.views < MaxViews
    BY <1>13 DEF CountView, At, BlogSteps
  <2>2. old \in BlogRow /\ RowOK(old) /\ Alive(call[r].post)
    BY <1>0, <1>5, <2>1 DEF Write
  <2>3. old.views + 1 \in 0..MaxViews
    BY <2>1, <2>2, BlogAssumption DEF BlogRow
  <2>4. /\ row \in BlogRow /\ row.slug = old.slug /\ row.slug \in Slugs /\ row.status = old.status
        /\ row.published = old.published /\ row.scheduled = old.scheduled
    BY <2>2, <2>3 DEF BlogRow, RowOK, Alive
  <2>5. RowOK(row)
    BY <2>2, <2>4 DEF RowOK
  <2> QED BY <1>9, <2>1, <2>4, <2>5
<1>14. ASSUME NEW r \in Requests, RemovePost(r) PROVE PostInv'
  BY <1>4, <1>5, <1>14, PostRemoved DEF RemovePost, At, BlogSteps
<1>15. ASSUME NEW i \in Posts, DeleteBlog(i) PROVE PostInv'
  BY <1>0, <1>15, PostRemoved DEF DeleteBlog
<1>16. ASSUME NEW r \in Requests, BlogFails(r) PROVE PostInv'
  BY <1>1, <1>4, <1>16 DEF BlogFails
<1>17. CASE UNCHANGED blogVars
  BY <1>0, <1>1, <1>17 DEF blogVars
<1> QED BY <1>2, <1>3, <1>6, <1>7, <1>8, <1>10, <1>11, <1>12, <1>13, <1>14, <1>15, <1>16, <1>17
        DEF BlogNext, EditPost, PublishPost, SchedulePost, UnpublishPost, DeletePost, GetPost, BlogSteps

(* Posts keep their slugs, dates that fit their status, and no tags of      *)
(* posts that are gone, whatever handlers overlap.                          *)
THEOREM PostsAreWholeHolds == BlogSpec => []PostsAreWhole
<1>1. PostInv => PostsAreWhole
  BY DEF PostInv, PostsAreWhole, RowOK, TagsOf
<1> QED BY <1>1, PostInitOK, PostStep, PTL DEF BlogSpec
-----------------------------------------------------------------------------
(* MembershipService.  Tiers are numbers, so of some there is a highest.    *)
LEMMA TiersAreNumbers == Tiers \subseteq Nat /\ \A t \in Tiers : t # NoTier /\ MinPoints[t] \in Nat
<1>1. MinPoints \in Seq(Nat)
  BY MembershipAssumption
<1>2. Tiers = 1..Len(MinPoints) /\ Len(MinPoints) \in Nat
  BY <1>1, LenProperties DEF Tiers
<1>3. \A t \in Tiers : MinPoints[t] \in Nat
  BY <1>1, <1>2, ElementOfSeq
<1> QED BY <1>2, <1>3 DEF NoTier

LEMMA TierIsNumber == \A t \in Tiers \cup {NoTier} : t \in Nat
BY TiersAreNumbers DEF NoTier

LEMMA HighestTier ==
  ASSUME NEW S \in SUBSET Tiers, S # {}
  PROVE  \E t \in S : \A s \in S : s <= t
<1> DEFINE n == Len(MinPoints)
           T == {n - t : t \in S}
<1>1. n \in Nat /\ \A t \in S : t \in Nat /\ t <= n
  <2>1. MinPoints \in Seq(Nat)
    BY MembershipAssumption
  <2>2. Tiers = 1..n /\ n \in Nat
    BY <2>1, LenProperties DEF Tiers
  <2> QED BY <2>2
<1> HIDE DEF n
<1>2. T \subseteq Nat /\ T # {}
  BY <1>1
<1>3. PICK x \in T : \A y \in T : ~ (<<y, x>> \in OpToRel(<, Nat))
  BY <1>2, NatLessThanWellFounded, WFMin
<1>4. \A y \in T : ~ (y < x)
  BY <1>2, <1>3 DEF OpToRel
<1>5. PICK t \in S : x = n - t
  OBVIOUS
<1>6. ASSUME NEW s \in S PROVE s <= t
  <2>1. n - s \in T
    OBVIOUS
  <2>2. ~ (n - s < n - t)
    BY <1>4, <1>5, <2>1
  <2> QED BY <1>1, <2>2
<1> QED BY <1>6

(* The tier of a number of points is the highest that it reaches.           *)
LEMMA EarnedIsHighest ==
  ASSUME NEW p \in Nat
  PROVE  /\ Earned(p) \in Tiers \cup {NoTier}
         /\ Earned(p) \in Nat
         /\ Earned(p) # NoTier => MinPoints[Earned(p)] <= p
         /\ \A s \in Tiers : MinPoints[s] <= p => s <= Earned(p) /\ Earned(p) \in Tiers
<1> DEFINE reached == {t \in Tiers : MinPoints[t] <= p}
<1>1. CASE reached = {}
  <2>1. Earned(p) = NoTier
    BY <1>1 DEF Earned
  <2> QED BY <1>1, <2>1 DEF NoTier
<1>2. CASE reached # {}
  <2>1. Earned(p) = CHOOSE t \in reached : \A s \in reached : s <= t
    BY <1>2 DEF Earned
  <2>2. \E t \in reached : \A s \in reached : s <= t
    <3>1. reached \in SUBSET Tiers
      OBVIOUS
    <3> HIDE DEF reached
    <3> QED BY <1>2, <3>1, HighestTier
  <2> HIDE DEF reached
  <2>3. Earned(p) \in reached /\ \A s \in reached : s <= Earned(p)
    BY <2>1, <2>2
  <2> QED BY <2>3, TiersAreNumbers DEF reached
<1> QED BY <1>1, <1>2

LEMMA EarnedGrows ==
  ASSUME NEW p \in Nat, NEW q \in Nat, p <= q
  PROVE  Earned(p) <= Earned(q)
<1>1. CASE Earned(p) = NoTier
  BY <1>1, EarnedIsHighest DEF NoTier
<1>2. CASE Earned(p) # NoTier
  <2>1. Earned(p) \in Tiers /\ MinPoints[Earned(p)] <= p
    BY <1>2, EarnedIsHighest
  <2>2. \A m, a, b \in Nat : m <= a /\ a <= b => m <= b
    OBVIOUS
  <2>3. MinPoints[Earned(p)] \in Nat
    BY <2>1, TiersAreNumbers, Zenon
  <2>4. MinPoints[Earned(p)] <= q
    BY <2>1, <2>2, <2>3, Zenon
  <2> QED BY <2>1, <2>4, EarnedIsHighest, Zenon
<1> QED BY <1>1, <1>2

(* What the awards in flight know: the one that has the row of the member   *)
(* is alone with it and adds to the balance as it is; a notification tells  *)
(* of a tier that has been given.                                           *)
AwardKnows(r) ==
  LET c == call[r] IN
  /\ c.step = "tier" => /\ c.seen = balance[c.user] + c.points
                        /\ \A q \in Requests : call[q].step = "tier" /\ call[q].user = c.user
                                                 => q = r
  /\ c.step = "notify" => c.to <= tier[c.user]

TierInv ==
  /\ MembershipTypeOK /\ TierIsEarned
  /\ \A r \in Requests : AwardKnows(r)

(* The handlers after a step that changes none of the rows.                 *)
LEMMA AwardMoves ==
  ASSUME TierInv, NEW r \in Requests, NEW c \in MemberCalls,
         UNCHANGED <<pointed, member, balance, tier, told>>,
         call' = [call EXCEPT ![r] = c],
         c.step # "notify",
         c.step = "tier" => /\ c.seen = balance[c.user] + c.points
                            /\ \A q \in Requests : call[q].step = "tier" => call[q].user # c.user
  PROVE  TierInv'
<1>1. call \in [Requests -> MemberCalls]
  BY DEF TierInv, MembershipTypeOK
<1>2. MembershipTypeOK' /\ TierIsEarned'
  BY <1>1 DEF TierInv, MembershipTypeOK, TierIsEarned
<1>3. call'[r] = c /\ \A q \in Requests \ {r} : call'[q] = call[q]
  BY <1>1
<1>4. ASSUME NEW q \in Requests PROVE AwardKnows(q)'
  <2>1. AwardKnows(q)
    BY DEF TierInv
  <2>2. CASE q = r
    BY <1>3, <2>2 DEF AwardKnows
  <2>3. CASE q # r
    BY <1>3, <2>1, <2>3 DEF AwardKnows
  <2> QED BY <2>2, <2>3
<1> QED BY <1>2, <1>4 DEF TierInv

LEMMA TierInit == MembershipInit => TierInv
<1> SUFFICES ASSUME MembershipInit PROVE TierInv
  OBVIOUS
<1>1. idle \in MemberCalls /\ idle.step = "idle"
  BY DEF MemberCalls, idle
<1>2. MembershipTypeOK
  BY <1>1 DEF MembershipInit, MembershipTypeOK
<1>4. TierIsEarned
  BY DEF MembershipInit, TierIsEarned
<1>5. \A r \in Requests : AwardKnows(r)
  BY <1>1 DEF MembershipInit, AwardKnows
<1> QED BY <1>2, <1>4, <1>5 DEF TierInv

LEMMA TierStep == TierInv /\ [MembershipNext]_memberVars => TierInv'
<1> SUFFICES ASSUME TierInv, [MembershipNext]_memberVars PROVE TierInv'
  OBVIOUS
<1>a. /\ call \in [Requests -> MemberCalls] /\ idle \in MemberCalls
      /\ idle.step = "idle"
  BY DEF TierInv, MembershipTypeOK, MemberCalls, idle
<1>b. Awards \subseteq Nat
  BY MembershipAssumption
<1>1. ASSUME NEW r \in Requests, NEW u \in Members, NEW points \in Awards, Award(r, u, points)
      PROVE  TierInv'
  <2> DEFINE c == [step |-> "find", user |-> u, points |-> points, found |-> FALSE]
  <2>1. c \in MemberCalls /\ c.step = "find"
    BY DEF MemberCalls
  <2>2. call' = [call EXCEPT ![r] = c] /\ UNCHANGED <<pointed, member, balance, tier, told>>
    BY <1>1 DEF Award, Start
  <2> HIDE DEF c
  <2> QED BY <2>1, <2>2, AwardMoves
<1>2. ASSUME NEW r \in Requests, FindPoints(r) PROVE TierInv'
  <2> DEFINE f == (call[r].user \in member)
             c == [call[r] EXCEPT !.step = "add", !.found = f]
  <2>1. call' = [call EXCEPT ![r] = c] /\ UNCHANGED <<pointed, member, balance, tier, told>>
        /\ call[r].step = "find"
    BY <1>2 DEF FindPoints, Become, At
  <2>2. f \in BOOLEAN
    OBVIOUS
  <2> HIDE DEF f
  <2>3. c \in MemberCalls /\ c.step = "add"
    BY <1>a, <2>1, <2>2 DEF MemberCalls, idle
  <2> HIDE DEF c
  <2> QED BY <2>1, <2>3, AwardMoves
<1>3. ASSUME NEW r \in Requests, AddPoints(r) PROVE TierInv'
  <2> DEFINE u == call[r].user
             c == [step |-> "tier", user |-> u, points |-> call[r].points,
                   seen |-> balance[u] + call[r].points]
  <2>1. call[r].step = "add" /\ ~ Locked(u) /\ call' = [call EXCEPT ![r] = c]
        /\ UNCHANGED <<pointed, member, balance, tier, told>>
    BY <1>3 DEF AddPoints, Become, At
  <2>2. u \in Members /\ call[r].points \in Awards
    BY <1>a, <2>1 DEF MemberCalls, idle
  <2>3. balance[u] + call[r].points \in Nat
    <3>1. balance[u] \in Nat /\ call[r].points \in Nat
      BY <1>b, <2>2 DEF TierInv, MembershipTypeOK
    <3> QED BY <3>1
  <2>4. c \in MemberCalls
    BY <2>2, <2>3 DEF MemberCalls
  <2>5. c.step = "tier" /\ c.user = u /\ c.seen = balance[c.user] + c.points
    OBVIOUS
  <2>6. \A q \in Requests : call[q].step = "tier" => call[q].user # u
    BY <2>1 DEF Locked, At
  <2> HIDE DEF c, u
  <2> QED BY <2>1, <2>4, <2>5, <2>6, AwardMoves
<1>4. ASSUME NEW r \in Requests, AwardFails(r) PROVE TierInv'
  BY <1>4, <1>a, AwardMoves DEF AwardFails, Finish
<1>5. ASSUME NEW r \in Requests, Notify(r) PROVE TierInv'
  <2> DEFINE u == call[r].user
             t == call[r].to
  <2>1. /\ call[r].step = "notify" /\ told' = [told EXCEPT ![u] = @ \cup {t}]
        /\ call' = [call EXCEPT ![r] = idle] /\ UNCHANGED <<pointed, member, balance, tier>>
    BY <1>5 DEF Notify, At, Finish
  <2>2. u \in Members /\ t \in Tiers /\ t <= tier[u]
    BY <1>a, <2>1 DEF MemberCalls, idle, TierInv, AwardKnows
  <2> HIDE DEF u, t
  <2>3. MembershipTypeOK' /\ TierIsEarned'
    BY <1>a, <2>1, <2>2 DEF TierInv, MembershipTypeOK, TierIsEarned
  <2>4. ASSUME NEW q \in Requests PROVE AwardKnows(q)'
    <3>1. AwardKnows(q)
      BY DEF TierInv
    <3>2. call'[r] = idle /\ \A p \in Requests : p # r => call'[p] = call[p]
      BY <1>a, <2>1
    <3> QED BY <1>a, <2>1, <3>1, <3>2 DEF AwardKnows
  <2> QED BY <2>3, <2>4 DEF TierInv
<1>6. ASSUME NEW r \in Requests, SetTier(r) PROVE TierInv'
  <2> DEFINE u == call[r].user
             next == Earned(call[r].seen)
             c == IF next \in {NoTier, tier[u]} THEN idle
                  ELSE [step |-> "notify", user |-> u, to |-> next]
  <2>1. /\ call[r].step = "tier"
        /\ pointed' = [pointed EXCEPT ![u] = @ + call[r].points]
        /\ member' = member \cup {u}
        /\ balance' = [balance EXCEPT ![u] = call[r].seen]
        /\ tier' = IF next = NoTier THEN tier ELSE [tier EXCEPT ![u] = next]
        /\ call' = [call EXCEPT ![r] = c]
        /\ UNCHANGED told
    BY <1>6 DEF SetTier, At, Finish, Become
  <2>2. u \in Members /\ call[r].points \in Nat /\ call[r].seen \in Nat
    BY <1>a, <1>b, <2>1 DEF MemberCalls, idle
  <2>3. /\ call[r].seen = balance[u] + call[r].points
        /\ \A q \in Requests : call[q].step = "tier" /\ call[q].user = u => q = r
    BY <2>1 DEF TierInv, AwardKnows
  <2>4. /\ pointed \in [Members -> Nat] /\ balance \in [Members -> Nat]
        /\ tier \in [Members -> Tiers \cup {NoTier}] /\ told \in [Members -> SUBSET Tiers]
        /\ member \in SUBSET Members
    BY DEF TierInv, MembershipTypeOK
  <2>5. next \in Tiers \cup {NoTier} /\ next \in Nat
    BY <2>2, EarnedIsHighest
  <2>6. tier[u] <= next
    <3>1. Earned(balance[u]) <= next
      BY <2>2, <2>3, <2>4, EarnedGrows
    <3>2. tier[u] = Earned(balance[u]) \/ tier[u] = 0
      BY <2>2 DEF TierInv, TierIsEarned, NoTier
    <3> QED BY <2>5, <3>1, <3>2
  <2>7. tier' = [tier EXCEPT ![u] = next]
    <3>1. CASE next = NoTier
      <4>1. tier[u] = next
        <5>1. tier[u] \in Nat
          BY <2>2, <2>4, TierIsNumber, Zenon
        <5> QED BY <2>6, <3>1, <5>1 DEF NoTier
      <4> QED BY <2>1, <2>4, <3>1, <4>1
    <3> QED BY <2>1, <3>1
  <2>8. c \in MemberCalls /\ c.step \in {"idle", "notify"}
        /\ (c.step = "notify" => c.user = u /\ c.to = next)
    <3>1. idle \in MemberCalls /\ idle.step = "idle"
      BY <1>a
    <3>2. next # NoTier => [step |-> "notify", user |-> u, to |-> next] \in MemberCalls
      BY <2>2, <2>5 DEF MemberCalls
    <3> HIDE DEF next, u
    <3> QED BY <3>1, <3>2
  <2> HIDE DEF c
  <2>9. TierIsEarned'
    <3> SUFFICES ASSUME NEW m \in Members
                 PROVE  /\ balance'[m] = pointed'[m]
                        /\ tier'[m] = IF m \in member' THEN Earned(balance'[m]) ELSE NoTier
                        /\ \A t \in told'[m] : t <= tier'[m]
      BY DEF TierIsEarned
    <3>1. /\ balance[m] = pointed[m]
          /\ tier[m] = IF m \in member THEN Earned(balance[m]) ELSE NoTier
          /\ \A t \in told[m] : t <= tier[m]
      BY DEF TierInv, TierIsEarned
    <3>2. CASE m # u
      <4>1. balance'[m] = balance[m] /\ pointed'[m] = pointed[m] /\ tier'[m] = tier[m]
            /\ told'[m] = told[m] /\ (m \in member' <=> m \in member)
        BY <2>1, <2>4, <2>7, <3>2
      <4> QED BY <3>1, <4>1
    <3>3. CASE m = u
      <4>1. /\ balance'[u] = call[r].seen /\ pointed'[u] = pointed[u] + call[r].points
            /\ tier'[u] = next /\ u \in member' /\ told'[u] = told[u]
        BY <2>1, <2>2, <2>4, <2>7
      <4>2. balance'[u] = pointed'[u]
        BY <2>3, <3>1, <3>3, <4>1
      <4>3. \A t \in told[u] : t \in Nat /\ t <= next
        <5>1. \A t \in told[u] : t \in Nat /\ t <= tier[u]
          BY <2>2, <2>4, <3>1, <3>3, TiersAreNumbers
        <5>2. tier[u] \in Nat
          BY <2>2, <2>4, TierIsNumber, Zenon
        <5> HIDE DEF next
        <5> QED BY <2>5, <2>6, <5>1, <5>2
      <4> QED BY <3>3, <4>1, <4>2, <4>3
    <3> QED BY <3>2, <3>3
  <2> HIDE DEF next, u
  <2>10. MembershipTypeOK'
    BY <1>a, <2>1, <2>2, <2>3, <2>4, <2>5, <2>7, <2>8 DEF MembershipTypeOK
  <2>11. ASSUME NEW q \in Requests PROVE AwardKnows(q)'
    <3>1. call'[r] = c /\ \A p \in Requests : p # r => call'[p] = call[p]
      BY <1>a, <2>1
    <3>2. CASE q = r
      <4>1. c.step = "notify" => c.user = u /\ c.to <= tier'[u]
        BY <2>2, <2>4, <2>5, <2>7, <2>8
      <4> QED BY <2>8, <3>1, <3>2, <4>1 DEF AwardKnows
    <3>3. CASE q # r
      <4> DEFINE d == call[q]
      <4>1. AwardKnows(q) /\ call'[q] = d
        BY <3>1, <3>3 DEF TierInv
      <4>2. d.step = "tier" => d.user # u /\ d.user \in Members
        BY <1>a, <2>3, <3>3 DEF MemberCalls, idle
      <4>3. d.step = "notify" => d.user \in Members /\ d.to \in Nat
        BY <1>a, TiersAreNumbers DEF MemberCalls, idle
      <4>4. \A m \in Members : tier[m] \in Nat /\ tier'[m] \in Nat /\ tier[m] <= tier'[m]
        <5>1. \A m \in Members : tier[m] \in Nat
          BY <2>4, TierIsNumber, Zenon
        <5>2. \A m \in Members : tier'[m] = IF m = u THEN next ELSE tier[m]
          BY <2>4, <2>7
        <5> QED BY <2>5, <2>6, <5>1, <5>2
      <4>5. \A m \in Members : m # u => balance'[m] = balance[m]
        BY <2>1, <2>4
      <4>6. d.step = "notify" => d.to <= tier'[d.user]
        BY <4>1, <4>3, <4>4 DEF AwardKnows
      <4>7. d.step = "tier" => d.seen = balance'[d.user] + d.points
        BY <4>1, <4>2, <4>5 DEF AwardKnows
      <4>8. ASSUME d.step = "tier", NEW p \in Requests, call'[p].step = "tier",
                   call'[p].user = d.user
            PROVE  p = q
        <5>1. p # r
          BY <2>8, <3>1, <4>8
        <5> QED BY <3>1, <4>1, <4>8, <5>1 DEF AwardKnows
      <4> QED BY <4>1, <4>6, <4>7, <4>8 DEF AwardKnows
    <3> QED BY <3>2, <3>3
  <2> QED BY <2>9, <2>10, <2>11 DEF TierInv
<1>7. CASE UNCHANGED memberVars
  <2>1. MembershipTypeOK' /\ TierIsEarned'
    BY <1>7 DEF memberVars, TierInv, MembershipTypeOK, TierIsEarned
  <2>2. \A r \in Requests : AwardKnows(r)'
    BY <1>7 DEF memberVars, TierInv, AwardKnows
  <2> QED BY <2>1, <2>2 DEF TierInv
<1> QED BY <1>1, <1>2, <1>3, <1>4, <1>5, <1>6, <1>7 DEF MembershipNext

(* The balance of a member is the sum of his points and his tier the one    *)
(* that it earns, for every table of tiers.                                 *)
THEOREM TierIsEarnedHolds == MembershipSpec => []TierIsEarned
<1>1. TierInv => TierIsEarned
  BY DEF TierInv
<1> QED BY TierInit, TierStep, <1>1, PTL DEF MembershipSpec
-----------------------------------------------------------------------------
(* MailQueue.  A mail leaves once while it is with a worker, and again only *)
(* after that worker has died.                                              *)
LeftOnce(row, n) ==
  /\ n <= row.stalled + (IF row.state \in {"sent", "completed"} THEN 1 ELSE 0)
  /\ row.state \in {"sent", "completed"} => n >= 1

MailInv == MailTypeOK /\ \A j \in Mails : LeftOnce(mail[j], sent[j])

MailStates == {"none", "waiting", "active", "sent", "delayed", "completed", "failed"}

LEMMA MailInvInit == MailInit => MailInv
<1> SUFFICES ASSUME MailInit PROVE MailInv
  OBVIOUS
<1>1. NoMail \in MailRow /\ NoMail.stalled = 0 /\ NoMail.state = "none"
  BY DEF NoMail, MailRow
<1>2. MailTypeOK
  BY <1>1 DEF MailInit, MailTypeOK
<1>3. \A j \in Mails : LeftOnce(mail[j], sent[j])
  BY <1>1 DEF MailInit, LeftOnce
<1> QED BY <1>2, <1>3 DEF MailInv

(* A step that gives one mail a new row, and may send it.                   *)
LEMMA MailMoves ==
  ASSUME MailInv, NEW j \in Mails, NEW row \in MailRow, NEW n \in Nat,
         mail' = [mail EXCEPT ![j] = row], sent' = [sent EXCEPT ![j] = n],
         LeftOnce(row, n),
         backed' \in [Mails -> {"yes", "open", "no"}],
         call' \in [Requests -> {idle} \cup [step : {"commit"}, mail : Mails]]
  PROVE  MailInv'
<1>1. mail \in [Mails -> MailRow] /\ sent \in [Mails -> Nat]
      /\ \A k \in Mails : LeftOnce(mail[k], sent[k])
  BY DEF MailInv, MailTypeOK
<1>2. mail' \in [Mails -> MailRow] /\ sent' \in [Mails -> Nat]
  BY <1>1
<1>3. ASSUME NEW k \in Mails PROVE LeftOnce(mail'[k], sent'[k])
  <2>1. CASE k = j
    <3>1. mail'[k] = row /\ sent'[k] = n
      BY <1>1, <2>1
    <3> QED BY <3>1
  <2>2. CASE k # j
    <3>1. mail'[k] = mail[k] /\ sent'[k] = sent[k]
      BY <1>1, <2>2
    <3> QED BY <1>1, <3>1
  <2> QED BY <2>1, <2>2
<1> QED BY <1>2, <1>3 DEF MailInv, MailTypeOK

LEMMA MailInvStep == MailInv /\ [MailNext]_mailVars => MailInv'
<1> SUFFICES ASSUME MailInv, [MailNext]_mailVars PROVE MailInv'
  OBVIOUS
<1>a. /\ mail \in [Mails -> MailRow] /\ sent \in [Mails -> Nat]
      /\ backed \in [Mails -> {"yes", "open", "no"}]
      /\ call \in [Requests -> {idle} \cup [step : {"commit"}, mail : Mails]]
      /\ \A j \in Mails : LeftOnce(mail[j], sent[j])
  BY DEF MailInv, MailTypeOK
<1>b. Attempts \in [MailJobs -> Nat \ {0}] /\ MaxStalled \in Nat
  BY MailAssumption
<1>1. ASSUME NEW j \in Mails, NEW name \in MailJobs, Enqueue(j, name), UNCHANGED sent,
             backed' \in [Mails -> {"yes", "open", "no"}],
             call' \in [Requests -> {idle} \cup [step : {"commit"}, mail : Mails]]
      PROVE  MailInv'
  <2> DEFINE row == [NoMail EXCEPT !.name = name, !.state = "waiting"]
  <2>1. mail[j] = NoMail /\ mail' = [mail EXCEPT ![j] = row]
    BY <1>1 DEF Enqueue
  <2>2. NoMail \in MailRow /\ NoMail.stalled = 0 /\ NoMail.state = "none"
    BY DEF NoMail, MailRow
  <2>3. row \in MailRow /\ row.stalled = 0 /\ row.state = "waiting"
    BY <2>2 DEF MailRow
  <2> HIDE DEF row
  <2>4. sent[j] <= 0 /\ sent[j] \in Nat
    <3>1. LeftOnce(NoMail, sent[j])
      BY <1>a, <2>1
    <3> QED BY <1>a, <2>2, <3>1 DEF LeftOnce
  <2>5. LeftOnce(row, sent[j])
    BY <2>3, <2>4 DEF LeftOnce
  <2>6. sent' = [sent EXCEPT ![j] = sent[j]]
    BY <1>1, <1>a
  <2> QED BY <1>1, <2>1, <2>3, <2>4, <2>5, <2>6, MailMoves
<1>2. ASSUME NEW j \in Mails, NEW row \in MailRow, SetMail(j, row), LeftOnce(row, sent[j])
      PROVE  MailInv'
  <2>1. mail' = [mail EXCEPT ![j] = row] /\ UNCHANGED <<sent, backed, call>>
    BY <1>2 DEF SetMail
  <2>2. sent' = [sent EXCEPT ![j] = sent[j]] /\ sent[j] \in Nat
    BY <1>a, <2>1
  <2> QED BY <1>2, <1>a, <2>1, <2>2, MailMoves
<1>3. ASSUME NEW j \in Mails, NEW name \in MailJobs, MailOtp(j, name) PROVE MailInv'
  BY <1>1, <1>3, <1>a DEF MailOtp
<1>4. ASSUME NEW j \in Mails, MailContact(j) PROVE MailInv'
  <2>1. backed' \in [Mails -> {"yes", "open", "no"}]
    BY <1>4, <1>a DEF MailContact
  <2> QED BY <1>1, <1>4, <1>a, <2>1 DEF MailContact, MailJobs
<1>5. ASSUME NEW r \in Requests, NEW j \in Mails, MailLateRefund(r, j) PROVE MailInv'
  <2>1. backed' \in [Mails -> {"yes", "open", "no"}]
    BY <1>5, <1>a DEF MailLateRefund
  <2>2. call' \in [Requests -> {idle} \cup [step : {"commit"}, mail : Mails]]
    BY <1>5, <1>a DEF MailLateRefund, Start
  <2> QED BY <1>1, <1>5, <2>1, <2>2 DEF MailLateRefund, MailJobs
<1>6. ASSUME NEW r \in Requests, EndRefund(r) PROVE MailInv'
  <2>1. backed' \in [Mails -> {"yes", "open", "no"}]
    BY <1>6, <1>a DEF EndRefund
  <2>2. call' \in [Requests -> {idle} \cup [step : {"commit"}, mail : Mails]]
    BY <1>6, <1>a DEF EndRefund, Finish
  <2> QED BY <1>6, <1>a, <2>1, <2>2 DEF EndRefund, MailInv, MailTypeOK
<1>7. ASSUME NEW j \in Mails, TakeMail(j) PROVE MailInv'
  <2> DEFINE row == [mail[j] EXCEPT !.state = "active"]
  <2>1. SetMail(j, row) /\ mail[j].state = "waiting"
    BY <1>7 DEF TakeMail
  <2>2. row \in MailRow /\ row.state = "active" /\ row.stalled = mail[j].stalled
    BY <1>a DEF MailRow
  <2> HIDE DEF row
  <2>3. LeftOnce(row, sent[j])
    BY <1>a, <2>1, <2>2 DEF LeftOnce
  <2> QED BY <1>2, <2>1, <2>2, <2>3
<1>8. ASSUME NEW j \in Mails, SendMail(j) PROVE MailInv'
  <2> DEFINE row == [mail[j] EXCEPT !.state = "sent"]
             n == sent[j] + 1
  <2>1. mail[j].state = "active" /\ mail' = [mail EXCEPT ![j] = row]
        /\ sent' = [sent EXCEPT ![j] = n] /\ UNCHANGED <<backed, call>>
    BY <1>8, <1>a DEF SendMail
  <2>2. row \in MailRow /\ row.state = "sent" /\ row.stalled = mail[j].stalled
        /\ row.stalled \in Nat
    BY <1>a DEF MailRow
  <2> HIDE DEF row
  <2>3. n \in Nat /\ LeftOnce(row, n)
    BY <1>a, <2>1, <2>2 DEF LeftOnce
  <2> HIDE DEF n
  <2> QED BY <1>a, <2>1, <2>2, <2>3, MailMoves
<1>9. ASSUME NEW j \in Mails, CompleteMail(j) PROVE MailInv'
  <2> DEFINE row == [mail[j] EXCEPT !.state = "completed"]
  <2>1. SetMail(j, row) /\ mail[j].state = "sent"
    BY <1>9 DEF CompleteMail
  <2>2. row \in MailRow /\ row.state = "completed" /\ row.stalled = mail[j].stalled
    BY <1>a DEF MailRow
  <2> HIDE DEF row
  <2>3. LeftOnce(row, sent[j])
    BY <1>a, <2>1, <2>2 DEF LeftOnce
  <2> QED BY <1>2, <2>1, <2>2, <2>3
<1>10. ASSUME NEW j \in Mails, SmtpFails(j) PROVE MailInv'
  <2> DEFINE made == mail[j].made + 1
             st == IF made < Attempts[mail[j].name] THEN "delayed" ELSE "failed"
             row == [mail[j] EXCEPT !.made = made, !.state = st]
  <2>1. SetMail(j, row) /\ mail[j].state = "active"
    BY <1>10 DEF SmtpFails
  <2>2. made \in Nat /\ st \in {"delayed", "failed"}
    BY <1>a DEF MailRow
  <2> HIDE DEF made, st
  <2>a. mail[j] \in MailRow /\ st \in MailStates
    BY <1>a, <2>2 DEF MailStates
  <2> DEFINE one == [mail[j] EXCEPT !.made = made]
  <2>b. one \in MailRow /\ one.stalled = mail[j].stalled
    BY <2>2, <2>a DEF MailRow
  <2>c. row = [one EXCEPT !.state = st]
    OBVIOUS
  <2> HIDE DEF row, one
  <2>3. row \in MailRow /\ row.state = st /\ row.stalled = mail[j].stalled
    BY <2>a, <2>b, <2>c DEF MailRow, MailStates
  <2> HIDE DEF row
  <2>4. LeftOnce(row, sent[j])
    <3>1. row.state \notin {"sent", "completed"} /\ row.stalled = mail[j].stalled
      BY <2>2, <2>3
    <3>2. sent[j] <= mail[j].stalled + 0
      BY <1>a, <2>1 DEF LeftOnce
    <3> QED BY <3>1, <3>2 DEF LeftOnce
  <2> QED BY <1>2, <2>1, <2>3, <2>4
<1>11. ASSUME NEW j \in Mails, BackoffEnds(j) PROVE MailInv'
  <2> DEFINE row == [mail[j] EXCEPT !.state = "waiting"]
  <2>1. SetMail(j, row) /\ mail[j].state = "delayed"
    BY <1>11 DEF BackoffEnds
  <2>2. row \in MailRow /\ row.state = "waiting" /\ row.stalled = mail[j].stalled
    BY <1>a DEF MailRow
  <2> HIDE DEF row
  <2>3. LeftOnce(row, sent[j])
    BY <1>a, <2>1, <2>2 DEF LeftOnce
  <2> QED BY <1>2, <2>1, <2>2, <2>3
<1>12. ASSUME NEW j \in Mails, MailWorkerDies(j) PROVE MailInv'
  <2> DEFINE more == mail[j].stalled + 1
             st == IF mail[j].stalled < MaxStalled THEN "waiting" ELSE "failed"
             row == [mail[j] EXCEPT !.stalled = more, !.state = st]
  <2>1. SetMail(j, row) /\ mail[j].state \in {"active", "sent"}
    BY <1>12 DEF MailWorkerDies
  <2>2. more \in Nat /\ mail[j].stalled \in Nat /\ sent[j] \in Nat /\ more = mail[j].stalled + 1
        /\ st \in {"waiting", "failed"}
    BY <1>a DEF MailRow
  <2> HIDE DEF more, st
  <2>a. mail[j] \in MailRow /\ st \in MailStates
    BY <1>a, <2>2 DEF MailStates
  <2> DEFINE one == [mail[j] EXCEPT !.stalled = more]
  <2>b. one \in MailRow /\ one.stalled = more
    BY <2>2, <2>a DEF MailRow
  <2>c. row = [one EXCEPT !.state = st]
    OBVIOUS
  <2> HIDE DEF row, one
  <2>3. row \in MailRow /\ row.state = st /\ row.stalled = more
    BY <2>a, <2>b, <2>c DEF MailRow, MailStates
  <2> HIDE DEF row
  <2>4. LeftOnce(row, sent[j])
    <3>1. row.state \notin {"sent", "completed"} /\ row.stalled = mail[j].stalled + 1
      BY <2>2, <2>3
    <3>2. sent[j] <= mail[j].stalled + 1
      BY <1>a, <2>2 DEF LeftOnce
    <3> QED BY <2>2, <3>1, <3>2 DEF LeftOnce
  <2> QED BY <1>2, <2>1, <2>3, <2>4
<1>13. CASE UNCHANGED mailVars
  BY <1>13 DEF mailVars, MailInv, MailTypeOK
<1> QED BY <1>3, <1>4, <1>5, <1>6, <1>7, <1>8, <1>9, <1>10, <1>11, <1>12, <1>13
        DEF MailNext, Deliver

(* A mail that is delivered has left, and not again unless a worker died.   *)
THEOREM DeliveredMailLeftHolds == MailSpec => []DeliveredMailLeft
<1>1. MailInv => DeliveredMailLeft
  <2> SUFFICES ASSUME MailInv, NEW j \in Mails, mail[j].state = "completed"
               PROVE  sent[j] \in 1..(1 + mail[j].stalled)
    BY DEF DeliveredMailLeft
  <2>1. LeftOnce(mail[j], sent[j]) /\ sent[j] \in Nat /\ mail[j].stalled \in Nat
    BY DEF MailInv, MailTypeOK, MailRow
  <2> QED BY <2>1 DEF LeftOnce
<1> QED BY MailInvInit, MailInvStep, <1>1, PTL DEF MailSpec
-----------------------------------------------------------------------------
(* The types of the services whose invariants above leave some of them out. *)
VoiceTypes == VoiceInv /\ completed \in SUBSET Reviewers

LEMMA VoiceTypesInit == ReviewInit => VoiceTypes
<1>1. ReviewInit => completed \in SUBSET Reviewers
  BY DEF ReviewInit
<1> QED BY <1>1, VoiceInitOK DEF VoiceTypes

LEMMA VoiceTypesStep == VoiceTypes /\ [ReviewNext]_reviewVars => VoiceTypes'
<1> SUFFICES ASSUME VoiceTypes, [ReviewNext]_reviewVars PROVE VoiceTypes'
  OBVIOUS
<1>1. VoiceInv'
  BY VoiceStep DEF VoiceTypes
<1>2. completed' = completed
  BY DEF ReviewNext, reviewVars, CreateReview, Upvote, CheckExisting, LookForVote, WriteVote,
         ReviewFails, WriteReview
<1> QED BY <1>1, <1>2 DEF VoiceTypes

LEMMA VoiceTypesOK == VoiceTypes => ReviewTypeOK
<1> SUFFICES ASSUME VoiceTypes PROVE ReviewTypeOK
  OBVIOUS
<1>1. ASSUME NEW i \in Reviews PROVE helpful[i] \in 0..Cardinality(Reviewers)
  <2>1. Voters(i) \subseteq Reviewers /\ IsFiniteSet(Reviewers)
    BY ReviewAssumption DEF Voters
  <2>2. helpful[i] = Cardinality(Voters(i))
    BY DEF VoiceTypes, VoiceInv, VotesAreCounted
  <2>3. Cardinality(Voters(i)) <= Cardinality(Reviewers) /\ IsFiniteSet(Voters(i))
    BY <2>1, FS_Subset
  <2>4. Cardinality(Voters(i)) \in Nat /\ Cardinality(Reviewers) \in Nat
    BY <2>1, <2>3, FS_CardinalityType
  <2> QED BY <2>2, <2>3, <2>4
<1>2. helpful = [i \in Reviews |-> helpful[i]]
  BY DEF VoiceTypes, VoiceInv
<1>3. helpful \in [Reviews -> 0..Cardinality(Reviewers)]
  BY <1>1, <1>2
<1> QED BY <1>3 DEF VoiceTypes, VoiceInv, ReviewTypeOK

CacheTypes ==
  /\ StaleInv /\ codes \in SUBSET Codes /\ edits \in 0..MaxEdits /\ tainted \in SUBSET Roles
  /\ \A role \in Roles : cached[role] = {} \/ \E list : cached[role] = {list}

LEMMA CacheTypesInit == CacheInit => CacheTypes
<1> SUFFICES ASSUME CacheInit PROVE CacheTypes
  OBVIOUS
<1>1. 0 \in 0..MaxEdits
  BY CacheAssumption
<1> QED BY <1>1, StaleInitOK DEF CacheInit, CacheTypes, Codes

LEMMA CacheTypesStep == CacheTypes /\ [CacheNext]_cacheVars => CacheTypes'
<1> SUFFICES ASSUME CacheTypes, [CacheNext]_cacheVars PROVE CacheTypes'
  OBVIOUS
<1>1. StaleInv' /\ codes' \in SUBSET Codes
  BY StaleStep, CodesStep DEF CacheTypes
<1>2. MaxEdits \in Nat /\ edits \in 0..MaxEdits /\ cached \in [Roles -> SUBSET SUBSET Codes]
  BY CacheAssumption DEF CacheTypes, StaleInv
<1>3. edits' \in 0..MaxEdits
  <2>1. edits' = edits \/ (edits < MaxEdits /\ edits' = edits + 1)
    BY DEF CacheNext, cacheVars, cacheRows, CanActivate, QueryPermissions, StorePermissions,
           EntryExpires, RemovePermission, CreatePermission, SeedDefaults, GrantAdmin,
           GrantStaff, ForgetRole, CutOff
  <2> QED BY <1>2, <2>1
<1>4. ASSUME NEW r \in Requests
      PROVE  /\ At(r, "store") => call[r].role \in Roles
             /\ At(r, "invalidate") => ToForget(r) \subseteq Roles
  <2>1. call[r] \in CacheCalls
    BY DEF CacheTypes, StaleInv
  <2>2. At(r, "store") => call[r].role \in Roles
    BY <2>1 DEF CacheCalls, At, idle
  <2>3. At(r, "invalidate") => call[r].roles \in Seq(Roles)
    BY <2>1 DEF CacheCalls, At, idle
  <2>4. \A s \in Seq(Roles) : \A i \in DOMAIN s : s[i] \in Roles
    BY ElementOfSeq, LenProperties
  <2> QED BY <2>2, <2>3, <2>4, Zenon DEF ToForget
<1>5. tainted' \in SUBSET Roles
  <2>1. \/ tainted' \subseteq tainted
        \/ \E r \in Requests : StorePermissions(r) \/ CutOff(r)
    BY DEF CacheNext, cacheVars, cacheRows, CanActivate, QueryPermissions, EntryExpires,
           RemovePermission, CreatePermission, SeedDefaults, GrantAdmin, GrantStaff, ForgetRole
  <2>2. ASSUME NEW r \in Requests, StorePermissions(r) PROVE tainted' \in SUBSET Roles
    BY <1>4, <2>2 DEF StorePermissions, CacheTypes
  <2>3. ASSUME NEW r \in Requests, CutOff(r) PROVE tainted' \in SUBSET Roles
    BY <1>4, <2>3, ThreeRoles DEF CutOff, CacheTypes, At
  <2> QED BY <2>1, <2>2, <2>3 DEF CacheTypes
<1>6. ASSUME NEW role \in Roles
      PROVE  cached'[role] = {} \/ \E list : cached'[role] = {list}
  <2>1. \/ cached' = cached
        \/ \E one \in Roles : cached' = [cached EXCEPT ![one] = {}]
        \/ \E r \in Requests : StorePermissions(r) \/ ForgetRole(r)
    BY DEF CacheNext, cacheVars, cacheRows, CanActivate, QueryPermissions, EntryExpires,
           RemovePermission, CreatePermission, SeedDefaults, GrantAdmin, GrantStaff, CutOff
  <2>2. ASSUME NEW one, NEW entry, cached' = [cached EXCEPT ![one] = entry],
               entry = {} \/ \E list : entry = {list}
        PROVE  cached'[role] = {} \/ \E list : cached'[role] = {list}
    <3>1. cached'[role] = entry \/ cached'[role] = cached[role]
      BY <1>2, <2>2
    <3> QED BY <2>2, <3>1, Zenon DEF CacheTypes
  <2>3. ASSUME NEW r \in Requests, StorePermissions(r)
        PROVE  cached' = [cached EXCEPT ![call[r].role] = {call[r].list}]
    BY <2>3 DEF StorePermissions
  <2>4. ASSUME NEW r \in Requests, ForgetRole(r)
        PROVE  cached' = [cached EXCEPT ![Head(call[r].roles)] = {}]
    BY <2>4 DEF ForgetRole
  <2>5. CASE cached' = cached
    BY <2>5, Zenon DEF CacheTypes
  <2>6. CASE \E one \in Roles : cached' = [cached EXCEPT ![one] = {}]
    BY <2>2, <2>6, Zenon
  <2>7. CASE \E r \in Requests : StorePermissions(r)
    BY <2>2, <2>3, <2>7, Zenon
  <2>8. CASE \E r \in Requests : ForgetRole(r)
    BY <2>2, <2>4, <2>8, Zenon
  <2> QED BY <2>1, <2>5, <2>6, <2>7, <2>8, Zenon
<1> QED BY <1>1, <1>3, <1>5, <1>6 DEF CacheTypes

LEMMA CacheTypesOK == CacheTypes => CacheTypeOK
<1> SUFFICES ASSUME CacheTypes PROVE CacheTypeOK
  OBVIOUS
<1>1. ASSUME NEW role \in Roles PROVE Cardinality(cached[role]) <= 1
  <2>1. CASE cached[role] = {}
    BY <2>1, FS_EmptySet
  <2>2. ASSUME NEW list, cached[role] = {list} PROVE Cardinality(cached[role]) <= 1
    <3>1. Cardinality(cached[role]) = 1
      BY <2>2, FS_Singleton, Zenon
    <3> QED BY <3>1
  <2> QED BY <2>1, <2>2 DEF CacheTypes
<1> QED BY <1>1 DEF CacheTypes, StaleInv, CacheTypeOK

PostTypes == PostInv /\ used \in 0..MaxPosts /\ tagged \in SUBSET (Posts \X Tags)

LEMMA PostTypesInit == BlogInit => PostTypes
<1> SUFFICES ASSUME BlogInit PROVE PostTypes
  OBVIOUS
<1>1. 0 \in 0..MaxPosts
  BY BlogAssumption
<1> QED BY <1>1, PostInitOK DEF BlogInit, PostTypes

LEMMA PostTypesStep == PostTypes /\ [BlogNext]_blogVars => PostTypes'
<1> SUFFICES ASSUME PostTypes, [BlogNext]_blogVars PROVE PostTypes'
  OBVIOUS
<1>1. PostInv'
  BY PostStep DEF PostTypes
<1>2. used' \in 0..MaxPosts
  <2>1. used' = used \/ used' \in Posts
    BY DEF BlogNext, blogVars, CreatePost, EditPost, FindPost, PublishPost, SchedulePost,
           UnpublishPost, DeletePost, GetPost, InsertPost, ReplaceTags, WritePublished,
           WriteScheduled, WriteDraft, Write, DeleteTags, RemovePost, Remove, CountView,
           BlogFails, DeleteBlog
  <2> QED BY <2>1, BlogAssumption DEF PostTypes, Posts
<1>3. ASSUME NEW r \in Requests
      PROVE  /\ At(r, "insert") => call[r].tags \in SUBSET Tags
             /\ At(r, "edit") \/ At(r, "untag") \/ At(r, "remove") => call[r].post \in Posts
             /\ At(r, "edit") => call[r].tags \in SUBSET Tags
  <2>1. call[r] \in BlogCalls
    BY DEF PostTypes, PostInv
  <2> QED BY <2>1 DEF BlogCalls, BlogSteps, At, idle
<1>4. \/ tagged' = tagged
      \/ \E i \in Posts, tags \in SUBSET Tags : tagged' = Retag(i, tags)
  <2>1. ASSUME NEW r \in Requests, InsertPost(r)
        PROVE  \E i \in Posts, tags \in SUBSET Tags : tagged' = Retag(i, tags)
    BY <1>3, <2>1 DEF InsertPost
  <2>2. ASSUME NEW r \in Requests, ReplaceTags(r)
        PROVE  \E i \in Posts, tags \in SUBSET Tags : tagged' = Retag(i, tags)
    BY <1>3, <2>2 DEF ReplaceTags
  <2>3. ASSUME NEW r \in Requests, DeleteTags(r) \/ RemovePost(r)
        PROVE  \E i \in Posts, tags \in SUBSET Tags : tagged' = Retag(i, tags)
    BY <1>3, <2>3 DEF DeleteTags, RemovePost, Remove
  <2>4. ASSUME NEW i \in Posts, DeleteBlog(i)
        PROVE  \E j \in Posts, tags \in SUBSET Tags : tagged' = Retag(j, tags)
    BY <2>4 DEF DeleteBlog, Remove
  <2>5. \/ tagged' = tagged
        \/ \E r \in Requests : InsertPost(r) \/ ReplaceTags(r) \/ DeleteTags(r) \/ RemovePost(r)
        \/ \E i \in Posts : DeleteBlog(i)
    BY DEF BlogNext, blogVars, CreatePost, EditPost, FindPost, PublishPost, SchedulePost,
           UnpublishPost, DeletePost, GetPost, WritePublished, WriteScheduled, WriteDraft, Write,
           CountView, BlogFails
  <2> QED BY <2>1, <2>2, <2>3, <2>4, <2>5, Zenon
<1>5. ASSUME NEW i \in Posts, NEW tags \in SUBSET Tags
      PROVE  Retag(i, tags) \in SUBSET (Posts \X Tags)
  BY <1>5 DEF Retag, PostTypes
<1> QED BY <1>1, <1>2, <1>4, <1>5 DEF PostTypes

LEMMA PostTypesOK == PostTypes => BlogTypeOK
BY DEF PostTypes, PostInv, BlogTypeOK
=============================================================================
