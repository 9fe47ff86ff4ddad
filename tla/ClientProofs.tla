---------------------------- MODULE ClientProofs ----------------------------
(***************************************************************************)
(* Proofs about the client's parts, the booking wizard, the payment window  *)
(* and the views, and the types of all the parts that are checked together. *)
(***************************************************************************)
EXTENDS ServiceProofs, MCServices

-----------------------------------------------------------------------------
(* BookingWizard.  The constants of the module, as numbers and sets.        *)
LEMMA PageNumbers == PageNo = 1..8
BY DEF PageNo, Pages

LEMMA CallNumbers ==
  /\ Calls[1] = "draft" /\ Calls[2] = "passengers" /\ Calls[3] = "addons"
  /\ Calls[4] = "baggage" /\ Calls[5] = "meals" /\ Calls[6] = "initiate"
  /\ Len(Calls) = 6
BY DEF Calls

LEMMA CallNames ==
  {Calls[i] : i \in 1..Len(Calls)} = {"draft", "passengers", "addons", "baggage", "meals", "initiate"}
<1>1. \A i \in 1..6 : i = 1 \/ i = 2 \/ i = 3 \/ i = 4 \/ i = 5 \/ i = 6
  OBVIOUS
<1> QED BY <1>1, CallNumbers

(* The extras are asked for in the order of Calls.                          *)
LEMMA NextCalls ==
  NextCall("addons") = "baggage" /\ NextCall("baggage") = "meals" /\ NextCall("meals") = "initiate"
<1>1. \A i \in 1..6 : i = 1 \/ i = 2 \/ i = 3 \/ i = 4 \/ i = 5 \/ i = 6
  OBVIOUS
<1>2. (CHOOSE i \in 1..Len(Calls) : Calls[i] = "addons") = 3
  <2>1. \A i \in 1..Len(Calls) : Calls[i] = "addons" <=> i = 3
    BY <1>1, CallNumbers
  <2> QED BY <2>1, CallNumbers
<1>3. (CHOOSE i \in 1..Len(Calls) : Calls[i] = "baggage") = 4
  <2>1. \A i \in 1..Len(Calls) : Calls[i] = "baggage" <=> i = 4
    BY <1>1, CallNumbers
  <2> QED BY <2>1, CallNumbers
<1>4. (CHOOSE i \in 1..Len(Calls) : Calls[i] = "meals") = 5
  <2>1. \A i \in 1..Len(Calls) : Calls[i] = "meals" <=> i = 5
    BY <1>1, CallNumbers
  <2> QED BY <2>1, CallNumbers
<1>5. NextCall("addons") = Calls[4] /\ NextCall("baggage") = Calls[5]
      /\ NextCall("meals") = Calls[6]
  <2>1. 1 + 3 = 4 /\ 1 + 4 = 5 /\ 1 + 5 = 6
    OBVIOUS
  <2> QED BY <1>2, <1>3, <1>4, <2>1, Zenon DEF NextCall
<1> QED BY <1>5, CallNumbers

LEMMA TabIsRequest == Tab \in Requests
<1>1. \E r \in Requests : TRUE
  BY HandlersAssumption
<1> QED BY <1>1 DEF Tab

FlowType(f) ==
  f \in [currentStep : PageNo, flight : BOOLEAN, fare : BOOLEAN, chosen : SUBSET Picks,
         bookingCode : 0..MaxOrders, isLoading : BOOLEAN]
CallType(c) == c \in {idle} \cup Submission

(* The extras whose call comes before a step.                               *)
Before(step) == CASE step = "baggage" -> {"addons"} [] step = "meals" -> {"addons", "baggage"}
                  [] step = "initiate" -> Extras [] OTHER -> {}

(* The booking of a submission under way: so far it has got what it has     *)
(* asked for, and none of it has been paid.                                 *)
Under(c, os) ==
  /\ c.id \in 1..Len(os)
  /\ os[c.id].status = "DRAFT" /\ os[c.id].asked = c.state
  /\ os[c.id].parts = c.state \cap Before(c.step)
Submits(c, os, f) ==
  /\ c # idle => f.isLoading
  /\ c.step = "draft" => Len(os) < MaxOrders
  /\ c.step \in {"passengers", "addons", "baggage", "meals", "initiate"} => Under(c, os)

WholeInv ==
  /\ page \in {0} \cup PageNo /\ FlowType(flow) /\ cut \in BOOLEAN
  /\ orders \in Seq(Order) /\ Len(orders) <= MaxOrders
  /\ call \in [Requests -> {idle} \cup Submission]
  /\ \A r \in Requests \ {Tab} : call[r] = idle
  /\ Submits(call[Tab], orders, flow)
  /\ SubmissionIsWhole

LEMMA WholeTypes == WholeInv => WizardTypeOK
BY DEF WholeInv, WizardTypeOK, FlowType

(* Only the handler of the tab is ever in flight.                           *)
LEMMA InFlightIsTab == WholeInv => (NoneInFlight <=> call[Tab] = idle)
<1> SUFFICES ASSUME WholeInv PROVE NoneInFlight <=> call[Tab] = idle
  OBVIOUS
<1>1. \A c \in {idle} \cup Submission : c.step = "idle" => c = idle
  BY CallNames DEF Submission, idle
<1>2. idle.step = "idle"
  BY DEF idle
<1>3. call \in [Requests -> {idle} \cup Submission] /\ \A r \in Requests \ {Tab} : call[r] = idle
  BY DEF WholeInv
<1>4. ASSUME call[Tab] = idle  PROVE NoneInFlight
  BY <1>2, <1>3, <1>4 DEF NoneInFlight, At
<1>5. ASSUME NoneInFlight  PROVE call[Tab] = idle
  <2>1. call[Tab].step = "idle" /\ call[Tab] \in {idle} \cup Submission
    BY <1>3, <1>5, TabIsRequest DEF NoneInFlight, At
  <2> QED BY <1>1, <2>1
<1> QED BY <1>4, <1>5

LEMMA WholeInit == WizardInit => WholeInv
<1> SUFFICES ASSUME WizardInit PROVE WholeInv
  OBVIOUS
<1>1. MaxOrders \in Nat
  BY WizardAssumption
<1>2. FlowType(NewFlow) /\ ~ NewFlow.isLoading
  BY <1>1, PageNumbers DEF FlowType, NewFlow
<1>3. Submits(idle, orders, flow)
  BY DEF Submits, idle
<1>4. Len(orders) = 0 /\ orders \in Seq(Order)
  BY DEF WizardInit
<1>5. SubmissionIsWhole
  BY <1>2, <1>4 DEF WizardInit, SubmissionIsWhole
<1>6. /\ call \in [Requests -> {idle} \cup Submission] /\ call[Tab] = idle
      /\ \A r \in Requests \ {Tab} : call[r] = idle
  BY TabIsRequest DEF WizardInit
<1>7. page \in {0} \cup PageNo /\ FlowType(flow) /\ cut \in BOOLEAN
  BY <1>2 DEF WizardInit
<1>8. Len(orders) <= MaxOrders
  BY <1>1, <1>4
<1> QED BY <1>3, <1>4, <1>5, <1>6, <1>7, <1>8 DEF WholeInv

(* The user goes on while the calls run: isLoading and the orders stay.     *)
LEMMA UserStep ==
  ASSUME WholeInv, UNCHANGED <<orders, cut, call>>, FlowType(flow)',
         flow'.isLoading = flow.isLoading, page' \in {0} \cup PageNo
  PROVE  WholeInv'
<1>1. Submits(call[Tab], orders, flow)'
  BY DEF WholeInv, Submits
<1>2. SubmissionIsWhole'
  BY DEF WholeInv, SubmissionIsWhole, NoneInFlight, At
<1> QED BY <1>1, <1>2 DEF WholeInv

LEMMA LeftType ==
  ASSUME FlowType(flow)
  PROVE  FlowType(Left) /\ Left.isLoading = flow.isLoading
         /\ \A p \in PageNo : /\ FlowType([Left EXCEPT !.currentStep = p])
                              /\ [Left EXCEPT !.currentStep = p].isLoading = flow.isLoading
<1>1. MaxOrders \in Nat /\ 1 \in PageNo
  BY WizardAssumption, PageNumbers
<1>2. FlowType(Left) /\ Left.isLoading = flow.isLoading
  <2> DEFINE b == flow.isLoading
             new == [NewFlow EXCEPT !.isLoading = b]
  <2>1. b \in BOOLEAN
    BY DEF FlowType
  <2> HIDE DEF b
  <2>a. FlowType(NewFlow)
    BY <1>1 DEF FlowType, NewFlow
  <2>2. FlowType(new) /\ new.isLoading = b
    BY <2>1, <2>a DEF FlowType
  <2> HIDE DEF new
  <2> QED BY <2>2 DEF Left, new, b
<1> HIDE DEF Left
<1> QED BY <1>2 DEF FlowType

(* A full load: the calls are gone, and with them what could reset          *)
(* isLoading.                                                               *)
LEMMA LoadedStep ==
  ASSUME WholeInv, NEW p \in PageNo, NEW f, FlowType(f), f.isLoading = flow.isLoading,
         Loaded(p, f)
  PROVE  WholeInv'
<1>1. FlowType(flow)' /\ flow'.isLoading = flow.isLoading
  BY DEF Loaded, FlowType
<1>2. call' = [r \in Requests |-> idle] /\ page' = p /\ UNCHANGED orders
      /\ cut' = (cut \/ ~NoneInFlight)
  BY DEF Loaded
<1>3. Submits(idle, orders, flow)'
  BY DEF Submits, idle
<1>4. SubmissionIsWhole'
  BY <1>1, <1>2 DEF WholeInv, SubmissionIsWhole
<1>5. cut' \in BOOLEAN
  BY <1>2 DEF WholeInv
<1> QED BY <1>1, <1>2, <1>3, <1>4, <1>5, TabIsRequest DEF WholeInv

(* A step of the submission, from one record to another.                    *)
LEMMA TabStep ==
  ASSUME WholeInv, NEW c \in {idle} \cup Submission, call' = [call EXCEPT ![Tab] = c],
         UNCHANGED cut, page' \in {0} \cup PageNo,
         FlowType(flow)', orders' \in Seq(Order), Len(orders') <= MaxOrders,
         Submits(c, orders', flow'), flow'.isLoading => c # idle \/ cut,
         \A i \in 1..Len(orders') :
           orders'[i].status = "PENDING_PAYMENT" => orders'[i].parts = orders'[i].asked \cap Extras
  PROVE  WholeInv'
<1>1. /\ call' \in [Requests -> {idle} \cup Submission] /\ call'[Tab] = c
      /\ \A r \in Requests \ {Tab} : call'[r] = idle
  BY TabIsRequest DEF WholeInv
<1>2. \A d \in {idle} \cup Submission : d.step = "idle" => d = idle
  BY CallNames DEF Submission, idle
<1>3. flow'.isLoading => ~NoneInFlight' \/ cut'
  BY <1>1, <1>2, TabIsRequest DEF NoneInFlight, At
<1> QED BY <1>1, <1>3 DEF WholeInv, SubmissionIsWhole

LEMMA WholeStep == WholeInv /\ [WizardNext]_wizardVars => WholeInv'
<1> SUFFICES ASSUME WholeInv, [WizardNext]_wizardVars PROVE WholeInv'
  OBVIOUS
<1> DEFINE c == call[Tab]
<1>a. MaxOrders \in Nat
  BY WizardAssumption
<1>b. /\ c \in {idle} \cup Submission /\ Submits(c, orders, flow)
      /\ page \in {0} \cup PageNo /\ FlowType(flow) /\ cut \in BOOLEAN
      /\ orders \in Seq(Order) /\ Len(orders) <= MaxOrders
      /\ SubmissionIsWhole
  BY TabIsRequest DEF WholeInv
<1>c. PageNo \in SUBSET Nat /\ \A n \in 1..8 : n \in PageNo
  BY PageNumbers
<1>d. idle.step = "idle" /\ \A d \in Submission : d.step # "idle"
  BY CallNames DEF Submission, idle
<1>1. ASSUME NEW p \in PageNo, Visit(p) PROVE WholeInv'
  <2>1. /\ FlowType(Left) /\ Left.isLoading = flow.isLoading
        /\ FlowType([Left EXCEPT !.currentStep = p])
        /\ [Left EXCEPT !.currentStep = p].isLoading = flow.isLoading
    BY <1>b, LeftType
  <2>2. Left.currentStep \in PageNo
    BY <2>1 DEF FlowType
  <2>3. flow' \in {Left, [Left EXCEPT !.currentStep = p]} /\ page' \in {0} \cup PageNo
        /\ UNCHANGED <<orders, cut, call>>
    BY <1>1, <2>2 DEF Visit
  <2>4. FlowType(flow') /\ flow'.isLoading = flow.isLoading
    BY <2>1, <2>3
  <2>5. FlowType(flow)'
    BY <2>4 DEF FlowType
  <2> QED BY <2>3, <2>4, <2>5, UserStep
<1>2. ASSUME LeaveWizard PROVE WholeInv'
  <2>1. FlowType(Left) /\ Left.isLoading = flow.isLoading
    BY <1>b, LeftType
  <2>2. flow' = Left /\ page' = 0 /\ UNCHANGED <<orders, cut, call>>
    BY <1>2 DEF LeaveWizard
  <2>3. FlowType(flow)'
    BY <2>1, <2>2 DEF FlowType
  <2> QED BY <2>1, <2>2, <2>3, UserStep
<1>3. ASSUME Reload PROVE WholeInv'
  <2>1. page \in PageNo /\ Loaded(page, flow)
    BY <1>3 DEF Reload
  <2> QED BY <1>b, <2>1, LoadedStep
<1>4. ASSUME ChooseFlight PROVE WholeInv'
  <2>1. PICK p \in {2} \cup (1..1 \cap {flow.currentStep}) :
          Loaded(p, [flow EXCEPT !.flight = TRUE, !.fare = TRUE, !.currentStep = p])
    BY <1>4 DEF ChooseFlight
  <2>2. p \in PageNo
    BY <1>c
  <2> DEFINE f == [flow EXCEPT !.flight = TRUE, !.fare = TRUE, !.currentStep = p]
  <2>3. FlowType(f) /\ f.isLoading = flow.isLoading
    BY <1>b, <2>2 DEF FlowType
  <2> HIDE DEF f
  <2> QED BY <2>1, <2>2, <2>3, LoadedStep DEF f
<1>5. ASSUME FareClass PROVE WholeInv'
  <2>1. flow' = [flow EXCEPT !.fare = TRUE] /\ UNCHANGED <<page, orders, cut, call>>
    BY <1>5 DEF FareClass
  <2>2. FlowType(flow)' /\ flow'.isLoading = flow.isLoading
    BY <1>b, <2>1 DEF FlowType
  <2> QED BY <1>b, <2>1, <2>2, UserStep
<1>6. ASSUME UpdateBookingData PROVE WholeInv'
  <2> DEFINE e == Edited(page, flow.chosen)
  <2>1. e \subseteq Wanted /\ flow' = [flow EXCEPT !.chosen = e]
        /\ UNCHANGED <<page, orders, cut, call>>
    BY <1>6 DEF UpdateBookingData
  <2>2. e \in SUBSET Picks
    BY <2>1, WizardAssumption DEF Picks, Extras
  <2> HIDE DEF e
  <2>3. FlowType(flow)' /\ flow'.isLoading = flow.isLoading
    BY <1>b, <2>1, <2>2 DEF FlowType
  <2> QED BY <1>b, <2>1, <2>3, UserStep
<1>7. ASSUME HandlePay(Tab) PROVE WholeInv'
  <2> DEFINE d == [step |-> "draft", state |-> flow.chosen, id |-> 0]
  <2>1. /\ Len(orders) < MaxOrders /\ call' = [call EXCEPT ![Tab] = d]
        /\ flow' = [flow EXCEPT !.isLoading = TRUE] /\ UNCHANGED <<page, orders, cut>>
    BY <1>7 DEF HandlePay, Start
  <2>2. FlowType(flow)' /\ flow'.isLoading
    BY <1>b, <2>1 DEF FlowType
  <2>3. d \in Submission
    <3>1. flow.chosen \in SUBSET Picks /\ 0 \in 0..MaxOrders
      BY <1>a, <1>b DEF FlowType
    <3> QED BY <3>1, CallNames DEF Submission
  <2>4. d # idle /\ d.step = "draft"
    BY <1>d, <2>3
  <2> HIDE DEF d
  <2>5. Submits(d, orders', flow')
    BY <2>1, <2>2, <2>4 DEF Submits
  <2> QED BY <1>b, <2>1, <2>2, <2>3, <2>4, <2>5, TabStep DEF SubmissionIsWhole
<1>8. ASSUME CreateDraft(Tab) PROVE WholeInv'
  <2> DEFINE new == [parts |-> {}, asked |-> c.state, status |-> "DRAFT"]
             n == Len(orders) + 1
             d == [c EXCEPT !.step = "passengers", !.id = n]
  <2>1. /\ c.step = "draft" /\ orders' = Append(orders, new)
        /\ call' = [call EXCEPT ![Tab] = d] /\ UNCHANGED <<page, flow, cut>>
    BY <1>8 DEF CreateDraft, At, Become
  <2>2. c \in Submission /\ flow.isLoading /\ Len(orders) < MaxOrders
    BY <1>b, <1>d, <2>1 DEF Submits
  <2>3. new \in Order
    BY <2>2 DEF Order, Submission
  <2>4. /\ orders' \in Seq(Order) /\ Len(orders') = n /\ orders'[n] = new
        /\ \A i \in 1..Len(orders) : orders'[i] = orders[i]
    BY <1>b, <2>1, <2>3
  <2>5. n \in 0..MaxOrders /\ n \in 1..n
    BY <1>a, <1>b, <2>2
  <2>6. d \in Submission /\ d.step = "passengers" /\ d.id = n /\ d.state = c.state
    BY <2>2, <2>5, CallNames DEF Submission
  <2>7. Under(d, orders')
    BY <2>4, <2>5, <2>6 DEF Under, Before
  <2>8. \A i \in 1..Len(orders') :
          orders'[i].status = "PENDING_PAYMENT" => orders'[i].parts = orders'[i].asked \cap Extras
    <3>1. \A i \in 1..n : i = n \/ i \in 1..Len(orders)
      BY <1>b
    <3> QED BY <1>b, <2>4, <3>1 DEF SubmissionIsWhole
  <2> HIDE DEF d, new
  <2>9. d # idle /\ Submits(d, orders', flow')
    BY <1>d, <2>1, <2>2, <2>6, <2>7 DEF Submits
  <2>10. FlowType(flow)' /\ page' \in {0} \cup PageNo /\ Len(orders') <= MaxOrders
    BY <1>a, <1>b, <2>1, <2>4, <2>5 DEF FlowType
  <2> QED BY <2>1, <2>4, <2>6, <2>8, <2>9, <2>10, TabStep
<1>9. ASSUME AddPassengers(Tab) PROVE WholeInv'
  <2> DEFINE d == [c EXCEPT !.step = "addons"]
  <2>1. c.step = "passengers" /\ call' = [call EXCEPT ![Tab] = d] /\ UNCHANGED <<page, flow, orders, cut>>
    BY <1>9, TabIsRequest DEF AddPassengers, At, GoTo, WholeInv
  <2>2. c \in Submission /\ flow.isLoading /\ Under(c, orders)
    BY <1>b, <1>d, <2>1 DEF Submits
  <2>3. d \in Submission /\ d.step = "addons" /\ d.id = c.id /\ d.state = c.state
    BY <2>2, CallNames DEF Submission
  <2> HIDE DEF d
  <2>4. d # idle /\ Submits(d, orders', flow')
    BY <1>d, <2>1, <2>2, <2>3 DEF Submits, Under, Before
  <2>5. FlowType(flow)' /\ page' \in {0} \cup PageNo
    BY <1>b, <2>1 DEF FlowType
  <2> QED BY <1>b, <2>1, <2>3, <2>4, <2>5, TabStep DEF SubmissionIsWhole
<1>10. ASSUME NEW x \in Extras, AddExtra(Tab, x) PROVE WholeInv'
  <2> DEFINE next == NextCall(x)
             d == [c EXCEPT !.step = next]
             row == [orders[c.id] EXCEPT !.parts = @ \cup {x}]
  <2>1. /\ c.step = x /\ call' = [call EXCEPT ![Tab] = d] /\ UNCHANGED <<page, flow, cut>>
        /\ orders' = IF x \in c.state THEN [orders EXCEPT ![c.id].parts = @ \cup {x}] ELSE orders
    BY <1>10, TabIsRequest DEF AddExtra, At, GoTo, State, WholeInv
  <2>2. x \in {"addons", "baggage", "meals"}
    BY DEF Extras
  <2>3. c \in Submission /\ flow.isLoading /\ Under(c, orders)
    BY <1>b, <1>d, <2>1, <2>2 DEF Submits, idle
  <2>4. next \in {"baggage", "meals", "initiate"} /\ Before(next) = Before(x) \cup {x}
    BY <2>2, NextCalls DEF Before, Extras
  <2>5. d \in Submission /\ d.step = next /\ d.id = c.id /\ d.state = c.state
    <3>1. next \in {Calls[i] : i \in 1..Len(Calls)}
      BY <2>4, CallNames
    <3> HIDE DEF next
    <3> QED BY <2>3, <3>1 DEF Submission
  <2>6. c.id \in 1..Len(orders) /\ orders[c.id] \in Order
    BY <1>b, <2>3, ElementOfSeq DEF Under
  <2>7. row \in Order /\ row.status = "DRAFT" /\ row.asked = c.state
        /\ row.parts = orders[c.id].parts \cup {x}
    BY <2>3, <2>6 DEF Order, Under
  <2>8. orders' = IF x \in c.state THEN [orders EXCEPT ![c.id] = row] ELSE orders
    BY <2>1
  <2> HIDE DEF row
  <2>9. /\ orders' \in Seq(Order) /\ Len(orders') = Len(orders)
        /\ \A i \in 1..Len(orders) : i # c.id => orders'[i] = orders[i]
        /\ orders'[c.id] = IF x \in c.state THEN row ELSE orders[c.id]
    <3>1. CASE x \in c.state
      <4>1. orders' = [orders EXCEPT ![c.id] = row]
        BY <2>8, <3>1
      <4> QED BY <1>b, <2>6, <2>7, <3>1, <4>1, ExceptSeq
    <3>2. CASE x \notin c.state
      BY <1>b, <2>8, <3>2
    <3> QED BY <3>1, <3>2
  <2> HIDE DEF d, next
  <2>10. Under(d, orders')
    <3>1. d.id \in 1..Len(orders') /\ orders'[d.id].status = "DRAFT" /\ orders'[d.id].asked = d.state
      BY <2>3, <2>5, <2>6, <2>7, <2>9 DEF Under
    <3>2. orders'[d.id].parts = c.state \cap (Before(c.step) \cup {x})
      <4>1. orders[c.id].parts = c.state \cap Before(c.step)
        BY <2>3 DEF Under
      <4> QED BY <2>5, <2>7, <2>9, <4>1
    <3> QED BY <2>1, <2>4, <2>5, <3>1, <3>2 DEF Under
  <2>11. d # idle /\ Submits(d, orders', flow')
    BY <1>d, <2>1, <2>3, <2>4, <2>5, <2>10 DEF Submits
  <2>12. \A i \in 1..Len(orders') :
          orders'[i].status = "PENDING_PAYMENT" => orders'[i].parts = orders'[i].asked \cap Extras
    <3>1. orders'[c.id].status = "DRAFT"
      BY <2>5, <2>10 DEF Under
    <3> QED BY <1>b, <2>9, <3>1 DEF SubmissionIsWhole
  <2>13. FlowType(flow)' /\ page' \in {0} \cup PageNo /\ Len(orders') <= MaxOrders
    BY <1>b, <2>1, <2>9 DEF FlowType
  <2> QED BY <2>1, <2>3, <2>5, <2>9, <2>11, <2>12, <2>13, TabStep
<1>11. ASSUME Initiate(Tab) PROVE WholeInv'
  <2> DEFINE id == c.id
             row == [orders[id] EXCEPT !.status = "PENDING_PAYMENT"]
  <2>1. /\ c.step = "initiate" /\ call' = [call EXCEPT ![Tab] = idle] /\ UNCHANGED cut
        /\ orders' = [orders EXCEPT ![id] = row] /\ page' \in {0, page}
        /\ flow' = [flow EXCEPT !.bookingCode = id, !.isLoading = FALSE]
    BY <1>11, TabIsRequest DEF Initiate, At, Finish, WholeInv
  <2>2. c \in Submission /\ Under(c, orders)
    BY <1>b, <1>d, <2>1 DEF Submits
  <2>3. id \in 1..Len(orders) /\ orders[id] \in Order /\ id \in 0..MaxOrders
    BY <1>a, <1>b, <2>2, ElementOfSeq DEF Under, Submission
  <2>4. row \in Order /\ row.parts = row.asked \cap Extras
    <3>1. orders[id].parts = orders[id].asked \cap Extras
      BY <2>1, <2>2 DEF Under, Before
    <3> QED BY <2>3, <3>1 DEF Order
  <2> HIDE DEF row
  <2>5. /\ orders' \in Seq(Order) /\ Len(orders') = Len(orders)
        /\ \A i \in 1..Len(orders) : i # id => orders'[i] = orders[i]
        /\ orders'[id] = row
    BY <1>b, <2>1, <2>3, <2>4, ExceptSeq
  <2>6. \A i \in 1..Len(orders') :
          orders'[i].status = "PENDING_PAYMENT" => orders'[i].parts = orders'[i].asked \cap Extras
    BY <1>b, <2>4, <2>5 DEF SubmissionIsWhole
  <2> HIDE DEF id
  <2>7. FlowType(flow)' /\ ~flow'.isLoading
    BY <1>b, <2>1, <2>3 DEF FlowType
  <2>8. Submits(idle, orders', flow')
    BY <1>d DEF Submits
  <2> QED BY <1>b, <2>1, <2>5, <2>6, <2>7, <2>8, TabStep
<1>12. ASSUME SubmitFails(Tab) PROVE WholeInv'
  <2>1. /\ call' = [call EXCEPT ![Tab] = idle] /\ flow' = [flow EXCEPT !.isLoading = FALSE]
        /\ UNCHANGED <<page, orders, cut>>
    BY <1>12 DEF SubmitFails, Finish
  <2>2. FlowType(flow)' /\ ~flow'.isLoading
    BY <1>b, <2>1 DEF FlowType
  <2>3. Submits(idle, orders', flow')
    BY <1>d DEF Submits
  <2> QED BY <1>b, <2>1, <2>2, <2>3, TabStep DEF SubmissionIsWhole
<1>13. CASE UNCHANGED wizardVars
  BY <1>13, UserStep DEF wizardVars, WholeInv, FlowType
<1> QED BY <1>1, <1>2, <1>3, <1>4, <1>5, <1>6, <1>7, <1>8, <1>9, <1>10, <1>11, <1>12, <1>13
        DEF WizardNext

(* A submission is whole, however many bookings the wizard makes.           *)
THEOREM SubmissionIsWholeHolds == WizardSpec => []SubmissionIsWhole
<1>1. WholeInv => SubmissionIsWhole
  BY DEF WholeInv
<1> QED BY WholeInit, WholeStep, <1>1, PTL DEF WizardSpec
-----------------------------------------------------------------------------
(* PaymentModal.  A payment has one loop of polls, which ends with a final  *)
(* answer; what is in flight about it is therefore never contradicted.      *)
FinalAnswers == {"SUCCESS", "LATE_PAYMENT"}

(* What a poll in flight knows, of the statuses ps.                         *)
PollKnows(c, ps) ==
  c # idle => /\ ps[c.pay] # "none"
              /\ c.step = "pollAnswer" /\ c.status \in FinalAnswers => ps[c.pay] = c.status

ModalInv ==
  /\ ModalTypeOK /\ ModalTellsTheTruth
  /\ modal.pay = NoPayment => modal = Shut
  /\ \A r \in Requests : PollKnows(call[r], paid)
  /\ \A r, q \in Requests : call[r] # idle /\ call[q] # idle /\ call[r].pay = call[q].pay => r = q
  /\ modal.shows \in FinalAnswers => \A r \in Requests : call[r] # idle => call[r].pay # modal.pay

LEMMA PollTypes == idle \notin Polls /\ idle.step = "idle"
<1>1. \A c \in Polls : c.step # "idle"
  BY DEF Polls
<1>2. idle.step = "idle"
  BY DEF idle
<1> QED BY <1>1, <1>2

(* The window as an invariant says it, without Shut.                        *)
Shows(m, ps) == m.shows \in FinalAnswers => ps[m.pay] = m.shows

LEMMA ShowsTruth ==
  /\ ModalTellsTheTruth <=> Shows(modal, paid)
  /\ ModalTellsTheTruth' <=> Shows(modal', paid')
<1>1. Shut.shows \notin FinalAnswers
  BY DEF Shut, FinalAnswers
<1>2. modal.shows \in FinalAnswers => modal # Shut
  BY <1>1
<1>3. modal'.shows \in FinalAnswers => modal' # Shut
  BY <1>1
<1> QED BY <1>2, <1>3 DEF ModalTellsTheTruth, FinalAnswers, Shows

LEMMA ModalInvInit == ModalInit => ModalInv
<1> SUFFICES ASSUME ModalInit PROVE ModalInv
  OBVIOUS
<1>1. /\ Shut \in [pay : Payments \cup {NoPayment}, shows : {"PENDING"} \cup Final]
      /\ Shut.shows = "PENDING" /\ "PENDING" \notin FinalAnswers
  BY DEF Shut, FinalAnswers
<1>2. ModalTellsTheTruth
  BY DEF ModalInit, ModalTellsTheTruth
<1>3. ModalTypeOK
  BY <1>1 DEF ModalInit, ModalTypeOK
<1>4. \A r \in Requests : call[r] = idle
  BY DEF ModalInit
<1>5. \A r \in Requests : PollKnows(call[r], paid)
  BY <1>4 DEF PollKnows
<1>6. modal = Shut
  BY DEF ModalInit
<1> QED BY <1>1, <1>2, <1>3, <1>4, <1>5, <1>6 DEF ModalInv

(* A poll goes on: its payment and its window stay.                         *)
LEMMA PollMoves ==
  ASSUME ModalInv, NEW r \in Requests, NEW c \in Polls,
         call[r] # idle, c.pay = call[r].pay, call' = [call EXCEPT ![r] = c],
         UNCHANGED <<due, modal>>,
         paid' \in [Payments -> {"none", "PENDING", "FAILED"} \cup Final],
         \A p \in Payments : p # c.pay => paid'[p] = paid[p],
         PollKnows(c, paid')
  PROVE  ModalInv'
<1>1. /\ call' \in [Requests -> {idle} \cup Polls] /\ call'[r] = c
      /\ \A q \in Requests : q # r => call'[q] = call[q]
  BY DEF ModalInv, ModalTypeOK
<1>2. ASSUME NEW q \in Requests PROVE PollKnows(call'[q], paid')
  <2>1. CASE q = r
    BY <1>1, <2>1
  <2>2. CASE q # r
    <3>1. call'[q] = call[q] /\ PollKnows(call[q], paid)
      BY <1>1, <2>2 DEF ModalInv, ModalTypeOK
    <3>2. call[q] # idle => call[q].pay \in Payments /\ call[q].pay # c.pay
      BY <2>2 DEF ModalInv, ModalTypeOK, Polls
    <3> QED BY <3>1, <3>2 DEF PollKnows
  <2> QED BY <2>1, <2>2
<1>3. c # idle
  BY PollTypes
<1>4. \A q1, q2 \in Requests :
        call'[q1] # idle /\ call'[q2] # idle /\ call'[q1].pay = call'[q2].pay => q1 = q2
  BY <1>1, <1>3 DEF ModalInv, ModalTypeOK
<1>5. modal.shows \in FinalAnswers => /\ modal.pay \in Payments /\ modal.pay # c.pay
                                 /\ paid'[modal.pay] = modal.shows
  <2>1. Shut.shows \notin FinalAnswers
    BY DEF Shut, FinalAnswers
  <2>2. modal.pay \in Payments \cup {NoPayment} /\ (modal.pay = NoPayment => modal = Shut)
    BY DEF ModalInv, ModalTypeOK
  <2> QED BY <2>1, <2>2, ShowsTruth DEF ModalInv, ModalTypeOK, Shows
<1>6. modal.shows \in FinalAnswers => \A q \in Requests : call'[q] # idle => call'[q].pay # modal.pay
  BY <1>1, <1>3, <1>5 DEF ModalInv, ModalTypeOK
<1>7. ModalTellsTheTruth'
  BY <1>5, ShowsTruth DEF Shows
<1> QED BY <1>1, <1>2, <1>4, <1>6, <1>7 DEF ModalInv, ModalTypeOK

(* Handlers that end, or lose their window, know no less.                   *)
LEMMA PollsEnd ==
  ASSUME ModalInv, UNCHANGED <<paid, due>>,
         call' \in [Requests -> {idle} \cup Polls],
         \A q \in Requests : call'[q] = idle \/ /\ call[q] # idle
                                                /\ call'[q].pay = call[q].pay
                                                /\ call'[q].step = call[q].step
                                                /\ call[q].step = "pollAnswer"
                                                     => call'[q].status = call[q].status,
         modal' \in [pay : Payments \cup {NoPayment}, shows : {"PENDING"} \cup Final],
         modal'.pay = NoPayment => modal' = Shut,
         modal'.shows \in FinalAnswers =>
           /\ paid[modal'.pay] = modal'.shows
           /\ \A q \in Requests : call'[q] # idle => call'[q].pay # modal'.pay
  PROVE  ModalInv'
<1>1. \A q \in Requests : PollKnows(call'[q], paid)
  BY DEF ModalInv, PollKnows
<1>2. \A q1, q2 \in Requests :
        call'[q1] # idle /\ call'[q2] # idle /\ call'[q1].pay = call'[q2].pay => q1 = q2
  BY DEF ModalInv, ModalTypeOK
<1>3. ModalTellsTheTruth'
  BY ShowsTruth DEF Shows
<1> QED BY <1>1, <1>2, <1>3 DEF ModalInv, ModalTypeOK

LEMMA CleanType ==
  ASSUME ModalInv, CleanAll
  PROVE  /\ call' \in [Requests -> {idle} \cup Polls]
         /\ \A q \in Requests : call'[q] = idle \/ /\ call[q] # idle
                                                   /\ call'[q].pay = call[q].pay
                                                   /\ call'[q].step = call[q].step
                                                   /\ call[q].step = "pollAnswer"
                                                        => call'[q].status = call[q].status
<1>1. call' = [q \in Requests |-> Cleanup(call[q])]
  BY DEF CleanAll
<1>2. ASSUME NEW c \in {idle} \cup Polls
      PROVE  /\ Cleanup(c) \in {idle} \cup Polls
             /\ Cleanup(c) = idle \/ /\ c # idle /\ Cleanup(c).pay = c.pay
                                     /\ Cleanup(c).step = c.step
                                     /\ c.step = "pollAnswer" => Cleanup(c).status = c.status
  <2> DEFINE d == [c EXCEPT !.loose = TRUE]
  <2>1. c \in Polls => /\ d \in Polls /\ d.pay = c.pay /\ d.step = c.step
                       /\ c.step = "pollAnswer" => d.status = c.status
    BY DEF Polls
  <2>2. Cleanup(c) \in {c, idle, d}
    BY DEF Cleanup
  <2>3. c = idle => Cleanup(c) = idle
    BY DEF Cleanup
  <2> HIDE DEF d
  <2> QED BY <2>1, <2>2, <2>3
<1>3. call \in [Requests -> {idle} \cup Polls]
  BY DEF ModalInv, ModalTypeOK
<1> HIDE DEF CleanAll, Cleanup
<1> QED BY <1>1, <1>2, <1>3

LEMMA ModalInvStep == ModalInv /\ [ModalNext]_modalVars => ModalInv'
<1> SUFFICES ASSUME ModalInv, [ModalNext]_modalVars PROVE ModalInv'
  OBVIOUS
<1>a. /\ paid \in [Payments -> {"none", "PENDING", "FAILED"} \cup Final]
      /\ modal \in [pay : Payments \cup {NoPayment}, shows : {"PENDING"} \cup Final]
      /\ modal.pay = NoPayment => modal = Shut
      /\ call \in [Requests -> {idle} \cup Polls]
      /\ \A r \in Requests : PollKnows(call[r], paid)
      /\ \A r, q \in Requests : call[r] # idle /\ call[q] # idle /\ call[r].pay = call[q].pay => r = q
      /\ Shows(modal, paid) /\ due \subseteq Payments
      /\ modal.shows \in FinalAnswers => \A r \in Requests : call[r] # idle => call[r].pay # modal.pay
  BY ShowsTruth DEF ModalInv, ModalTypeOK
<1>b. /\ Shut \in [pay : Payments \cup {NoPayment}, shows : {"PENDING"} \cup Final]
      /\ Shut.shows = "PENDING" /\ "PENDING" \notin FinalAnswers /\ "EXPIRED" \notin FinalAnswers
      /\ "FAILED" \notin FinalAnswers /\ "none" \notin FinalAnswers
      /\ FinalAnswers \subseteq Final /\ "EXPIRED" \in Final
  BY DEF Shut, FinalAnswers, Final
<1>c. modal # Shut => modal.pay \in Payments
  BY <1>a
\* A payment of which the window says how it ended has no poll left.
<1>d. ASSUME UNCHANGED <<modal, call>>, due' \subseteq Payments,
             NEW p \in Payments, NEW st \in {"SUCCESS", "FAILED", "EXPIRED", "LATE_PAYMENT"},
             paid' = [paid EXCEPT ![p] = st], paid[p] \notin FinalAnswers
      PROVE  ModalInv'
  <2>1. paid' \in [Payments -> {"none", "PENDING", "FAILED"} \cup Final] /\ paid'[p] = st
        /\ \A q \in Payments : q # p => paid'[q] = paid[q]
    BY <1>a, <1>d DEF Final
  <2>2. \A q \in Payments : paid[q] \in FinalAnswers => paid'[q] = paid[q]
    BY <1>d, <2>1
  <2>3. \A q \in Payments : paid'[q] = "none" => paid[q] = "none"
    BY <2>1
  <2>4. ASSUME NEW r \in Requests PROVE PollKnows(call[r], paid')
    <3>1. call[r] # idle => call[r].pay \in Payments
      BY <1>a DEF Polls
    <3>2. PollKnows(call[r], paid)
      BY <1>a
    <3> QED BY <2>2, <2>3, <3>1, <3>2 DEF PollKnows
  <2>5. Shows(modal, paid')
    BY <1>a, <1>b, <1>c, <2>2 DEF Shows
  <2> QED BY <1>a, <1>d, <2>1, <2>4, <2>5, ShowsTruth DEF ModalInv, ModalTypeOK
<1>1. ASSUME NEW r \in Requests, NEW p \in Payments, OpenModal(r, p) PROVE ModalInv'
  <2> DEFINE c == [step |-> "timer", pay |-> p, loose |-> FALSE]
             m == [pay |-> p, shows |-> "PENDING"]
  <2>1. /\ modal = Shut /\ paid[p] = "none" /\ call[r].step = "idle"
        /\ call' = [call EXCEPT ![r] = c] /\ modal' = m
        /\ paid' = [paid EXCEPT ![p] = "PENDING"] /\ UNCHANGED due
    BY <1>1 DEF OpenModal, Start, At
  <2>2. c \in Polls /\ c # idle /\ c.pay = p /\ c.step = "timer"
    <3>1. c \in Polls
      BY DEF Polls
    <3> QED BY <3>1, PollTypes
  <2>3. m \in [pay : Payments \cup {NoPayment}, shows : {"PENDING"} \cup Final]
        /\ m.pay # NoPayment /\ m.shows \notin FinalAnswers
    BY <1>b, ModalAssumption
  <2> HIDE DEF c, m
  <2>4. /\ paid' \in [Payments -> {"none", "PENDING", "FAILED"} \cup Final]
        /\ paid'[p] = "PENDING" /\ \A q \in Payments : q # p => paid'[q] = paid[q]
    BY <1>a, <2>1
  <2>5. /\ call' \in [Requests -> {idle} \cup Polls] /\ call'[r] = c
        /\ \A q \in Requests : q # r => call'[q] = call[q]
    BY <1>a, <2>1, <2>2
  <2>6. \A q \in Requests : call[q] # idle => call[q].pay \in Payments /\ call[q].pay # p
    <3> SUFFICES ASSUME NEW q \in Requests, call[q] # idle
                 PROVE  call[q].pay \in Payments /\ call[q].pay # p
      OBVIOUS
    <3>1. paid[call[q].pay] # "none"
      BY <1>a DEF PollKnows
    <3>2. call[q].pay \in Payments
      BY <1>a DEF Polls
    <3> QED BY <2>1, <3>1, <3>2
  <2>7. ASSUME NEW q \in Requests PROVE PollKnows(call'[q], paid')
    <3>1. CASE q = r
      BY <2>2, <2>4, <2>5, <3>1 DEF PollKnows
    <3>2. CASE q # r
      <4>1. call'[q] = call[q] /\ PollKnows(call[q], paid)
        BY <1>a, <2>5, <3>2
      <4> QED BY <2>4, <2>6, <4>1 DEF PollKnows
    <3> QED BY <3>1, <3>2
  <2>8. \A q1, q2 \in Requests :
          call'[q1] # idle /\ call'[q2] # idle /\ call'[q1].pay = call'[q2].pay => q1 = q2
    BY <1>a, <2>2, <2>5, <2>6
  <2>9. ModalTellsTheTruth'
    BY <2>1, <2>3, ShowsTruth DEF Shows
  <2> QED BY <1>a, <2>1, <2>3, <2>4, <2>5, <2>7, <2>8, <2>9 DEF ModalInv, ModalTypeOK
<1>2. ASSUME CountdownEnds PROVE ModalInv'
  <2>1. modal # Shut /\ modal' = [modal EXCEPT !.shows = "EXPIRED"] /\ CleanAll
        /\ UNCHANGED <<paid, due>>
    BY <1>2 DEF CountdownEnds
  <2>2. modal' \in [pay : Payments \cup {NoPayment}, shows : {"PENDING"} \cup Final]
        /\ modal'.shows = "EXPIRED" /\ modal'.pay = modal.pay
    BY <1>a, <1>b, <2>1
  <2>3. modal'.pay # NoPayment
    BY <1>c, <2>1, <2>2, ModalAssumption
  <2> QED BY <1>b, <2>1, <2>2, <2>3, CleanType, PollsEnd
<1>3. ASSUME CloseModal PROVE ModalInv'
  <2>1. modal' = Shut /\ CleanAll /\ UNCHANGED <<paid, due>>
    BY <1>3 DEF CloseModal
  <2> QED BY <1>b, <2>1, CleanType, PollsEnd
<1>4. ASSUME NEW r \in Requests, TimerFires(r) PROVE ModalInv'
  <2> DEFINE c == [call[r] EXCEPT !.step = "poll"]
  <2>1. call[r].step = "timer" /\ call' = [call EXCEPT ![r] = c] /\ UNCHANGED <<paid, due, modal>>
    BY <1>4, <1>a DEF TimerFires, At, GoTo
  <2>2. call[r] \in Polls /\ call[r] # idle
    BY <1>a, <2>1, PollTypes
  <2>3. c \in Polls /\ c.pay = call[r].pay /\ c.step = "poll"
    BY <2>1, <2>2 DEF Polls
  <2> HIDE DEF c
  <2>4. PollKnows(c, paid')
    BY <1>a, <2>1, <2>2, <2>3 DEF PollKnows
  <2> QED BY <1>a, <2>1, <2>2, <2>3, <2>4, PollMoves
<1>5. ASSUME NEW r \in Requests, PollError(r) PROVE ModalInv'
  <2> DEFINE c == [call[r] EXCEPT !.step = "timer"]
  <2>1. call[r].step = "poll" /\ call' = [call EXCEPT ![r] = c] /\ UNCHANGED <<paid, due, modal>>
    BY <1>5, <1>a DEF PollError, At, GoTo
  <2>2. call[r] \in Polls /\ call[r] # idle
    BY <1>a, <2>1, PollTypes
  <2>3. c \in Polls /\ c.pay = call[r].pay /\ c.step = "timer"
    BY <2>1, <2>2 DEF Polls
  <2> HIDE DEF c
  <2>4. PollKnows(c, paid')
    BY <1>a, <2>1, <2>2, <2>3 DEF PollKnows
  <2> QED BY <1>a, <2>1, <2>2, <2>3, <2>4, PollMoves
\* What an answer says of the payment is what the poll has just read or written.
<1>e. ASSUME NEW r \in Requests, NEW st \in {"PENDING", "FAILED"} \cup Final, Answer(r, st),
             call[r] \in Polls, call[r] # idle, UNCHANGED <<due, modal>>,
             paid' \in [Payments -> {"none", "PENDING", "FAILED"} \cup Final],
             \A p \in Payments : p # call[r].pay => paid'[p] = paid[p],
             paid'[call[r].pay] # "none",
             st \in FinalAnswers => paid'[call[r].pay] = st
      PROVE  ModalInv'
  <2> DEFINE c == [step |-> "pollAnswer", pay |-> call[r].pay, loose |-> call[r].loose, status |-> st]
  <2>1. call' = [call EXCEPT ![r] = c]
    BY <1>e DEF Answer, Become
  <2>2. c \in Polls /\ c.pay = call[r].pay /\ c.status = st
    BY <1>e DEF Polls
  <2> HIDE DEF c
  <2>3. PollKnows(c, paid')
    BY <1>e, <2>2 DEF PollKnows
  <2> QED BY <1>e, <2>1, <2>2, <2>3, PollMoves
<1>6. ASSUME NEW r \in Requests, PollReads(r) PROVE ModalInv'
  <2> DEFINE p == call[r].pay
  <2>1. call[r].step = "poll" /\ UNCHANGED <<paid, due, modal>>
        /\ (GoTo(r, "expire") \/ Answer(r, paid[p]))
    BY <1>6 DEF PollReads, At
  <2>2. call[r] \in Polls /\ call[r] # idle
    BY <1>a, <2>1, PollTypes
  <2>3. p \in Payments /\ paid[p] # "none"
    BY <1>a, <2>2 DEF Polls, PollKnows
  <2>4. CASE GoTo(r, "expire")
    <3> DEFINE c == [call[r] EXCEPT !.step = "expire"]
    <3>1. call' = [call EXCEPT ![r] = c]
      BY <1>a, <2>4 DEF GoTo
    <3>2. c \in Polls /\ c.pay = p /\ c.step = "expire"
      BY <2>1, <2>2 DEF Polls
    <3> HIDE DEF c
    <3>3. PollKnows(c, paid')
      BY <2>1, <2>3, <3>2 DEF PollKnows
    <3> QED BY <1>a, <2>1, <2>2, <3>1, <3>2, <3>3, PollMoves
  <2>5. CASE Answer(r, paid[p])
    <3>1. paid[p] \in {"PENDING", "FAILED"} \cup Final
      BY <1>a, <2>3
    <3> QED BY <1>a, <1>e, <2>1, <2>2, <2>3, <2>5, <3>1
  <2> QED BY <2>1, <2>4, <2>5
<1>7. ASSUME NEW r \in Requests, PollExpires(r) PROVE ModalInv'
  <2> DEFINE p == call[r].pay
  <2>1. /\ call[r].step = "expire" /\ Answer(r, "EXPIRED") /\ UNCHANGED <<due, modal>>
        /\ paid' = [paid EXCEPT ![p] = "EXPIRED"] \/ paid' = paid
    BY <1>7 DEF PollExpires, At
  <2>2. call[r] \in Polls /\ call[r] # idle
    BY <1>a, <2>1, PollTypes
  <2>3. p \in Payments /\ paid[p] # "none"
    BY <1>a, <2>2 DEF Polls, PollKnows
  <2>4. /\ paid' \in [Payments -> {"none", "PENDING", "FAILED"} \cup Final]
        /\ \A q \in Payments : q # p => paid'[q] = paid[q]
        /\ paid'[p] # "none"
    BY <1>a, <1>b, <2>1, <2>3
  <2> QED BY <1>b, <1>e, <2>1, <2>2, <2>4
<1>8. ASSUME NEW r \in Requests, PollAnswers(r) PROVE ModalInv'
  <2> DEFINE c == call[r]
  <2>1. c.step = "pollAnswer" /\ UNCHANGED <<paid, due>>
    BY <1>8 DEF PollAnswers, At
  <2>2. c \in Polls /\ c # idle
    BY <1>a, <2>1, PollTypes
  <2>3. c.pay \in Payments /\ c.status \in {"PENDING", "FAILED"} \cup Final
        /\ c.loose \in BOOLEAN /\ PollKnows(c, paid)
    BY <1>a, <2>1, <2>2 DEF Polls
  <2>4. CASE c.status \in Final
    <3>1. /\ modal' = IF modal.pay = c.pay THEN [modal EXCEPT !.shows = c.status] ELSE modal
          /\ call' = [call EXCEPT ![r] = idle]
      BY <1>8, <2>4 DEF PollAnswers, Finish
    <3>2. /\ call' \in [Requests -> {idle} \cup Polls] /\ call'[r] = idle
          /\ \A q \in Requests : q # r => call'[q] = call[q]
      BY <1>a, <3>1
    <3>3. CASE modal.pay = c.pay
      <4>1. /\ modal' \in [pay : Payments \cup {NoPayment}, shows : {"PENDING"} \cup Final]
            /\ modal'.pay = c.pay /\ modal'.shows = c.status
        BY <1>a, <2>4, <3>1, <3>3
      <4>2. modal'.pay # NoPayment
        BY <2>3, <4>1, ModalAssumption
      <4>3. modal'.shows \in FinalAnswers => paid[modal'.pay] = modal'.shows
        BY <2>1, <2>2, <2>3, <4>1 DEF PollKnows
      <4>4. \A q \in Requests : call'[q] # idle => call'[q].pay # c.pay
        BY <1>a, <2>2, <3>2
      <4>5. \A q \in Requests : call'[q] = idle \/ call'[q] = call[q]
        BY <3>2
      <4> HIDE DEF c
      <4> QED BY <2>1, <3>2, <4>1, <4>2, <4>3, <4>4, <4>5, PollsEnd
    <3>4. CASE modal.pay # c.pay
      <4>1. modal' = modal
        BY <3>1, <3>4
      <4>2. \A q \in Requests : call'[q] = idle \/ (call'[q] = call[q] /\ call[q] # idle)
        BY <3>2
      <4>3. modal.shows \in FinalAnswers => \A q \in Requests : call'[q] # idle => call'[q].pay # modal.pay
        BY <1>a, <4>2
      <4> HIDE DEF c
      <4> QED BY <1>a, <2>1, <3>2, <4>1, <4>2, <4>3, PollsEnd DEF Shows
    <3> QED BY <3>3, <3>4
  <2>5. CASE c.status \notin Final
    <3> DEFINE d == [step |-> "timer", pay |-> c.pay, loose |-> c.loose]
    <3>1. call' = [call EXCEPT ![r] = d] /\ UNCHANGED modal
      BY <1>8, <2>5 DEF PollAnswers, Become
    <3>2. d \in Polls /\ d.pay = c.pay /\ d.step = "timer"
      BY <2>3 DEF Polls
    <3> HIDE DEF d
    <3>3. PollKnows(d, paid')
      BY <2>1, <2>2, <2>3, <3>2 DEF PollKnows
    <3> QED BY <1>a, <2>1, <2>2, <3>1, <3>2, <3>3, PollMoves
  <2> QED BY <2>4, <2>5
<1>9. ASSUME NEW p \in Payments, PaymentDue(p) PROVE ModalInv'
  <2>1. due' \subseteq Payments /\ UNCHANGED <<paid, modal, call>>
    BY <1>9, <1>a DEF PaymentDue
  <2> QED BY <1>a, <2>1, ShowsTruth DEF ModalInv, ModalTypeOK
<1>10. ASSUME NEW p \in Payments, WorkerExpires(p) \/ WebhookPays(p) PROVE ModalInv'
  <2>1. /\ UNCHANGED <<due, modal, call>>
        /\ \E st \in {"SUCCESS", "FAILED", "EXPIRED", "LATE_PAYMENT"} : paid' = [paid EXCEPT ![p] = st]
        /\ paid[p] \in {"PENDING", "FAILED", "EXPIRED"}
    BY <1>10 DEF WorkerExpires, WebhookPays, SetPaid
  <2>2. paid[p] \notin FinalAnswers
    BY <2>1 DEF FinalAnswers
  <2> QED BY <1>a, <1>d, <2>1, <2>2
<1>11. CASE UNCHANGED modalVars
  BY <1>11, <1>a, ShowsTruth DEF modalVars, ModalInv, ModalTypeOK
<1> QED BY <1>1, <1>2, <1>3, <1>4, <1>5, <1>6, <1>7, <1>8, <1>9, <1>10, <1>11
        DEF ModalNext, PollSteps

(* What the window says of the end of a payment is so, whatever the polls   *)
(* that are still on their way bring.                                       *)
THEOREM ModalTellsTheTruthHolds == ModalSpec => []ModalTellsTheTruth
<1>1. ModalInv => ModalTellsTheTruth
  BY DEF ModalInv
<1> QED BY ModalInvInit, ModalInvStep, <1>1, PTL DEF ModalSpec
-----------------------------------------------------------------------------
(* Screens.  What every view of the table keeps to: a react-query hook is   *)
(* the only source of its view, which changes nothing; a form that stays    *)
(* loads nothing.                                                           *)
Coherent(v) ==
  /\ "query" \in v.load => v.change = "none" /\ "press" \notin v.load /\ "mount" \notin v.load
  /\ v.change = "stay" => v.load = {}
  /\ v.change \in {"none", "refetch", "typed", "leave", "stay"}

LEMMA FormsCoherent ==
  /\ Coherent(OnMount) /\ Coherent(ToastList) /\ Coherent(OwnRows) /\ Coherent(Query)
  /\ Coherent(Form("leave")) /\ Coherent(Form("stay"))
  /\ Coherent(NoLoad(ToastList)) /\ Coherent(NoLoad(OwnRows)) /\ Coherent(NoLoad(Query))
  /\ Coherent(NoLoad(Form("leave"))) /\ Coherent(NoLoad(Form("stay")))
<1>1. Coherent(OnMount)
  BY DEF Coherent, View, OnMount
<1>2. Coherent(ToastList)
  BY DEF Coherent, View, OnMount, ToastList
<1>3. Coherent(OwnRows)
  BY DEF Coherent, View, OnMount, OwnRows
<1>4. Coherent(Query)
  BY DEF Coherent, View, Query
<1>5. Coherent(Form("leave")) /\ Coherent(Form("stay"))
  BY DEF Coherent, View, Form
<1>6. Coherent(NoLoad(ToastList))
  BY DEF Coherent, View, OnMount, ToastList, NoLoad
<1>7. Coherent(NoLoad(OwnRows))
  BY DEF Coherent, View, OnMount, OwnRows, NoLoad
<1>8. Coherent(NoLoad(Query))
  BY DEF Coherent, View, Query, NoLoad
<1>9. Coherent(NoLoad(Form("leave"))) /\ Coherent(NoLoad(Form("stay")))
  BY DEF Coherent, View, Form, NoLoad
<1> QED BY <1>1, <1>2, <1>3, <1>4, <1>5, <1>6, <1>7, <1>8, <1>9

LEMMA PublicCoherent == \A v \in PublicViews : Coherent(v)
<1>1. Coherent(FlightStatus)
  BY DEF Coherent, View, FlightStatus
<1>2. Coherent(FlightResults)
  BY DEF Coherent, View, Query, FlightResults
<1> QED
  BY <1>1, <1>2, FormsCoherent, Zenon
  DEF PublicViews, BlogDetail, BoardingPass, DownloadTicket, CheckIn, ContactUs, Reservation,
      FlashSale, BlogPage, LatestBlogs, FaqPage, TourSearch, RecommendedTours,
      FeaturedDestinations, TripDetail, FlightDetail, AirportAutocomplete,
      DestinationAutocomplete

LEMMA AuthCoherent == \A v \in AuthViews : Coherent(v)
<1>1. Coherent(AdminLogin)
  BY DEF Coherent, View, Form, AdminLogin
<1> QED
  BY <1>1, FormsCoherent, Zenon
  DEF AuthViews, LoginPage, LoginModal, Register, ForgotPassword, ResetPassword, VerifyEmail,
      VerifyOTP

LEMMA UserCoherent == \A v \in UserViews : Coherent(v)
<1>1. Coherent(DeviceManagement)
  BY DEF Coherent, View, OnMount, OwnRows, DeviceManagement
<1>2. Coherent(ManageBooking)
  BY DEF Coherent, View, ManageBooking, NoLoad
<1>3. Coherent(NotificationView)
  BY DEF Coherent, View, OnMount, NotificationView, NoLoad
<1>4. Coherent(Security)
  BY DEF Coherent, View, OnMount, Security
<1> QED
  BY <1>1, <1>2, <1>3, <1>4, FormsCoherent, Zenon
  DEF UserViews, UserBookingDetail, BookingHistory, UserDashboard, LoginHistory, MembershipView,
      VoucherView, WishlistView, Profile, UserSettings, Feedback

LEMMA AdminCoherent == \A v \in AdminViews : Coherent(v)
<1>1. Coherent(AdminSettings) /\ Coherent(AirportList) /\ Coherent(Analytics)
  BY DEF Coherent, View, OnMount, AdminSettings, AirportList, Analytics
<1>2. Coherent(AuditLog) /\ Coherent(BookingEdit)
  BY DEF Coherent, View, OnMount, NoLoad, AuditLog, BookingEdit
<1>3. Coherent(FlightEdit) /\ Coherent(UserEdit)
  BY DEF Coherent, View, Form, FlightEdit, UserEdit
<1>4. Coherent(MediaLibrary) /\ Coherent(UserList) /\ Coherent(PaymentList)
  BY DEF Coherent, View, OnMount, MediaLibrary, UserList, PaymentList
<1>5. Coherent(PromoList)
  BY DEF Coherent, View, OnMount, ToastList, PromoList
<1> QED
  BY <1>1, <1>2, <1>3, <1>4, <1>5, FormsCoherent, Zenon
  DEF AdminViews, AdminDashboard, BlogList, BookingList, FlightCreate, FlightList, PromoCreate,
      PassengerReport, RevenueReport, TourCreate, TourList

LEMMA ViewsCoherent == \A v \in AllViews : Coherent(v)
BY AdminCoherent, UserCoherent, PublicCoherent, AuthCoherent, Zenon DEF AllViews

(* What a handler in flight knows: a load its turn, and what it may still   *)
(* show; a change the version it made.                                      *)
Knows(c) ==
  /\ c.step \in {"ask", "answer"} => c.n \in 1..asks /\ view.change # "stay"
  /\ c.step = "changed" => c.v <= world
  /\ c.step \in {"toast", "change", "changed"} => view.change # "none"
  /\ ~OnQuery /\ ~open /\ c # idle => c.gone
  /\ ~OnQuery /\ open /\ c.step \in {"ask", "answer"} /\ ~c.gone /\ c.n = asks
       => c.q = question \/ stale
  /\ c.step = "answer" /\ ~c.gone => (view.change = "typed" => c.v >= mine)
  /\ c.step = "answer" /\ ~c.gone /\ c.n = asks => (view.change = "refetch" => c.v >= mine)

(* What the rows on show are, when the newest load was answered last.       *)
ShownKnows ==
  /\ OnQuery /\ open /\ shown # Nothing => shown.q = question
  /\ ~OnQuery => \A q \in Questions : kept[q] = Nothing
  /\ ~OnQuery /\ open /\ shown # Nothing /\ last = asks => shown.q = question \/ stale
  /\ shown # Nothing => view.change # "stay"
  /\ view.change = "typed" /\ shown # Nothing => shown.v >= mine
  /\ view.change = "refetch" /\ open /\ shown # Nothing /\ last = asks => shown.v >= mine
  /\ view.change = "none" => mine = 0
  /\ view.change = "leave" /\ open => mine = 0

ScreenNumbers ==
  /\ view \in AllViews /\ open \in BOOLEAN /\ question \in Questions
  /\ shown \in Rows /\ kept \in [Questions -> Versions \cup {Nothing}]
  /\ world \in Versions /\ asks \in 0..MaxAsks /\ last \in 0..MaxAsks
  /\ mine \in Versions /\ stale \in BOOLEAN
  /\ last <= asks /\ mine <= world

ScreenInv ==
  /\ ScreenNumbers /\ ShownKnows
  /\ call \in [Requests -> ScreenCalls] /\ \A r \in Requests : Knows(call[r])

LEMMA ScreenBounds == MaxAsks \in Nat /\ MaxWorld \in Nat /\ Questions # {}
BY ScreensAssumption

LEMMA CallFields ==
  ASSUME NEW c \in ScreenCalls
  PROVE  /\ c = idle => c.step = "idle"
         /\ c.step \in {"idle", "ask", "answer", "toast", "change", "changed"}
         /\ c.step = "idle" => c = idle
         /\ c.step \in {"ask", "answer"}
              => c \in [step : {"ask", "answer"}, q : Questions, n : 1..MaxAsks, v : Versions,
                        gone : BOOLEAN]
         /\ c.step \in {"toast", "change", "changed"}
              => c \in [step : {"toast", "change", "changed"}, q : Questions, seen : 0..MaxAsks,
                        v : Versions, gone : BOOLEAN]
BY DEF ScreenCalls, idle

(* A handler that does not move still knows what it knew: when nothing it   *)
(* knows about moves, or when a newer load is asked for.                    *)
LEMMA KnowsStill ==
  ASSUME ScreenInv, NEW s \in Requests, call'[s] = call[s],
         UNCHANGED <<view, question, asks, mine, stale>>, open' = open,
         world' \in Versions, world <= world'
  PROVE  Knows(call[s])'
<1>1. Knows(call[s]) /\ call[s] \in ScreenCalls /\ world \in Nat /\ world' \in Nat
  BY DEF ScreenInv, ScreenNumbers, Versions
<1>2. call[s].step = "changed" => call[s].v \in Nat
  BY <1>1, CallFields, ScreenBounds DEF Versions
<1> QED BY <1>1, <1>2 DEF Knows, OnQuery

LEMMA KnowsOlder ==
  ASSUME ScreenInv, NEW s \in Requests, call'[s] = call[s],
         UNCHANGED <<view, world>>, asks' = asks + 1, open => open',
         mine' \in Versions, view.change = "typed" => mine' <= mine
  PROVE  Knows(call[s])'
<1>1. /\ Knows(call[s]) /\ call[s] \in ScreenCalls /\ asks \in Nat /\ mine \in Nat
      /\ mine' \in Nat
  BY DEF ScreenInv, ScreenNumbers, Versions
<1>2. call[s].step \in {"ask", "answer"} => call[s].n \in 1..asks /\ call[s].v \in Nat
  BY <1>1, CallFields, ScreenBounds DEF Versions, Knows
<1>3. call[s].step \in {"ask", "answer"} => call[s].n \in 1..asks' /\ call[s].n # asks'
  BY <1>1, <1>2
<1>4. call[s].step = "answer" /\ view.change = "typed" /\ ~call[s].gone => call[s].v >= mine'
  BY <1>1, <1>2 DEF Knows
<1> QED BY <1>1, <1>3, <1>4 DEF Knows, OnQuery

LEMMA CallMoves ==
  ASSUME ScreenInv, NEW r \in Requests, NEW c \in ScreenCalls, Become(r, c)
  PROVE  /\ call' \in [Requests -> ScreenCalls] /\ call'[r] = c
         /\ \A s \in Requests : s # r => call'[s] = call[s]
BY DEF ScreenInv, Become

(* A step of one handler that touches no state of the view.                 *)
LEMMA HandlerAlone ==
  ASSUME ScreenInv, NEW r \in Requests, NEW c \in ScreenCalls, Become(r, c),
         UNCHANGED <<view, screen, asks>>, world' \in Versions, world <= world',
         call'[r] = c => Knows(call[r])'
  PROVE  ScreenInv'
<1>1. /\ call' \in [Requests -> ScreenCalls] /\ call'[r] = c
      /\ \A s \in Requests : s # r => call'[s] = call[s]
  BY CallMoves
<1>2. \A s \in Requests : Knows(call[s])'
  <2>1. ASSUME NEW s \in Requests, s # r PROVE Knows(call[s])'
    BY <1>1, <2>1, KnowsStill DEF screen
  <2> QED BY <1>1, <2>1
<1>3. ScreenNumbers'
  <2>1. world \in Nat /\ world' \in Nat /\ mine \in Nat
    BY DEF ScreenInv, ScreenNumbers, Versions
  <2> QED BY <2>1 DEF ScreenInv, ScreenNumbers, screen
<1>4. ShownKnows'
  BY DEF ScreenInv, ShownKnows, screen, OnQuery
<1> QED BY <1>1, <1>2, <1>3, <1>4 DEF ScreenInv

(* A step that asks again, for what the user wants now or by an old closure.*)
LEMMA AsksAgain ==
  ASSUME ScreenInv, NEW r \in Requests, NEW q \in Questions, Become(r, NewAsk(q)),
         asks < MaxAsks, asks' = asks + 1, UNCHANGED <<view, world>>, view.change # "stay",
         open', q = question' \/ stale',
         mine' \in Versions, view.change = "typed" => mine' <= mine,
         ScreenNumbers', ShownKnows'
  PROVE  ScreenInv'
<1>1. asks \in Nat /\ asks' \in 1..MaxAsks
  BY ScreenBounds DEF ScreenInv, ScreenNumbers
<1>2. NewAsk(q) \in ScreenCalls
  <2>1. 0 \in Versions /\ asks + 1 \in 1..MaxAsks
    BY <1>1, ScreenBounds DEF Versions
  <2> QED BY <2>1 DEF NewAsk, ScreenCalls
<1>3. /\ call' \in [Requests -> ScreenCalls] /\ call'[r] = NewAsk(q)
      /\ \A s \in Requests : s # r => call'[s] = call[s]
  BY <1>2, CallMoves
<1>4. Knows(call[r])'
  <2>1. /\ call'[r].step = "ask" /\ call'[r].n = asks' /\ call'[r].q = q
    BY <1>3 DEF NewAsk
  <2> QED BY <1>1, <2>1 DEF Knows, OnQuery
<1>5. ASSUME NEW s \in Requests, s # r PROVE Knows(call[s])'
  BY <1>3, <1>5, KnowsOlder
<1> QED BY <1>3, <1>4, <1>5 DEF ScreenInv

(* What a step that changes the view leaves of the handlers.                *)
LEMMA ScreenInvInit == ScreenInit => ScreenInv
<1> SUFFICES ASSUME ScreenInit PROVE ScreenInv
  OBVIOUS
<1>1. 0 \in Versions /\ 0 \in 0..MaxAsks
  BY ScreenBounds DEF Versions
<1>2. question \in Questions
  BY ScreenBounds, Zenon DEF ScreenInit
<1>a. /\ view \in AllViews /\ open = FALSE /\ shown = Nothing /\ world = 0 /\ asks = 0 /\ last = 0
      /\ mine = 0 /\ stale = FALSE /\ kept = [q \in Questions |-> Nothing]
  BY Zenon DEF ScreenInit
<1>3. ScreenNumbers
  <2>1. kept \in [Questions -> Versions \cup {Nothing}]
    BY <1>a
  <2>2. Nothing \in Rows
    BY DEF Rows
  <2>3. last <= asks /\ mine <= world
    BY <1>a
  <2> QED BY <1>1, <1>2, <1>a, <2>1, <2>2, <2>3, Zenon DEF ScreenNumbers
<1>4. ShownKnows
  BY <1>1 DEF ScreenInit, ShownKnows
<1>5. idle \in ScreenCalls /\ idle.step = "idle"
  BY DEF ScreenCalls, idle
<1>6. \A r \in Requests : Knows(call[r])
  BY <1>5 DEF ScreenInit, Knows
<1> QED BY <1>3, <1>4, <1>5, <1>6 DEF ScreenInit, ScreenInv

LEMMA OpensScreen ==
  ASSUME ScreenInv, NEW r \in Requests, NEW q \in Questions, OpenScreen(r, q)
  PROVE  ScreenInv'
<1>1. /\ ~open /\ open' = TRUE /\ question' = q /\ mine' = 0 /\ last' = 0 /\ stale' = FALSE
      /\ shown' = KeptRows(q) /\ UNCHANGED <<view, kept, world>>
  BY DEF OpenScreen
<1>2. Coherent(view) /\ ScreenNumbers /\ ShownKnows
  BY ViewsCoherent DEF ScreenInv, ScreenNumbers
<1>3. shown' = Nothing \/ (OnQuery /\ shown'.q = q /\ shown' \in Rows)
  <2>1. kept[q] \in Versions \cup {Nothing}
    BY <1>2 DEF ScreenNumbers
  <2>2. ~OnQuery => kept[q] = Nothing
    BY <1>2 DEF ShownKnows
  <2>3. kept[q] # Nothing => [q |-> q, v |-> kept[q]] \in Rows
    BY <2>1 DEF Rows
  <2> QED BY <1>1, <2>1, <2>2, <2>3 DEF KeptRows
<1>4. ASSUME asks' \in 0..MaxAsks PROVE ScreenNumbers'
  <2>1. 0 \in Versions /\ 0 \in 0..MaxAsks
    BY ScreenBounds DEF Versions
  <2>2. world' \in Versions /\ world' \in Nat
    BY <1>1, <1>2 DEF ScreenNumbers, Versions
  <2>3. last' <= asks' /\ mine' <= world'
    BY <1>1, <1>4, <2>2
  <2>4. shown' \in Rows
    BY <1>3 DEF Rows
  <2>5. view' \in AllViews /\ kept' \in [Questions -> Versions \cup {Nothing}]
    BY <1>1, <1>2 DEF ScreenNumbers
  <2> QED BY <1>1, <1>4, <2>1, <2>2, <2>3, <2>4, <2>5 DEF ScreenNumbers
<1>5. ShownKnows'
  <2>1. shown' # Nothing => shown'.q = q /\ OnQuery
    BY <1>3
  <2>2. OnQuery => view.change = "none"
    BY <1>2 DEF Coherent, OnQuery
  <2> QED BY <1>1, <1>2, <2>1, <2>2 DEF ShownKnows, OnQuery
<1>6. CASE asks < MaxAsks /\ asks' = asks + 1 /\ Start(r, NewAsk(q)) /\ view.change # "stay"
  <2>1. Become(r, NewAsk(q)) /\ asks' \in 0..MaxAsks
    BY <1>2, <1>6, ScreenBounds DEF ScreenNumbers, Start, Become
  <2>2. mine' \in Versions /\ mine' <= mine
    BY <1>1, <1>2, ScreenBounds DEF ScreenNumbers, Versions
  <2> QED BY <1>1, <1>4, <1>5, <1>6, <2>1, <2>2, AsksAgain
<1>7. CASE UNCHANGED <<asks, call>>
  <2>1. ASSUME NEW s \in Requests PROVE Knows(call[s])'
    <3>1. Knows(call[s]) /\ call[s] \in ScreenCalls /\ call'[s] = call[s]
      BY <1>7 DEF ScreenInv
    <3>2. call[s].step = "answer" => call[s].v \in Nat
      BY <3>1, CallFields DEF Versions
    <3>3. ~OnQuery => call[s].step = "idle" \/ call[s].gone
      BY <1>1, <3>1, CallFields DEF Knows
    <3>4. OnQuery => view.change = "none"
      BY <1>2 DEF Coherent, OnQuery
    <3> QED BY <1>1, <1>7, <3>1, <3>2, <3>3, <3>4 DEF Knows, OnQuery
  <2>2. asks' \in 0..MaxAsks
    BY <1>2, <1>7 DEF ScreenNumbers
  <2> QED BY <1>4, <1>5, <1>7, <2>1, <2>2 DEF ScreenInv
<1>8. \/ asks < MaxAsks /\ asks' = asks + 1 /\ Start(r, NewAsk(q)) /\ view.change # "stay"
      \/ UNCHANGED <<asks, call>>
  <2>1. "mount" \in view.load \/ OnQuery => view.change # "stay"
    BY <1>2 DEF Coherent, OnQuery
  <2> QED BY <2>1 DEF OpenScreen, Ask, QueryAsk
<1> QED BY <1>6, <1>7, <1>8

LEMMA SetsParam ==
  ASSUME ScreenInv, NEW r \in Requests, NEW q \in Questions, SetParam(r, q)
  PROVE  ScreenInv'
<1>1. /\ open /\ "param" \in view.load /\ question' = q /\ stale' = FALSE
      /\ UNCHANGED <<view, open, kept, world, last, mine>>
      /\ shown' = (IF OnQuery THEN KeptRows(q) ELSE shown)
  BY DEF SetParam
<1>2. Coherent(view) /\ ScreenNumbers /\ ShownKnows
  BY ViewsCoherent DEF ScreenInv, ScreenNumbers
<1>3. view.change # "stay"
  BY <1>1, <1>2 DEF Coherent
<1>4. /\ ~OnQuery => shown' = shown
      /\ OnQuery => shown' = Nothing \/ (shown'.q = q /\ shown' \in Rows)
  <2>1. kept[q] \in Versions \cup {Nothing}
    BY <1>2 DEF ScreenNumbers
  <2>2. kept[q] # Nothing => [q |-> q, v |-> kept[q]] \in Rows
    BY <2>1 DEF Rows
  <2> QED BY <1>1, <2>2 DEF KeptRows
<1>5. shown' \in Rows
  BY <1>2, <1>4 DEF ScreenNumbers, Rows
<1>6. CASE asks < MaxAsks /\ asks' = asks + 1 /\ Start(r, NewAsk(q))
  <2>1. asks \in Nat /\ last \in Nat /\ last < asks' /\ asks' \in 0..MaxAsks
    BY <1>2, <1>6, ScreenBounds DEF ScreenNumbers
  <2>2. ScreenNumbers'
    <3>1. last' <= asks' /\ mine' <= world'
      BY <1>1, <1>2, <2>1 DEF ScreenNumbers
    <3> QED BY <1>1, <1>2, <1>5, <2>1, <3>1 DEF ScreenNumbers
  <2>3. ShownKnows'
    <3>1. OnQuery => view.change = "none"
      BY <1>2 DEF Coherent, OnQuery
    <3>2. last' # asks'
      BY <1>1, <2>1
    <3> QED BY <1>1, <1>2, <1>3, <1>4, <3>1, <3>2 DEF ShownKnows, OnQuery
  <2>4. mine' \in Versions /\ mine' <= mine
    BY <1>1, <1>2, ScreenBounds DEF ScreenNumbers, Versions
  <2> QED BY <1>1, <1>3, <1>6, <2>2, <2>3, <2>4, AsksAgain DEF Start, Become
<1>7. CASE OnQuery /\ UNCHANGED <<asks, call>>
  <2>1. view.change = "none"
    BY <1>2, <1>7 DEF Coherent, OnQuery
  <2>2. ScreenNumbers'
    BY <1>1, <1>2, <1>5, <1>7 DEF ScreenNumbers
  <2>3. ShownKnows'
    BY <1>1, <1>2, <1>4, <1>7, <2>1 DEF ShownKnows, OnQuery
  <2>4. ASSUME NEW s \in Requests PROVE Knows(call[s])'
    BY <1>1, <1>7, <2>1 DEF ScreenInv, Knows, OnQuery
  <2> QED BY <1>7, <2>2, <2>3, <2>4 DEF ScreenInv
<1>8. \/ asks < MaxAsks /\ asks' = asks + 1 /\ Start(r, NewAsk(q))
      \/ OnQuery /\ UNCHANGED <<asks, call>>
  BY DEF SetParam, Ask, QueryAsk
<1> QED BY <1>6, <1>7, <1>8

LEMMA Presses ==
  ASSUME ScreenInv, NEW r \in Requests, NEW q \in Questions, Press(r, q)
  PROVE  ScreenInv'
<1>1. /\ open /\ "press" \in view.load /\ question' = q /\ stale' = FALSE
      /\ asks < MaxAsks /\ asks' = asks + 1 /\ Start(r, NewAsk(q))
      /\ shown' = Nothing \/ shown' = shown
      /\ UNCHANGED <<view, open, kept, world, last, mine>>
  BY DEF Press, Ask
<1>2. Coherent(view) /\ ScreenNumbers /\ ShownKnows
  BY ViewsCoherent DEF ScreenInv, ScreenNumbers
<1>3. view.change # "stay" /\ ~OnQuery
  BY <1>1, <1>2 DEF Coherent, OnQuery
<1>4. asks \in Nat /\ last \in Nat /\ last < asks' /\ asks' \in 0..MaxAsks
  BY <1>1, <1>2, ScreenBounds DEF ScreenNumbers
<1>5. ScreenNumbers'
  <2>1. last' <= asks' /\ mine' <= world'
    BY <1>1, <1>2, <1>4 DEF ScreenNumbers
  <2>2. shown' \in Rows
    BY <1>1, <1>2 DEF ScreenNumbers, Rows
  <2> QED BY <1>1, <1>2, <1>4, <2>1, <2>2 DEF ScreenNumbers
<1>6. ShownKnows'
  <2>1. last' # asks'
    BY <1>1, <1>4
  <2> QED BY <1>1, <1>2, <1>3, <2>1 DEF ShownKnows, OnQuery
<1>7. mine' \in Versions /\ mine' <= mine
  BY <1>1, <1>2, ScreenBounds DEF ScreenNumbers, Versions
<1> QED BY <1>1, <1>3, <1>5, <1>6, <1>7, AsksAgain DEF Start, Become

(* A handler that is done, and one that has read or changed the rows.       *)
LEMMA IdleKnows ==
  ASSUME ScreenInv, NEW r \in Requests, call'[r] = idle
  PROVE  idle \in ScreenCalls /\ Knows(call[r])'
BY DEF ScreenCalls, Knows, idle

LEMMA ReadsRows ==
  ASSUME ScreenInv, NEW r \in Requests, ReadRows(r)
  PROVE  ScreenInv'
<1> DEFINE c == [call[r] EXCEPT !.step = "answer", !.v = world]
<1>1. At(r, "ask") /\ Become(r, c) /\ UNCHANGED <<view, screen, world, asks>>
  BY DEF ReadRows
<1>2. Knows(call[r]) /\ call[r] \in ScreenCalls /\ ScreenNumbers
  BY DEF ScreenInv
<1>3. call[r] \in [step : {"ask", "answer"}, q : Questions, n : 1..MaxAsks, v : Versions,
                   gone : BOOLEAN] /\ call[r].step = "ask"
  BY <1>1, <1>2, CallFields DEF At
<1>4. c = [step |-> "answer", q |-> call[r].q, n |-> call[r].n, v |-> world, gone |-> call[r].gone]
  <2> DEFINE one == [call[r] EXCEPT !.step = "answer"]
  <2>1. one = [step |-> "answer", q |-> call[r].q, n |-> call[r].n, v |-> call[r].v,
               gone |-> call[r].gone]
    BY <1>3
  <2>2. c = [one EXCEPT !.v = world]
    OBVIOUS
  <2> HIDE DEF one, c
  <2> QED BY <2>1, <2>2
<1> HIDE DEF c
<1>5. c \in ScreenCalls
  BY <1>2, <1>3, <1>4 DEF ScreenCalls, ScreenNumbers
<1>6. ASSUME call'[r] = c PROVE Knows(call[r])'
  <2>1. /\ c.step = "answer" /\ c.q = call[r].q /\ c.n = call[r].n /\ c.v = world
        /\ c.gone = call[r].gone /\ c # idle
    BY <1>4 DEF idle
  <2>2. mine <= world /\ call[r] # idle
    BY <1>2, <1>3 DEF ScreenNumbers, idle
  <2>3. mine' = mine /\ world' = world /\ world >= mine
    BY <1>1, <1>2, <2>2, ScreenBounds DEF screen, ScreenNumbers, Versions
  <2> QED BY <1>1, <1>2, <1>3, <1>6, <2>1, <2>2, <2>3 DEF Knows, OnQuery, screen
<1>7. world' \in Versions /\ world <= world'
  BY <1>1, <1>2 DEF ScreenNumbers, Versions
<1> QED BY <1>1, <1>5, <1>6, <1>7, HandlerAlone

LEMMA ShowsAnswer ==
  ASSUME ScreenInv, NEW r \in Requests, ShowAnswer(r)
  PROVE  ScreenInv'
<1> DEFINE c == call[r]
<1>1. /\ c.step = "answer" /\ Become(r, idle)
      /\ kept' = (IF OnQuery THEN [kept EXCEPT ![c.q] = c.v] ELSE kept)
      /\ \/ /\ open /\ ~c.gone /\ (OnQuery => c.q = question)
            /\ shown' = [q |-> c.q, v |-> c.v] /\ last' = c.n
         \/ UNCHANGED <<shown, last>>
      /\ UNCHANGED <<view, open, question, world, asks, mine, stale>>
  BY DEF ShowAnswer, At, Finish, Become
<1>2. Coherent(view) /\ ScreenNumbers /\ ShownKnows /\ Knows(c) /\ c \in ScreenCalls
  BY ViewsCoherent DEF ScreenInv, ScreenNumbers
<1>3. /\ c.q \in Questions /\ c.v \in Versions /\ c.n \in 1..MaxAsks /\ c.n \in 1..asks
  BY <1>1, <1>2, CallFields DEF Knows
<1>4. /\ call' \in [Requests -> ScreenCalls] /\ call'[r] = idle
      /\ \A s \in Requests : s # r => call'[s] = call[s]
  BY <1>1, CallMoves DEF ScreenCalls
<1>5. ASSUME NEW s \in Requests PROVE Knows(call[s])'
  <2>1. world' \in Versions /\ world <= world'
    BY <1>1, <1>2 DEF ScreenNumbers, Versions
  <2>2. CASE s # r
    BY <1>1, <1>4, <2>1, <2>2, KnowsStill
  <2> QED BY <1>4, <2>2, IdleKnows
<1> HIDE DEF c
<1>6. kept' \in [Questions -> Versions \cup {Nothing}]
  BY <1>1, <1>2, <1>3 DEF ScreenNumbers
<1>7. CASE UNCHANGED <<shown, last>>
  <2>1. ScreenNumbers'
    BY <1>1, <1>2, <1>6, <1>7 DEF ScreenNumbers
  <2>2. ShownKnows'
    BY <1>1, <1>2, <1>7 DEF ShownKnows, OnQuery
  <2> QED BY <1>4, <1>5, <2>1, <2>2 DEF ScreenInv
<1>8. CASE /\ open /\ ~c.gone /\ (OnQuery => c.q = question)
           /\ shown' = [q |-> c.q, v |-> c.v] /\ last' = c.n
  <2>1. shown' \in Rows /\ shown'.q = c.q /\ shown'.v = c.v
    BY <1>3, <1>8 DEF Rows
  <2>2. last' \in 0..MaxAsks /\ last' <= asks'
    BY <1>1, <1>2, <1>3, <1>8, ScreenBounds DEF ScreenNumbers
  <2>3. ScreenNumbers'
    BY <1>1, <1>2, <1>6, <2>1, <2>2 DEF ScreenNumbers
  <2>4. ShownKnows'
    BY <1>1, <1>2, <1>8, <2>1 DEF ShownKnows, Knows, OnQuery
  <2> QED BY <1>4, <1>5, <2>3, <2>4 DEF ScreenInv
<1> QED BY <1>1, <1>7, <1>8

(* When the view goes, what its own handlers asked belongs to nobody.       *)
LEMMA AllKnowGone ==
  ASSUME ScreenInv, NEW r \in Requests, UNCHANGED <<view, world, asks>>, open' = FALSE,
         call' = AllGone \/ call' = [AllGone EXCEPT ![r] = idle]
  PROVE  call' \in [Requests -> ScreenCalls] /\ \A s \in Requests : Knows(call[s])'
<1>1. call \in [Requests -> ScreenCalls] /\ Coherent(view) /\ ScreenNumbers
  BY ViewsCoherent DEF ScreenInv, ScreenNumbers
<1>2. ASSUME NEW c \in ScreenCalls
      PROVE  /\ Gone(c) \in ScreenCalls
             /\ Gone(c).step = c.step /\ (c = idle <=> Gone(c) = idle)
             /\ c.step \in {"ask", "answer"} => Gone(c).n = c.n
             /\ c.step = "changed" => Gone(c).v = c.v
             /\ ~OnQuery /\ c # idle => Gone(c).gone
  <2>1. CASE c = idle \/ OnQuery
    BY <2>1 DEF Gone
  <2>2. CASE ~(c = idle \/ OnQuery)
    <3> DEFINE d == [c EXCEPT !.gone = TRUE]
    <3>1. Gone(c) = d
      BY <2>2 DEF Gone
    <3>2. CASE c.step \in {"ask", "answer"}
      <4>1. c \in [step : {"ask", "answer"}, q : Questions, n : 1..MaxAsks, v : Versions,
                   gone : BOOLEAN]
        BY <3>2, CallFields
      <4>2. /\ d \in [step : {"ask", "answer"}, q : Questions, n : 1..MaxAsks, v : Versions,
                      gone : BOOLEAN]
            /\ d.step = c.step /\ d.n = c.n /\ d.gone = TRUE
        BY <4>1
      <4> HIDE DEF d
      <4>3. d \in ScreenCalls /\ d # idle
        BY <4>1, <4>2 DEF ScreenCalls, idle
      <4> QED BY <2>2, <3>1, <3>2, <4>2, <4>3
    <3>3. CASE c.step \in {"toast", "change", "changed"}
      <4>1. c \in [step : {"toast", "change", "changed"}, q : Questions, seen : 0..MaxAsks,
                   v : Versions, gone : BOOLEAN]
        BY <3>3, CallFields
      <4>2. /\ d \in [step : {"toast", "change", "changed"}, q : Questions, seen : 0..MaxAsks,
                      v : Versions, gone : BOOLEAN]
            /\ d.step = c.step /\ d.v = c.v /\ d.gone = TRUE
        BY <4>1
      <4> HIDE DEF d
      <4>3. d \in ScreenCalls /\ d # idle
        BY <4>1, <4>2 DEF ScreenCalls, idle
      <4> QED BY <2>2, <3>1, <3>3, <4>2, <4>3
    <3>4. c.step \in {"ask", "answer"} \/ c.step \in {"toast", "change", "changed"}
      BY <2>2, CallFields
    <3> QED BY <3>2, <3>3, <3>4
  <2> QED BY <2>1, <2>2
<1>3. AllGone \in [Requests -> ScreenCalls] /\ idle \in ScreenCalls
  BY <1>1, <1>2, Zenon DEF AllGone, ScreenCalls
<1>4. call' \in [Requests -> ScreenCalls]
  BY <1>3
<1>5. ASSUME NEW s \in Requests PROVE call'[s] = Gone(call[s]) \/ call'[s] = idle
  BY <1>1, <1>3 DEF AllGone
<1>6. ASSUME NEW s \in Requests PROVE Knows(call[s])'
  <2>1. CASE call'[s] = idle
    BY <2>1, IdleKnows
  <2>2. CASE call'[s] = Gone(call[s]) /\ OnQuery
    <3>1. call'[s] = call[s] /\ view.change = "none"
      BY <1>1, <2>2 DEF Gone, Coherent, OnQuery
    <3> QED BY <2>2, <3>1 DEF ScreenInv, Knows, OnQuery
  <2>3. CASE call'[s] = Gone(call[s]) /\ ~OnQuery
    <3>1. call[s] \in ScreenCalls /\ Knows(call[s])
      BY <1>1 DEF ScreenInv
    <3>2. call'[s] # idle => call'[s].gone
      BY <1>2, <2>3, <3>1
    <3>3. /\ call'[s].step = call[s].step
          /\ call[s].step \in {"ask", "answer"} => call'[s].n = call[s].n
          /\ call[s].step = "changed" => call'[s].v = call[s].v
      BY <1>2, <2>3, <3>1
    <3>4. call'[s] = idle \/ call'[s].gone
      BY <3>2
    <3>5. CASE call'[s].gone
      BY <3>1, <3>3, <3>5 DEF Knows, OnQuery
    <3> QED BY <2>1, <3>4, <3>5
  <2> QED BY <1>5, <2>1, <2>2, <2>3
<1> QED BY <1>4, <1>6

LEMMA Leaves == ASSUME ScreenInv, LeaveScreen PROVE ScreenInv'
<1>1. /\ open' = FALSE /\ call' = AllGone
      /\ UNCHANGED <<view, question, shown, kept, world, asks, last, mine, stale>>
  BY DEF LeaveScreen
<1>2. PICK r \in Requests : TRUE
  BY HandlersAssumption
<1>3. call' \in [Requests -> ScreenCalls] /\ \A s \in Requests : Knows(call[s])'
  BY <1>1, AllKnowGone
<1>4. ScreenNumbers'
  BY <1>1 DEF ScreenInv, ScreenNumbers
<1>5. ShownKnows'
  BY <1>1 DEF ScreenInv, ShownKnows, OnQuery
<1> QED BY <1>3, <1>4, <1>5 DEF ScreenInv

LEMMA FailsToLoad ==
  ASSUME ScreenInv, NEW r \in Requests, LoadFails(r)
  PROVE  ScreenInv'
<1> DEFINE c == call[r]
<1>1. /\ c.step \in {"ask", "answer"}
      /\ \/ open' = FALSE /\ call' = [AllGone EXCEPT ![r] = idle]
         \/ open' = open /\ Become(r, idle)
      /\ shown' = Nothing \/ shown' = shown
      /\ last' = last \/ last' = 0
      /\ UNCHANGED <<view, question, kept, world, asks, mine, stale>>
  BY DEF LoadFails, Finish, Become
<1>2. ScreenNumbers /\ ShownKnows /\ c \in ScreenCalls /\ Knows(c)
  BY DEF ScreenInv
<1>3. asks >= 1 /\ asks \in Nat
  BY <1>1, <1>2, ScreenBounds DEF Knows, ScreenNumbers
<1>4. call' \in [Requests -> ScreenCalls] /\ \A s \in Requests : Knows(call[s])'
  <2>1. CASE open' = FALSE /\ call' = [AllGone EXCEPT ![r] = idle]
    BY <1>1, <2>1, AllKnowGone
  <2>2. CASE open' = open /\ Become(r, idle)
    <3>1. /\ call' \in [Requests -> ScreenCalls] /\ call'[r] = idle
          /\ \A s \in Requests : s # r => call'[s] = call[s]
      BY <2>2, CallMoves DEF ScreenCalls
    <3>2. world' \in Versions /\ world <= world'
      BY <1>1, <1>2 DEF ScreenNumbers, Versions
    <3>3. ASSUME NEW s \in Requests, s # r PROVE Knows(call[s])'
      BY <1>1, <2>2, <3>1, <3>2, <3>3, KnowsStill
    <3> QED BY <3>1, <3>3, IdleKnows
  <2> QED BY <1>1, <2>1, <2>2
<1>5. ScreenNumbers'
  <2>1. last' \in 0..MaxAsks /\ last' <= asks'
    BY <1>1, <1>2, <1>3, ScreenBounds DEF ScreenNumbers
  <2>2. shown' \in Rows /\ open' \in BOOLEAN
    BY <1>1, <1>2 DEF ScreenNumbers, Rows
  <2> QED BY <1>1, <1>2, <2>1, <2>2 DEF ScreenNumbers
<1>6. ShownKnows'
  <2>1. open' => open
    BY <1>1
  <2>2. shown' # Nothing => shown' = shown
    BY <1>1
  <2>3. last' = asks' => last = asks
    BY <1>1, <1>3
  <2> QED BY <1>1, <1>2, <2>1, <2>2, <2>3 DEF ShownKnows, OnQuery
<1> QED BY <1>4, <1>5, <1>6 DEF ScreenInv

(* The handler of a change, until it is acknowledged.                       *)
LEMMA ChangeKnows ==
  ASSUME ScreenInv, NEW r \in Requests, NEW c \in ScreenCalls, Become(r, c),
         UNCHANGED <<view, screen, asks>>, world' \in Versions, world <= world',
         c.step \in {"toast", "change", "changed"}, view.change # "none",
         c.step = "changed" => c.v <= world',
         c.gone \/ open
  PROVE  ScreenInv'
<1>1. ASSUME call'[r] = c PROVE Knows(call[r])'
  BY <1>1 DEF Knows, OnQuery, screen
<1> QED BY <1>1, HandlerAlone

LEMMA IdleAgain ==
  ASSUME ScreenInv, NEW r \in Requests, Become(r, idle), UNCHANGED <<view, screen, world, asks>>
  PROVE  ScreenInv'
<1>1. world' \in Versions /\ world <= world'
  BY DEF ScreenInv, ScreenNumbers, Versions
<1>2. idle \in ScreenCalls
  BY DEF ScreenCalls
<1>3. call'[r] = idle => Knows(call[r])'
  BY IdleKnows
<1> QED BY <1>1, <1>2, <1>3, HandlerAlone

LEMMA Changes ==
  ASSUME ScreenInv, NEW r \in Requests, Change(r)
  PROVE  ScreenInv'
<1> DEFINE st == IF view.toast THEN "toast" ELSE "change"
           c == [step |-> st, q |-> question, seen |-> last, v |-> 0, gone |-> FALSE]
<1>1. /\ open /\ view.change # "none" /\ Become(r, c)
      /\ UNCHANGED <<view, screen, world, asks>>
  BY DEF Change, Start, Become
<1>2. st \in {"toast", "change"}
  OBVIOUS
<1> HIDE DEF st
<1>3. question \in Questions /\ 0 \in Versions /\ last \in 0..MaxAsks
  BY ScreenBounds DEF ScreenInv, ScreenNumbers, Versions
<1>4. c \in ScreenCalls /\ c.step = st
  BY <1>2, <1>3 DEF ScreenCalls
<1> HIDE DEF c
<1>5. world' \in Versions /\ world <= world'
  BY <1>1 DEF ScreenInv, ScreenNumbers, Versions
<1> QED BY <1>1, <1>2, <1>4, <1>5, ChangeKnows

LEMMA Confirms ==
  ASSUME ScreenInv, NEW r \in Requests, Confirm(r)
  PROVE  ScreenInv'
<1> DEFINE c == [call[r] EXCEPT !.step = "change"]
<1>1. call[r].step = "toast" /\ Become(r, c) /\ UNCHANGED <<view, screen, world, asks>>
  BY DEF Confirm, GoTo, Become, At, ScreenInv
<1>2. ScreenNumbers /\ Knows(call[r]) /\ call[r] \in ScreenCalls /\ Coherent(view)
  BY ViewsCoherent DEF ScreenInv, ScreenNumbers
<1>3. call[r] \in [step : {"toast", "change", "changed"}, q : Questions, seen : 0..MaxAsks,
                   v : Versions, gone : BOOLEAN] /\ call[r] # idle
  BY <1>1, <1>2, CallFields DEF idle
<1>4. c \in ScreenCalls /\ c.step = "change" /\ c.gone = call[r].gone
  BY <1>3 DEF ScreenCalls
<1> HIDE DEF c
<1>5. view.change # "none" /\ (c.gone \/ open)
  <2>1. OnQuery => view.change = "none"
    BY <1>2 DEF Coherent, OnQuery
  <2> QED BY <1>1, <1>2, <1>3, <1>4, <2>1 DEF Knows
<1>6. world' \in Versions /\ world <= world'
  BY <1>1, <1>2 DEF ScreenNumbers, Versions
<1> QED BY <1>1, <1>4, <1>5, <1>6, ChangeKnows

LEMMA Commits ==
  ASSUME ScreenInv, NEW r \in Requests, Commit(r)
  PROVE  ScreenInv'
<1> DEFINE c == [call[r] EXCEPT !.step = "changed", !.v = world + 1]
<1>1. /\ call[r].step = "change" /\ Become(r, c) /\ world' = world + 1 /\ world < MaxWorld
      /\ UNCHANGED <<view, screen, asks>>
  BY DEF Commit, At
<1>2. ScreenNumbers /\ Knows(call[r]) /\ call[r] \in ScreenCalls /\ Coherent(view)
  BY ViewsCoherent DEF ScreenInv, ScreenNumbers
<1>3. call[r] \in [step : {"toast", "change", "changed"}, q : Questions, seen : 0..MaxAsks,
                   v : Versions, gone : BOOLEAN] /\ call[r] # idle
  BY <1>1, <1>2, CallFields DEF idle
<1>4. world \in Nat /\ world' \in Versions /\ world <= world'
  BY <1>1, <1>2, ScreenBounds DEF ScreenNumbers, Versions
<1>5. c = [step |-> "changed", q |-> call[r].q, seen |-> call[r].seen, v |-> world',
           gone |-> call[r].gone]
  <2> DEFINE one == [call[r] EXCEPT !.step = "changed"]
  <2>1. one = [step |-> "changed", q |-> call[r].q, seen |-> call[r].seen, v |-> call[r].v,
               gone |-> call[r].gone]
    BY <1>3
  <2>2. c = [one EXCEPT !.v = world']
    BY <1>1
  <2> HIDE DEF one, c
  <2> QED BY <2>1, <2>2
<1> HIDE DEF c
<1>6. /\ c \in ScreenCalls /\ c.step = "changed" /\ c.v <= world' /\ c.gone = call[r].gone
  BY <1>3, <1>4, <1>5 DEF ScreenCalls, Versions
<1>7. view.change # "none" /\ (c.gone \/ open)
  <2>1. OnQuery => view.change = "none"
    BY <1>2 DEF Coherent, OnQuery
  <2> QED BY <1>1, <1>2, <1>3, <1>6, <2>1 DEF Knows
<1> QED BY <1>1, <1>4, <1>6, <1>7, ChangeKnows

(* An acknowledged change: loaded again, in the rows, left with, or no more.*)
LEMMA IsChanged ==
  ASSUME ScreenInv, NEW r \in Requests, Changed(r)
  PROVE  ScreenInv'
<1> DEFINE c == call[r]
<1>1. /\ c.step = "changed"
      /\ mine' = (IF c.gone \/ (view.change = "typed" /\ ~Typed(c)) THEN mine
                   ELSE Newer(mine, c.v))
      /\ UNCHANGED <<view, question, kept, world, last>>
  BY DEF Changed, At
<1>2. Coherent(view) /\ ScreenNumbers /\ ShownKnows /\ Knows(c) /\ c \in ScreenCalls
  BY ViewsCoherent DEF ScreenInv, ScreenNumbers
<1>3. /\ c \in [step : {"toast", "change", "changed"}, q : Questions, seen : 0..MaxAsks,
                v : Versions, gone : BOOLEAN]
      /\ c # idle /\ c.v \in Versions /\ c.v \in Nat /\ c.v <= world
  BY <1>1, <1>2, CallFields, ScreenBounds DEF idle, Knows, Versions
<1>4. view.change # "none" /\ ~OnQuery /\ (c.gone \/ open)
  <2>1. view.change # "none"
    BY <1>1, <1>2 DEF Knows
  <2>2. ~OnQuery
    BY <1>2, <2>1 DEF Coherent, OnQuery
  <2> QED BY <1>2, <1>3, <2>1, <2>2 DEF Knows
<1>5. mine \in Nat /\ world \in Nat /\ mine <= world
  BY <1>2, ScreenBounds DEF ScreenNumbers, Versions
<1>6. /\ mine' \in Versions /\ mine' \in Nat /\ mine' <= world' /\ mine <= mine'
      /\ mine' = mine \/ (mine' = Newer(mine, c.v) /\ ~c.gone)
  BY <1>1, <1>2, <1>3, <1>5 DEF Newer, ScreenNumbers
<1>7. CASE c.gone /\ view.change # "leave"
  <2>1. Finish(r) /\ UNCHANGED <<open, shown, asks, stale>>
    BY <1>7 DEF Changed
  <2>2. mine' = mine
    BY <1>1, <1>7
  <2> QED BY <1>1, <2>1, <2>2, IdleAgain DEF Finish, Become, screen
<1>8. CASE view.change = "refetch" /\ ~c.gone
  <2>1. /\ Become(r, NewAsk(c.q)) /\ asks < MaxAsks /\ asks' = asks + 1
        /\ stale' = (c.q # question) /\ UNCHANGED <<open, shown>>
    BY <1>8 DEF Changed, Refetch, Typed
  <2>2. asks \in Nat /\ last \in Nat /\ last < asks' /\ asks' \in 0..MaxAsks
    BY <1>2, <2>1, ScreenBounds DEF ScreenNumbers
  <2>3. ScreenNumbers'
    <3>1. last' <= asks' /\ stale' \in BOOLEAN
      BY <1>1, <2>1, <2>2
    <3> QED BY <1>1, <1>2, <1>6, <2>1, <2>2, <3>1 DEF ScreenNumbers
  <2>4. ShownKnows'
    <3>1. last' # asks'
      BY <1>1, <2>2
    <3> QED BY <1>1, <1>2, <1>4, <1>8, <2>1, <3>1 DEF ShownKnows, OnQuery
  <2>5. c.q \in Questions /\ open' /\ (c.q = question' \/ stale')
    BY <1>1, <1>3, <1>4, <1>8, <2>1
  <2> HIDE DEF c
  <2> QED BY <1>1, <1>6, <1>8, <2>1, <2>3, <2>4, <2>5, AsksAgain
<1>9. CASE Typed(c) /\ ~c.gone
  <2>0. view.change = "typed" /\ ~Loading
    BY <1>9 DEF Typed
  <2>1. /\ shown' = (IF shown = Nothing THEN Nothing ELSE [shown EXCEPT !.v = Newer(shown.v, c.v)])
        /\ Become(r, idle) /\ UNCHANGED <<open, asks, stale>>
    BY <1>9, <2>0 DEF Changed, Finish, Become, Patched
  <2>2. /\ call' \in [Requests -> ScreenCalls] /\ call'[r] = idle
        /\ \A s \in Requests : s # r => call'[s] = call[s]
    BY <2>1, CallMoves DEF ScreenCalls
  <2>3. ASSUME shown # Nothing
        PROVE  /\ shown' \in Rows /\ shown'.q = shown.q
               /\ shown'.v = Newer(shown.v, c.v) /\ shown.v \in Nat /\ shown.v >= mine
    <3>1. shown \in [q : Questions, v : Versions]
      BY <1>2, <2>3 DEF ScreenNumbers, Rows
    <3>2. shown.v \in Versions /\ shown.v \in Nat /\ shown.v >= mine
      BY <1>2, <2>0, <2>3, <3>1 DEF ShownKnows, Versions
    <3>3. Newer(shown.v, c.v) \in Versions
      BY <1>3, <3>2 DEF Newer
    <3> QED BY <2>1, <2>3, <3>1, <3>2, <3>3 DEF Rows
  <2>4. shown # Nothing => shown'.v >= mine'
    BY <1>3, <1>5, <1>6, <2>3 DEF Newer
  <2>5. ScreenNumbers'
    <3>1. shown' \in Rows
      BY <2>1, <2>3 DEF Rows
    <3> QED BY <1>1, <1>2, <1>6, <2>1, <3>1 DEF ScreenNumbers
  <2>6. ShownKnows'
    <3>1. shown' # Nothing => shown # Nothing
      BY <2>1
    <3> QED BY <1>1, <1>2, <1>4, <2>0, <2>1, <2>3, <2>4, <3>1 DEF ShownKnows, OnQuery
  <2>7. ASSUME NEW s \in Requests, s # r PROVE Knows(call[s])'
    <3>1. call'[s] = call[s] /\ Knows(call[s]) /\ call[s] \in ScreenCalls
      BY <2>2, <2>7 DEF ScreenInv
    <3> QED BY <1>1, <2>0, <2>1, <3>1 DEF Knows, OnQuery, Loading, Live
  <2> QED BY <2>2, <2>5, <2>6, <2>7, IdleKnows DEF ScreenInv
<1>10. CASE view.change = "leave"
  <2>1. /\ open' = FALSE /\ call' = [AllGone EXCEPT ![r] = idle]
        /\ UNCHANGED <<shown, asks, stale>>
    BY <1>10 DEF Changed, Typed
  <2>2. call' \in [Requests -> ScreenCalls] /\ \A s \in Requests : Knows(call[s])'
    BY <1>1, <2>1, AllKnowGone
  <2>3. ScreenNumbers'
    BY <1>1, <1>2, <1>6, <2>1 DEF ScreenNumbers
  <2>4. ShownKnows'
    BY <1>1, <1>2, <1>4, <1>10, <2>1 DEF ShownKnows, OnQuery
  <2> QED BY <2>2, <2>3, <2>4 DEF ScreenInv
<1>11. CASE view.change = "stay"
  <2>1. Become(r, idle) /\ UNCHANGED <<open, shown, asks, stale>>
    BY <1>11 DEF Changed, Finish, Become, Typed
  <2>2. /\ call' \in [Requests -> ScreenCalls] /\ call'[r] = idle
        /\ \A s \in Requests : s # r => call'[s] = call[s]
    BY <2>1, CallMoves DEF ScreenCalls
  <2>3. ASSUME NEW s \in Requests, s # r PROVE Knows(call[s])'
    <3>1. call'[s] = call[s] /\ Knows(call[s])
      BY <2>2, <2>3 DEF ScreenInv
    <3> QED BY <1>1, <1>11, <2>1, <3>1 DEF Knows, OnQuery
  <2>4. ScreenNumbers'
    BY <1>1, <1>2, <1>6, <2>1 DEF ScreenNumbers
  <2>5. ShownKnows'
    BY <1>1, <1>2, <1>4, <1>11, <2>1 DEF ShownKnows, OnQuery
  <2> QED BY <2>2, <2>3, <2>4, <2>5, IdleKnows DEF ScreenInv
<1>12. CASE view.change = "typed" /\ ~Typed(c)
  <2>1. Finish(r) /\ UNCHANGED <<open, shown, asks, stale>>
    BY <1>12 DEF Changed, Typed
  <2>2. mine' = mine
    BY <1>1, <1>12
  <2> QED BY <1>1, <2>1, <2>2, IdleAgain DEF Finish, Become, screen
<1> QED BY <1>2, <1>4, <1>7, <1>8, <1>9, <1>10, <1>11, <1>12 DEF Coherent

LEMMA OthersDo == ASSUME ScreenInv, OthersChange PROVE ScreenInv'
<1>1. world' = world + 1 /\ world < MaxWorld /\ UNCHANGED <<view, screen, asks, call>>
  BY DEF OthersChange
<1>2. world \in Nat /\ world' \in Versions /\ world <= world' /\ mine \in Nat
  BY <1>1, ScreenBounds DEF ScreenInv, ScreenNumbers, Versions
<1>3. \A s \in Requests : Knows(call[s])'
  BY <1>1, <1>2, KnowsStill DEF screen
<1>4. ScreenNumbers'
  <2>1. mine' <= world'
    BY <1>1, <1>2 DEF screen, ScreenInv, ScreenNumbers, Versions
  <2> QED BY <1>1, <1>2, <2>1 DEF screen, ScreenInv, ScreenNumbers
<1>5. ShownKnows'
  BY <1>1 DEF screen, ScreenInv, ShownKnows, OnQuery
<1> QED BY <1>1, <1>3, <1>4, <1>5 DEF ScreenInv

LEMMA ScreenInvStep == ScreenInv /\ [ScreenNext]_screenVars => ScreenInv'
<1> SUFFICES ASSUME ScreenInv, [ScreenNext]_screenVars PROVE ScreenInv'
  OBVIOUS
<1>1. CASE UNCHANGED screenVars
  <2>1. ScreenNumbers' /\ ShownKnows'
    BY <1>1 DEF ScreenInv, ScreenNumbers, ShownKnows, screenVars, OnQuery
  <2>2. \A r \in Requests : Knows(call[r])'
    BY <1>1 DEF ScreenInv, Knows, screenVars, OnQuery
  <2> QED BY <1>1, <2>1, <2>2 DEF ScreenInv, screenVars
<1>2. ASSUME NEW r \in Requests, DismissToast(r) \/ ChangeFails(r) PROVE ScreenInv'
  <2>1. Become(r, idle) /\ UNCHANGED <<view, screen, world, asks>>
    BY <1>2 DEF DismissToast, ChangeFails, Finish, Become
  <2> QED BY <2>1, IdleAgain
<1> QED
  BY <1>1, <1>2, OpensScreen, SetsParam, Presses, ReadsRows, ShowsAnswer, FailsToLoad, Changes,
     Confirms, Commits, IsChanged, Leaves, OthersDo DEF ScreenNext

LEMMA ScreenTypes == ScreenInv => ScreenTypeOK
BY DEF ScreenInv, ScreenNumbers, ScreenTypeOK

(* For any number of views, loads, changes and requests: a react-query view *)
(* never shows another question's rows, and the others, at rest after a last*)
(* load answered last, show what was asked for and the user's own changes.  *)
THEOREM ScreenAnswersItsQuestionHolds == ScreenSpec => []ScreenAnswersItsQuestion
<1>1. ScreenInv => ScreenAnswersItsQuestion
  <2> SUFFICES ASSUME ScreenInv, open, shown # Nothing
               PROVE  /\ OnQuery => shown.q = question
                      /\ last = asks => shown.v >= mine /\ (shown.q = question \/ stale)
    BY DEF ScreenAnswersItsQuestion
  <2>1. Coherent(view) /\ ScreenNumbers /\ ShownKnows
    BY ViewsCoherent DEF ScreenInv, ScreenNumbers
  <2>2. shown.v \in Nat
    BY <2>1, ScreenBounds DEF ScreenNumbers, Rows, Versions
  <2>3. /\ OnQuery => shown.q = question
        /\ last = asks => shown.q = question \/ stale
    BY <2>1 DEF ShownKnows
  <2>4. last = asks => shown.v >= mine
    BY <2>1, <2>2 DEF ShownKnows, Coherent
  <2> QED BY <2>3, <2>4
<1> QED BY ScreenInvInit, ScreenInvStep, <1>1, PTL DEF ScreenSpec
-----------------------------------------------------------------------------
(* MCServices.  Of the parts checked side by side one is alive, and keeps   *)
(* its own invariant; the others do not move.                               *)
ServicesInv ==
  /\ part \in Parts
  /\ part = "permissions" => CacheTypes
  /\ part = "pricing" => PriceTypes
  /\ part = "reviews" => VoiceTypes
  /\ part = "membership" => TierInv
  /\ part = "wishlist" => WishInv
  /\ part = "blog" => PostTypes
  /\ part = "media" => MediaInv
  /\ part = "mail" => MailInv
  /\ part = "modal" => ModalInv
  /\ part = "wizard" => WholeInv
  /\ part = "screens" => ScreenInv

LEMMA ServicesInvInit == ServicesInit => ServicesInv
BY CacheTypesInit, PriceTypesInit, VoiceTypesInit, TierInit, WishInitOK, PostTypesInit,
   MediaInitOK, MailInvInit, ModalInvInit, WholeInit, ScreenInvInit DEF ServicesInit, ServicesInv

LEMMA ServicesInvStep == ServicesInv /\ [ServicesNext]_allVars => ServicesInv'
<1> SUFFICES ASSUME ServicesInv, [ServicesNext]_allVars PROVE ServicesInv'
  OBVIOUS
<1>1. part \in Parts /\ part' = part
  BY DEF ServicesInv, ServicesNext, allVars
<1>2. CASE part = "permissions"
  <2>1. [CacheNext]_cacheVars
    BY <1>2 DEF ServicesNext, allVars, cacheOwn, cacheVars, cacheRows
  <2>2. CacheTypes'
    BY <1>2, <2>1, CacheTypesStep DEF ServicesInv
  <2> QED BY <1>1, <1>2, <2>2, Zenon DEF ServicesInv
<1>3. CASE part = "pricing"
  <2>1. [PricingNext]_priceVars
    BY <1>3 DEF ServicesNext, allVars, priceOwn, priceVars
  <2>2. PriceTypes'
    BY <1>3, <2>1, PriceTypesStep DEF ServicesInv
  <2> QED BY <1>1, <1>3, <2>2, Zenon DEF ServicesInv
<1>4. CASE part = "reviews"
  <2>1. [ReviewNext]_reviewVars
    BY <1>4 DEF ServicesNext, allVars, reviewOwn, reviewVars
  <2>2. VoiceTypes'
    BY <1>4, <2>1, VoiceTypesStep DEF ServicesInv
  <2> QED BY <1>1, <1>4, <2>2, Zenon DEF ServicesInv
<1>5. CASE part = "membership"
  <2>1. [MembershipNext]_memberVars
    BY <1>5 DEF ServicesNext, allVars, memberOwn, memberVars
  <2>2. TierInv'
    BY <1>5, <2>1, TierStep DEF ServicesInv
  <2> QED BY <1>1, <1>5, <2>2, Zenon DEF ServicesInv
<1>6. CASE part = "wishlist"
  <2>1. [WishlistNext]_wishVars
    BY <1>6 DEF ServicesNext, allVars, wishOwn, wishVars
  <2>2. WishInv'
    BY <1>6, <2>1, WishStep DEF ServicesInv
  <2> QED BY <1>1, <1>6, <2>2, Zenon DEF ServicesInv
<1>7. CASE part = "blog"
  <2>1. [BlogNext]_blogVars
    BY <1>7 DEF ServicesNext, allVars, blogOwn, blogVars
  <2>2. PostTypes'
    BY <1>7, <2>1, PostTypesStep DEF ServicesInv
  <2> QED BY <1>1, <1>7, <2>2, Zenon DEF ServicesInv
<1>8. CASE part = "media"
  <2>1. [MediaNext]_mediaVars
    BY <1>8 DEF ServicesNext, allVars, mediaOwn, mediaVars
  <2>2. MediaInv'
    BY <1>8, <2>1, MediaStep DEF ServicesInv
  <2> QED BY <1>1, <1>8, <2>2, Zenon DEF ServicesInv
<1>9. CASE part = "mail"
  <2>1. [MailNext]_mailVars
    BY <1>9 DEF ServicesNext, allVars, mailOwn, mailVars
  <2>2. MailInv'
    BY <1>9, <2>1, MailInvStep DEF ServicesInv
  <2> QED BY <1>1, <1>9, <2>2, Zenon DEF ServicesInv
<1>10. CASE part = "modal"
  <2>1. [ModalNext]_modalVars
    BY <1>10 DEF ServicesNext, allVars, modalOwn, modalVars
  <2>2. ModalInv'
    BY <1>10, <2>1, ModalInvStep DEF ServicesInv
  <2> QED BY <1>1, <1>10, <2>2, Zenon DEF ServicesInv
<1>11. CASE part = "wizard"
  <2>1. [WizardNext]_wizardVars
    BY <1>11 DEF ServicesNext, allVars, wizardOwn, wizardVars
  <2>2. WholeInv'
    BY <1>11, <2>1, WholeStep DEF ServicesInv
  <2> QED BY <1>1, <1>11, <2>2, Zenon DEF ServicesInv
<1>12. CASE part = "screens"
  <2>1. [ScreenNext]_screenVars
    BY <1>12 DEF ServicesNext, allVars, screenOwn, screenVars
  <2>2. ScreenInv'
    BY <1>12, <2>1, ScreenInvStep DEF ServicesInv
  <2> QED BY <1>1, <1>12, <2>2, Zenon DEF ServicesInv
<1> QED BY <1>1, <1>2, <1>3, <1>4, <1>5, <1>6, <1>7, <1>8, <1>9, <1>10, <1>11, <1>12 DEF Parts

(* Each service keeps to the values of its columns and to the fields of its *)
(* handlers' state, for any number of requests and any values of the bounds.*)
THEOREM ServicesTypeCorrect == ServicesSpec => []ServicesTypeOK
<1>1. PriceTypes => PricingTypeOK
  BY DEF PriceTypes
<1>2. TierInv => MembershipTypeOK
  BY DEF TierInv
<1>3. WishInv => WishlistTypeOK
  BY DEF WishInv
<1>4. MediaInv => MediaTypeOK
  BY DEF MediaInv
<1>5. MailInv => MailTypeOK
  BY DEF MailInv
<1>6. ModalInv => ModalTypeOK
  BY DEF ModalInv
<1>7. ASSUME ServicesInv PROVE ServicesTypeOK
  <2>1. part \in Parts
    BY <1>7 DEF ServicesInv
  <2>2. part = "permissions" => CacheTypeOK
    BY <1>7, <1>1, <1>2, <1>3, <1>4, <1>5, <1>6, CacheTypesOK, VoiceTypesOK, PostTypesOK,
       WholeTypes, ScreenTypes, Zenon DEF ServicesInv
  <2>3. part = "pricing" => PricingTypeOK
    BY <1>7, <1>1, <1>2, <1>3, <1>4, <1>5, <1>6, CacheTypesOK, VoiceTypesOK, PostTypesOK,
       WholeTypes, ScreenTypes, Zenon DEF ServicesInv
  <2>4. part = "reviews" => ReviewTypeOK
    BY <1>7, <1>1, <1>2, <1>3, <1>4, <1>5, <1>6, CacheTypesOK, VoiceTypesOK, PostTypesOK,
       WholeTypes, ScreenTypes, Zenon DEF ServicesInv
  <2>5. part = "membership" => MembershipTypeOK
    BY <1>7, <1>1, <1>2, <1>3, <1>4, <1>5, <1>6, CacheTypesOK, VoiceTypesOK, PostTypesOK,
       WholeTypes, ScreenTypes, Zenon DEF ServicesInv
  <2>6. part = "wishlist" => WishlistTypeOK
    BY <1>7, <1>1, <1>2, <1>3, <1>4, <1>5, <1>6, CacheTypesOK, VoiceTypesOK, PostTypesOK,
       WholeTypes, ScreenTypes, Zenon DEF ServicesInv
  <2>7. part = "blog" => BlogTypeOK
    BY <1>7, <1>1, <1>2, <1>3, <1>4, <1>5, <1>6, CacheTypesOK, VoiceTypesOK, PostTypesOK,
       WholeTypes, ScreenTypes, Zenon DEF ServicesInv
  <2>8. part = "media" => MediaTypeOK
    BY <1>7, <1>1, <1>2, <1>3, <1>4, <1>5, <1>6, CacheTypesOK, VoiceTypesOK, PostTypesOK,
       WholeTypes, ScreenTypes, Zenon DEF ServicesInv
  <2>9. part = "mail" => MailTypeOK
    BY <1>7, <1>1, <1>2, <1>3, <1>4, <1>5, <1>6, CacheTypesOK, VoiceTypesOK, PostTypesOK,
       WholeTypes, ScreenTypes, Zenon DEF ServicesInv
  <2>10. part = "modal" => ModalTypeOK
    BY <1>7, <1>1, <1>2, <1>3, <1>4, <1>5, <1>6, CacheTypesOK, VoiceTypesOK, PostTypesOK,
       WholeTypes, ScreenTypes, Zenon DEF ServicesInv
  <2>11. part = "wizard" => WizardTypeOK
    BY <1>7, <1>1, <1>2, <1>3, <1>4, <1>5, <1>6, CacheTypesOK, VoiceTypesOK, PostTypesOK,
       WholeTypes, ScreenTypes, Zenon DEF ServicesInv
  <2>12. part = "screens" => ScreenTypeOK
    BY <1>7, <1>1, <1>2, <1>3, <1>4, <1>5, <1>6, CacheTypesOK, VoiceTypesOK, PostTypesOK,
       WholeTypes, ScreenTypes, Zenon DEF ServicesInv
  <2> QED BY <2>1, <2>2, <2>3, <2>4, <2>5, <2>6, <2>7, <2>8, <2>9, <2>10, <2>11, <2>12 DEF Parts, ServicesTypeOK
<1> QED BY ServicesInvInit, ServicesInvStep, <1>7, PTL DEF ServicesSpec
=============================================================================
