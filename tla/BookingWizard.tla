---------------------------- MODULE BookingWizard ---------------------------
(***************************************************************************)
(* The flight wizard of one browser tab: the pages under /booking, the      *)
(* store bookingFlowStore they share, which localStorage keeps except for   *)
(* the passengers, and submitBooking, which turns the store into calls of    *)
(* the API one after the other.  The user may go on editing meanwhile, and   *)
(* a reload ends the calls but not what localStorage has kept.              *)
(***************************************************************************)
EXTENDS Handlers
LOCAL INSTANCE FiniteSetsExt   \* SymDiff

CONSTANTS
  MaxOrders,     \* bookings the wizard creates
  Wanted         \* the choices the user makes and takes back

ASSUME WizardAssumption ==
  /\ MaxOrders \in Nat
  /\ Wanted \subseteq {"passengers", "seats", "addons", "baggage", "meals"}

Pages == <<"fare-class", "passenger", "seat", "baggage", "meal", "addons",
           "payment", "success">>
PageNo == 1..Len(Pages)
Extras == {"addons", "baggage", "meals"}
Picks == {"passengers", "seats"} \cup Extras

VARIABLES
  page,      \* the page shown, 0 outside the wizard
  flow,      \* bookingFlowStore
  orders,    \* bookings created by submitBooking, and what they got
  cut        \* a reload has ended a submission

wizardVars == <<page, flow, orders, cut, call>>

NewFlow == [currentStep |-> 1, flight |-> FALSE, fare |-> FALSE, chosen |-> {},
            bookingCode |-> 0, isLoading |-> FALSE]
Order == [parts : SUBSET Extras, asked : SUBSET Picks, status : {"DRAFT", "PENDING_PAYMENT"}]
Calls == <<"draft", "passengers", "addons", "baggage", "meals", "initiate">>
Submission == [step : {Calls[i] : i \in 1..Len(Calls)}, state : SUBSET Picks,
               id : 0..MaxOrders]

WizardTypeOK ==
  /\ page \in {0} \cup PageNo
  /\ flow \in [currentStep : PageNo, flight : BOOLEAN, fare : BOOLEAN,
               chosen : SUBSET Picks, bookingCode : 0..MaxOrders, isLoading : BOOLEAN]
  /\ orders \in Seq(Order) /\ Len(orders) <= MaxOrders
  /\ cut \in BOOLEAN
  /\ call \in [Requests -> {idle} \cup Submission]

WizardInit ==
  /\ page = 0 /\ flow = NewFlow /\ orders = <<>> /\ cut = FALSE
  /\ call = [r \in Requests |-> idle]
-----------------------------------------------------------------------------
(* BookingSuccess clears the store when it is left; isLoading is not one of *)
(* the fields it resets.                                                    *)
Left == IF page = 8 THEN [NewFlow EXCEPT !.isLoading = flow.isLoading] ELSE flow

(* The pages set their step when they mount; the layout sends back whoever  *)
(* is ahead of his step, by the step of the render before, or after.        *)
Visit(p) ==
  /\ p # page
  /\ \/ /\ Left.flight \/ p = 8
        /\ page' = p /\ flow' = [Left EXCEPT !.currentStep = p]
     \/ /\ Left.flight \/ p = 8
        /\ p > Left.currentStep
        /\ page' = Left.currentStep /\ flow' = Left
     \/ /\ ~Left.flight /\ p # 8          \* to /flights/search
        /\ page' = 0 /\ flow' = [Left EXCEPT !.currentStep = p]
  /\ UNCHANGED <<orders, cut, call>>
LeaveWizard ==
  /\ page # 0
  /\ page' = 0 /\ flow' = Left
  /\ UNCHANGED <<orders, cut, call>>

(* What each page makes of the choices in the store.                        *)
PassengerInfo(c) == c \cup {"passengers"}
SeatSelection(c) == SymDiff(c, {"seats"})
Baggage(c) == c \cup {"baggage"}
Meal(c) == SymDiff(c, {"meals"})
AddOns(c) == SymDiff(c, {"addons"})

Edited(p, c) ==
  CASE p = 2 -> PassengerInfo(c) [] p = 3 -> SeatSelection(c) [] p = 4 -> Baggage(c)
    [] p = 5 -> Meal(c) [] p = 6 -> AddOns(c) [] OTHER -> c
UpdateBookingData ==
  LET c == Edited(page, flow.chosen) IN
  /\ page \in 2..6 /\ c \subseteq Wanted
  /\ flow' = [flow EXCEPT !.chosen = c]
  /\ UNCHANGED <<page, orders, cut, call>>
FareClass ==
  /\ page = 1
  /\ flow' = [flow EXCEPT !.fare = TRUE]
  /\ UNCHANGED <<page, orders, cut, call>>

(* A full load of a page: passengers are not in localStorage, isLoading is. *)
Loaded(p, f) ==
  /\ page' = p
  /\ flow' = [f EXCEPT !.chosen = @ \ {"passengers"}]
  /\ call' = [r \in Requests |-> idle]
  /\ cut' = (cut \/ ~NoneInFlight)
  /\ UNCHANGED orders
Reload == page \in PageNo \ {8} /\ Loaded(page, flow)
(* FlightDetail: a flight with one of its fares, and on with a full load.   *)
ChooseFlight ==
  /\ page = 0
  /\ \E p \in {2} \cup (1..1 \cap {flow.currentStep}) :   \* step 1 is sent back
       Loaded(p, [flow EXCEPT !.flight = TRUE, !.fare = TRUE, !.currentStep = p])
-----------------------------------------------------------------------------
(* handlePay: the button is disabled while isLoading; submitBooking reads   *)
(* the store once.                                                          *)
HandlePay(r) ==
  /\ page = 7 /\ ~flow.isLoading /\ Len(orders) < MaxOrders
  /\ Start(r, [step |-> "draft", state |-> flow.chosen, id |-> 0])
  /\ flow' = [flow EXCEPT !.isLoading = TRUE]
  /\ UNCHANGED <<page, orders, cut>>

NextCall(step) == Calls[1 + CHOOSE i \in 1..Len(Calls) : Calls[i] = step]

\* Mutant: the parts are read from the store when their call is made.
State_Fresh(r) == flow.chosen

State(r) == call[r].state

CreateDraft(r) ==
  /\ At(r, "draft")
  /\ orders' = Append(orders, [parts |-> {}, asked |-> call[r].state, status |-> "DRAFT"])
  /\ Become(r, [call[r] EXCEPT !.step = "passengers", !.id = Len(orders) + 1])
  /\ UNCHANGED <<page, flow, cut>>

(* The pipe refuses the wizard's passengers: firstName, dob, ... are no     *)
(* fields of PassengerDto.  An empty list passes, and no seat is selected.  *)
AddPassengers(r) ==
  /\ At(r, "passengers")
  /\ "passengers" \notin State(r)
  /\ GoTo(r, "addons")
  /\ UNCHANGED <<page, flow, orders, cut>>

AddExtra(r, part) ==
  /\ At(r, part)
  /\ orders' = IF part \in State(r) THEN [orders EXCEPT ![call[r].id].parts = @ \cup {part}]
               ELSE orders
  /\ GoTo(r, NextCall(part))
  /\ UNCHANGED <<page, flow, cut>>

(* initiatePayment or initiateSepay; the amount of a payment is positive,   *)
(* and without passengers only the extras cost.  The card goes to the bank  *)
(* wherever the user is by now; for SePay the window opens on the page.     *)
Initiate(r) ==
  LET id == call[r].id IN
  /\ At(r, "initiate")
  /\ orders[id].parts # {}
  /\ orders' = [orders EXCEPT ![id].status = "PENDING_PAYMENT"]
  /\ \E method \in {"card", "sepay"} : page' = IF method = "card" THEN 0 ELSE page
  /\ flow' = [flow EXCEPT !.bookingCode = id, !.isLoading = FALSE]
  /\ Finish(r)
  /\ UNCHANGED cut

(* Any of the calls may fail; the catch lets the button go again and leaves *)
(* the draft behind.                                                        *)
SubmitFails(r) ==
  /\ call[r] # idle
  /\ flow' = [flow EXCEPT !.isLoading = FALSE]
  /\ Finish(r)
  /\ UNCHANGED <<page, orders, cut>>

(* isLoading lets one submission run at a time: one handler will do.        *)
Tab == CHOOSE r \in Requests : TRUE

WizardNext ==
  \/ \E p \in PageNo : Visit(p)
  \/ LeaveWizard \/ Reload \/ ChooseFlight
  \/ FareClass \/ UpdateBookingData
  \/ HandlePay(Tab) \/ CreateDraft(Tab) \/ AddPassengers(Tab)
  \/ \E part \in Extras : AddExtra(Tab, part)
  \/ Initiate(Tab) \/ SubmitFails(Tab)

WizardSpec == WizardInit /\ [][WizardNext]_wizardVars
-----------------------------------------------------------------------------
(* A booking that reached its payment got all the extras of the wizard as   *)
(* it was when the user pressed pay, and no other, whatever was edited       *)
(* while the calls ran; and the button is locked by nothing but a           *)
(* submission that runs, unless a reload has ended one.                     *)
SubmissionIsWhole ==
  /\ \A i \in 1..Len(orders) :
       orders[i].status = "PENDING_PAYMENT" => orders[i].parts = orders[i].asked \cap Extras
  /\ flow.isLoading => ~NoneInFlight \/ cut
=============================================================================
