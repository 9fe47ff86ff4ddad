---------------------------- MODULE PaymentModal ----------------------------
(***************************************************************************)
(* The SePay window (SePayModal.tsx) and the row of the payment it waits    *)
(* for.  A countdown and a loop of polls run side by side.  The effect that *)
(* started the loop clears its timer when the status it shows changes or    *)
(* when it is closed; a poll that is on its way then is not called back, and *)
(* sets the next timer of a loop that nothing will clear.                   *)
(***************************************************************************)
EXTENDS Handlers

CONSTANTS
  Payments,    \* payments of the one browser, opened one after the other
  NoPayment

ASSUME ModalAssumption == NoPayment \notin Payments

VARIABLES
  paid,     \* the status of each payment, as the polls can read it
  due,      \* the payments whose expiredAt has passed
  modal     \* the window: its payment and the status it shows

modalVars == <<paid, due, modal, call>>

Final == {"SUCCESS", "EXPIRED", "LATE_PAYMENT"}
Shut == [pay |-> NoPayment, shows |-> "PENDING"]

Polls ==
  [step : {"timer", "poll", "expire"}, pay : Payments, loose : BOOLEAN]
    \cup [step : {"pollAnswer"}, pay : Payments, loose : BOOLEAN,
          status : {"PENDING", "FAILED"} \cup Final]

ModalTypeOK ==
  /\ paid \in [Payments -> {"none", "PENDING", "FAILED"} \cup Final]
  /\ due \subseteq Payments
  /\ modal \in [pay : Payments \cup {NoPayment}, shows : {"PENDING"} \cup Final]
  /\ call \in [Requests -> {idle} \cup Polls]

ModalInit ==
  /\ paid = [p \in Payments |-> "none"] /\ due = {} /\ modal = Shut
  /\ call = [r \in Requests |-> idle]
-----------------------------------------------------------------------------
(* initiateSepay has answered: the window opens and its effects run.        *)
OpenModal(r, p) ==
  /\ modal = Shut /\ paid[p] = "none"
  /\ Start(r, [step |-> "timer", pay |-> p, loose |-> FALSE])
  /\ modal' = [pay |-> p, shows |-> "PENDING"]
  /\ paid' = [paid EXCEPT ![p] = "PENDING"]
  /\ UNCHANGED due

(* The cleanup of the effect: a waiting timer is cleared, a poll is not.    *)
Cleanup(c) ==
  IF c = idle \/ c.loose THEN c
  ELSE IF c.step = "timer" THEN idle ELSE [c EXCEPT !.loose = TRUE]
CleanAll == call' = [r \in Requests |-> Cleanup(call[r])]

(* The countdown, by the browser's clock; it need not agree with the        *)
(* server's.                                                                *)
CountdownEnds ==
  /\ modal # Shut /\ modal.shows = "PENDING"
  /\ modal' = [modal EXCEPT !.shows = "EXPIRED"]
  /\ CleanAll
  /\ UNCHANGED <<paid, due>>

(* "Cancel", "Pay again", a click on a link.                                *)
CloseModal ==
  /\ modal # Shut
  /\ modal' = Shut
  /\ CleanAll
  /\ UNCHANGED <<paid, due>>

TimerFires(r) ==
  /\ At(r, "timer")
  /\ GoTo(r, "poll")
  /\ UNCHANGED <<paid, due, modal>>

Answer(r, st) ==
  Become(r, [step |-> "pollAnswer", pay |-> call[r].pay, loose |-> call[r].loose, status |-> st])

(* getPaymentStatus: a payment found past its time is expired by the poll,  *)
(* in a transaction of its own, which may have read it before the webhook   *)
(* wrote FAILED or LATE_PAYMENT; the answer is EXPIRED even when the        *)
(* webhook was faster.                                                      *)
PollReads(r) ==
  LET p == call[r].pay IN
  /\ At(r, "poll")
  /\ IF paid[p] = "PENDING" /\ p \in due THEN GoTo(r, "expire") ELSE Answer(r, paid[p])
  /\ UNCHANGED <<paid, due, modal>>
PollExpires(r) ==
  LET p == call[r].pay IN
  /\ At(r, "expire")
  /\ \/ paid[p] \in {"PENDING", "FAILED", "LATE_PAYMENT"} /\ paid' = [paid EXCEPT ![p] = "EXPIRED"]
     \/ paid[p] # "PENDING" /\ UNCHANGED paid
  /\ Answer(r, "EXPIRED")
  /\ UNCHANGED <<due, modal>>

\* Mutant: the loop ends with the first error.
PollError_Stops(r) ==
  /\ At(r, "poll")
  /\ Finish(r)
  /\ UNCHANGED <<paid, due, modal>>

(* No answer, or an error: logged, and the next timer is set.               *)
PollError(r) ==
  /\ At(r, "poll")
  /\ GoTo(r, "timer")
  /\ UNCHANGED <<paid, due, modal>>

\* Mutant: the answer is shown by whichever window is open.
PollAnswers_AnyWindow(r) ==
  LET c == call[r] IN
  /\ At(r, "pollAnswer")
  /\ IF c.status \in Final
     THEN /\ modal' = IF modal # Shut THEN [modal EXCEPT !.shows = c.status] ELSE modal
          /\ Finish(r)
     ELSE /\ Become(r, [step |-> "timer", pay |-> c.pay, loose |-> c.loose])
          /\ UNCHANGED modal
  /\ UNCHANGED <<paid, due>>

(* The status of the closure is PENDING whatever the window shows by now.   *)
PollAnswers(r) ==
  LET c == call[r] IN
  /\ At(r, "pollAnswer")
  /\ IF c.status \in Final
     THEN /\ modal' = IF modal.pay = c.pay THEN [modal EXCEPT !.shows = c.status] ELSE modal
          /\ Finish(r)
     ELSE /\ Become(r, [step |-> "timer", pay |-> c.pay, loose |-> c.loose])
          /\ UNCHANGED modal
  /\ UNCHANGED <<paid, due>>

(* The server's side: time, the expiry worker and the webhook.              *)
PaymentDue(p) ==
  /\ paid[p] # "none" /\ p \notin due
  /\ due' = due \cup {p}
  /\ UNCHANGED <<paid, modal, call>>
SetPaid(p, st) == paid' = [paid EXCEPT ![p] = st] /\ UNCHANGED <<due, modal, call>>
WorkerExpires(p) == paid[p] = "PENDING" /\ p \in due /\ SetPaid(p, "EXPIRED")
(* The webhook may have looked at the clock before the payment was due.     *)
WebhookPays(p) ==
  \/ paid[p] = "PENDING" /\ SetPaid(p, "SUCCESS")
  \/ paid[p] = "PENDING" /\ SetPaid(p, "FAILED")
  \/ /\ paid[p] \in {"PENDING", "FAILED", "EXPIRED"}
     /\ paid[p] = "EXPIRED" \/ p \in due
     /\ SetPaid(p, "LATE_PAYMENT")

PollSteps(r) == TimerFires(r) \/ PollReads(r) \/ PollExpires(r) \/ PollAnswers(r)
ModalNext ==
  \/ CountdownEnds \/ CloseModal
  \/ \E r \in Requests : PollSteps(r) \/ PollError(r)
  \/ \E r \in Requests, p \in Payments : OpenModal(r, p)
  \/ \E p \in Payments : PaymentDue(p) \/ WorkerExpires(p) \/ WebhookPays(p)

ModalFairness ==
  \A r \in Requests : /\ WF_modalVars(TimerFires(r) \/ PollExpires(r) \/ PollAnswers(r))
                      /\ SF_modalVars(PollReads(r))
ModalSpec == ModalInit /\ [][ModalNext]_modalVars /\ ModalFairness
-----------------------------------------------------------------------------
Waiting == modal # Shut /\ modal.shows = "PENDING" /\ paid[modal.pay] \in Final

(* The window never says paid of a payment that is not, nor late of one     *)
(* that came in time, whichever polls answer after it was closed, opened    *)
(* for another payment or run out.                                          *)
ModalTellsTheTruth ==
  modal # Shut /\ modal.shows \in {"SUCCESS", "LATE_PAYMENT"}
    => paid[modal.pay] = modal.shows

(* It does not wait for ever: again and again it is closed, or shows what   *)
(* has become of its payment, or that is open.                              *)
ModalTellsTheOutcome == []<>~Waiting
=============================================================================
