----------------------------- MODULE MailQueue ------------------------------
(***************************************************************************)
(* E-mail: EmailService puts a job on the BullMQ queue `email`, the         *)
(* EmailProcessor sends it, BullMQ tries again when that throws and gives   *)
(* out again what a dead worker held.  The callers do not wait for the      *)
(* mail; the late payment enqueues its mail before its transaction commits. *)
(***************************************************************************)
EXTENDS Handlers

CONSTANTS
  Mails,       \* jobs, in flight at the same time
  Attempts,    \* the option attempts of the queue.add of a job
  MaxStalled   \* BullMQ's maxStalledCount: 1

MailJobs == {"send-verify-email", "send-booking-confirmation", "send-invoice",
             "send-refund-result", "send-password-reset", "send-contact-notification"}

ASSUME MailAssumption ==
  /\ Attempts \in [MailJobs -> Nat \ {0}] /\ MaxStalled \in Nat

VARIABLES
  mail,     \* the jobs
  sent,     \* mails that left for the SMTP server
  backed    \* what the mail tells of is in the database: yes, open or no

mailVars == <<mail, sent, backed, call>>

MailRow == [name : MailJobs \cup {"none"},
            state : {"none", "waiting", "active", "sent", "delayed", "completed", "failed"},
            made : Nat, stalled : Nat]
NoMail == [name |-> "none", state |-> "none", made |-> 0, stalled |-> 0]

MailTypeOK ==
  /\ mail \in [Mails -> MailRow] /\ sent \in [Mails -> Nat]
  /\ backed \in [Mails -> {"yes", "open", "no"}]
  /\ call \in [Requests -> {idle} \cup [step : {"commit"}, mail : Mails]]

MailInit ==
  /\ mail = [j \in Mails |-> NoMail] /\ sent = [j \in Mails |-> 0]
  /\ backed = [j \in Mails |-> "no"]
  /\ call = [r \in Requests |-> idle]
-----------------------------------------------------------------------------
Enqueue(j, name) ==
  /\ mail[j] = NoMail
  /\ mail' = [mail EXCEPT ![j] = [NoMail EXCEPT !.name = name, !.state = "waiting"]]

(* generateOtp and submitContact: the row first.  A contact that could not  *)
(* be stored is mailed all the same, and a queue that fails is logged.      *)
MailOtp(j, name) ==
  /\ name \in {"send-verify-email", "send-password-reset"}
  /\ Enqueue(j, name)
  /\ backed' = [backed EXCEPT ![j] = "yes"]
  /\ UNCHANGED <<sent, call>>
MailContact(j) ==
  /\ Enqueue(j, "send-contact-notification")
  /\ \E b \in {"yes", "no"} : backed' = [backed EXCEPT ![j] = b]
  /\ UNCHANGED <<sent, call>>

(* A late SePay payment: its refund is committed, or not, after its mail is *)
(* on the queue.                                                            *)
MailLateRefund(r, j) ==
  /\ Enqueue(j, "send-refund-result")
  /\ backed' = [backed EXCEPT ![j] = "open"]
  /\ Start(r, [step |-> "commit", mail |-> j])
  /\ UNCHANGED sent
EndRefund(r) ==
  /\ At(r, "commit")
  /\ \E b \in {"yes", "no"} : backed' = [backed EXCEPT ![call[r].mail] = b]
  /\ Finish(r)
  /\ UNCHANGED <<mail, sent>>

SetMail(j, row) == mail' = [mail EXCEPT ![j] = row] /\ UNCHANGED <<sent, backed, call>>

(* EmailProcessor.process: one job at a time.                               *)
TakeMail(j) ==
  /\ mail[j].state = "waiting"
  /\ \A k \in Mails : mail[k].state \notin {"active", "sent"}
  /\ SetMail(j, [mail[j] EXCEPT !.state = "active"])

(* sendMail, every job name having its handler; then the job completes.     *)
SendMail(j) ==
  /\ mail[j].state = "active"
  /\ sent' = [sent EXCEPT ![j] = @ + 1]
  /\ mail' = [mail EXCEPT ![j].state = "sent"]
  /\ UNCHANGED <<backed, call>>
CompleteMail(j) ==
  /\ mail[j].state = "sent"
  /\ SetMail(j, [mail[j] EXCEPT !.state = "completed"])

\* Mutant: a failed mail goes back without being counted.
SmtpFails_Uncounted(j) ==
  /\ mail[j].state = "active"
  /\ SetMail(j, [mail[j] EXCEPT !.state = "delayed"])

\* Mutant: a mail that has left may be thrown back as well.
SmtpFails_AfterSending(j) ==
  LET made == mail[j].made + 1 IN
  /\ mail[j].state \in {"active", "sent"}
  /\ SetMail(j, [mail[j] EXCEPT !.made = made,
       !.state = IF made < Attempts[mail[j].name] THEN "delayed" ELSE "failed"])

(* The SMTP server refuses, the error is thrown on: later again, up to the  *)
(* number of attempts.                                                      *)
SmtpFails(j) ==
  LET made == mail[j].made + 1 IN
  /\ mail[j].state = "active"
  /\ SetMail(j, [mail[j] EXCEPT !.made = made,
       !.state = IF made < Attempts[mail[j].name] THEN "delayed" ELSE "failed"])

BackoffEnds(j) ==
  /\ mail[j].state = "delayed"
  /\ SetMail(j, [mail[j] EXCEPT !.state = "waiting"])

(* The worker dies, before the mail has left or after.                      *)
MailWorkerDies(j) ==
  /\ mail[j].state \in {"active", "sent"}
  /\ SetMail(j, [mail[j] EXCEPT !.stalled = @ + 1,
       !.state = IF mail[j].stalled < MaxStalled THEN "waiting" ELSE "failed"])

Deliver(j) == TakeMail(j) \/ SendMail(j) \/ CompleteMail(j) \/ BackoffEnds(j)

MailNext ==
  \/ \E j \in Mails :
       \/ \E name \in MailJobs : MailOtp(j, name)
       \/ MailContact(j) \/ Deliver(j) \/ SmtpFails(j) \/ MailWorkerDies(j)
       \/ \E r \in Requests : MailLateRefund(r, j)
  \/ \E r \in Requests : EndRefund(r)

MailFairness ==
  \A j \in Mails : /\ SF_mailVars(TakeMail(j))
                   /\ WF_mailVars(SendMail(j) \/ CompleteMail(j) \/ BackoffEnds(j))
MailSpec == MailInit /\ [][MailNext]_mailVars /\ MailFairness
-----------------------------------------------------------------------------
(* A mail that is delivered has left at least once, and no more often than  *)
(* once and once for each time the worker died.                             *)
DeliveredMailLeft ==
  \A j \in Mails : mail[j].state = "completed" => sent[j] \in 1..(1 + mail[j].stalled)

(* Every mail that was put on the queue is delivered or given up, however   *)
(* often the server refuses or the worker dies.                             *)
MailsSettle == <>[](\A j \in Mails : mail[j].state \in {"none", "completed", "failed"})
=============================================================================
