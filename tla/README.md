# TLA+ models of Trip Planner OTA

This directory specifies Trip Planner: the backend where several actors write the
same rows (bookings, seats, payments, refunds, vouchers, points, accounts, tokens,
one-time codes, permissions, prices, reviews, posts, files, mails), and the parts of
the frontend that keep a state of their own while requests are in flight (the
booking wizard, the payment window, the wishlist, the views). The models are checked
with TLC on small instances, and their main safety properties are proved with TLAPS
for instances of any size. Paths below
are relative to `src/`; `booking.service.ts` and the like are under
`backend/src/modules/`, the worker under `backend/src/jobs/`.

## 1. The system

A NestJS backend over MySQL (through Prisma), with BullMQ queues in Redis and a
Next.js frontend. Every HTTP handler is asynchronous: it runs up to an `await`,
and other handlers, the gateways' callbacks and the queue worker run in between.
Nothing is shared in memory: the rows of the database are the shared state.

| part | state | operations | what makes it hard |
|---|---|---|---|
| Booking lifecycle (`booking/booking.service.ts`) | Booking, BookingStatusHistory, BookingPassenger, BookingItem, FlightSeat | create a draft, passengers, seat selection, voucher, items, status changes | checks made before the transaction that relies on them; a state machine with five writers |
| Payments (`payment/payment.service.ts`) | Payment, Refund | initiate by VNPay or SePay, two callbacks, poll, refund request | repeated and late callbacks; snapshots used to release seats; conditional and unconditional updates side by side |
| Expiry (`jobs/booking-expiry.processor.ts`) | the BullMQ job | cancel after 15 minutes, give back voucher and seats | races with payment; one attempt only; stalled jobs |
| Vouchers (`applyVoucher`, admin) | Voucher, VoucherRedemption | redeem, give back, create, delete | a limit shared by all users |
| Membership (`membership/membership.service.ts`) | PointTransaction, UserPoints | award points on completion | a transaction of its own inside another one |
| Admin (`admin/admin.controller.ts`) | all of the above | set a booking's status, edit rows | may ask for any status at any moment |
| Authentication, sessions (`auth/`) | RefreshToken, OtpCode, LoginHistory, User.status, UserSession, the cookies of a browser | login, refresh, logout, codes, register, reset, change password, lock, delete, restore | no handler opens a transaction: tokens are rotated without a condition, counters are checked and incremented apart, locks overwrite each other |
| Roles and permissions (`common/guards`, `rbac/`) | RolePermission, a copy cached for five minutes | guard, remove, create, seed defaults | a cache filled after it was invalidated; the process or Redis failing between the rows and the entry |
| Prices (`booking.service.ts`, `payment.service.ts`) | BookingItem, totalAmount, Payment.amount | items, passengers, seats, vouchers, refresh, pay | a total recomputed from a snapshot; an amount read before the transaction that charges it |
| Reviews (`review/`) | Review, helpfulCount, ReviewVote | create, vote | check then act; counters |
| Wishlist (`wishlist/`, `wishlistStore.ts`) | Wishlist, the hearts of each tab | toggle, sync | optimistic display, answers in any order, lost answers |
| Blog (`blog/`, admin) | BlogPost, BlogPostTag | create, edit, publish, schedule, unpublish, delete, view | several statements without a transaction |
| Uploads (`upload/`) | files on disk, MediaFile, User.avatarUrl | upload, check, delete | disk and rows change in different steps |
| E-mail (`email/`, `jobs/email.processor.ts`) | the BullMQ queue `email` | enqueue, send, retry | refusals, stalled jobs, a worker that dies after the mail left |
| Payment window (`SePayModal.tsx`) | countdown, loop of polls | open, poll, close | a poll answered after its effect was cleaned up sets a new timer |
| Booking wizard (`bookingFlowStore.ts`, pages under `/booking`) | the store, partly kept in localStorage | edit, pay, reload | up to eight calls from one reading of a store that may change; reloads in between |
| Views (`frontend/src/views`) | what each shows | load, change, navigate | nothing is aborted: answers arrive in any order, toasts keep old closures |
| Users, FAQ, flights, tours, analytics, logs | rows of their own | edits, reads | little: single rows, searches, append-only logs |

What makes each part correct:

* **Seats.** No seat is given to two passengers of live bookings; a release or a
  sale touches only seats of the booking it is made for; a sold seat is never
  sold again, and what a cancelled booking keeps stays as it is.
* **Bookings.** Statuses follow `BOOKING_TRANSITIONS` whoever writes them, and the
  history tells the same story as the status; an unpaid booking expires.
* **Payments.** A payment is SUCCESS only for a booking that is confirmed in the
  same transaction; a booking is confirmed only with a payment that is SUCCESS;
  a booking is bought once, and money that was taken does
  not lapse.
* **Vouchers.** The counter is the number of redemptions and stays within the limit.
* **Points.** Points are given once, and only for a completed booking.
* **Authentication.** A refresh token is dead before anything is issued from it; what
  revokes the tokens of a user leaves none of those that existed; a browser nobody
  signed out, whose refreshes do not overlap, stays signed in; repeated failures
  lock the account; a one-time code is used once and the guesses at it are bounded.
* **Permissions.** The guard answers by the rows, except in two races and one failure
  that can be named, and a removed permission does not work for ever.
* **Prices.** A total computed without interference is the price of what is booked; a
  payment asks for the total, unless a request that changes it was in flight.
* **Reviews, wishlist, membership.** A vote is counted once (one review per user and item is
  claimed, and broken); a settled heart is the row; the tier follows from the points.
* **Blog, uploads, e-mail.** A post keeps its status, dates, slug and tags together; a
  media row has its file; every mail is delivered or given up.
* **Client.** The payment window tells the outcome; a submission carries the choices of
  the wizard as they were; a view at rest shows what its user asked for.

## 2. How the code is modelled

**Rows are variables, handlers are records.** `BookingTables` declares one variable
per column that matters. A handler in flight is a record `req[r]`: the operation,
the step it has reached and what it has read (`bs`, `ps`, `late`, `seats`).

**What is atomic.** A read made outside a transaction is a step of its own, so
whatever it read may be stale at the next step (`ReadDraft`, `InitiateRead`,
`ReadExistingPayment`, `GetPaymentStatus`, `RequestRefund`, `TakeJob`). A
transaction is one step, its commit, because InnoDB shows its writes at the
commit. Under REPEATABLE READ its plain reads come from a snapshot, while
`updateMany ... where` looks at the rows as they are: a transaction whose snapshot
is used without being checked again has a separate snapshot step before its commit
(`VnpayCallback`, `SepayWebhook`, `SnapshotPaymentStatus`). A conditional update
is a guard of the commit, an unconditional one simply overwrites. Prisma's
`updateMany` is taken to be one UPDATE statement.

**Failures.** `Abort(r)` ends any handler at any step and leaves no trace of the
step it was about to take: every `throw`, every early `return`, a deadlock victim, a
lost connection, a crashed process. What a handler has committed before stays (the booking
without its expiry job; the points without the completion).

**Row locks.** The only transaction that waits for something outside the database
while it holds a row is the completion, which waits for `awardPoints`. `Unlocked(b)`
makes the other writers of that booking row wait, and the children whose foreign key
points at it.

**Time.** `PaymentTimeout(b)` lets `expiredAt` pass at any moment after a QR code was
made; the expiry job may be due at any moment after it was queued. No property
depends on how long things take.

**History variable.** `holder[s]` is not in the database: it remembers which
booking's request locked seat `s`. It is written by the steps that lock and release,
and no guard reads it.

**Accounts and services.** The handlers of `auth/`, `rbac/`, `review/`, `blog/`,
`upload/` and their admin endpoints open no transaction, except for the deletion of a user,
the edit of a post with its tags, a vote and an award of points: elsewhere every `await`
on the database, the cache or the disk ends a step. A handler in flight is again
a record, `call[r]`, with its step and what it has read; `AuthTables` and `Handlers`
give the vocabulary (`Start`, `At`, `GoTo`, `Finish`). A handler that only reads or
does one write is one step. On the client the same records are the requests in
flight, and an answer may come at any time, in any order, or not at all.

**Clocks.** A lock grows older than 30 minutes (`LockAges`), a failed login leaves the
window of 15 minutes (`FailureAges`), tokens and codes expire (`TokenExpires`,
`AccessExpires`, `OtpExpires`), a cache entry reaches its TTL (`EntryExpires`), `expiredAt`
passes (`PaymentDue`), the browser's countdown ends on a clock of its
own (`CountdownEnds`): each is an action that may come at any moment. The entry that a logout
puts on the blacklist lapses too (`BlacklistLapses`), and long before the access token it names:
`auth.service.ts:410-412` counts seconds where the cache takes milliseconds. An access token is
therefore `good`, `blacklisted` or `dead`, and a blacklisted one may be good again.

**Passwords, codes, tokens.** A request carries the right one or a wrong one; a password
is the number of its changes; bcrypt is the time between the read and the write.

**History variables** are written only, no guard reads them. `adminLock`, `reopened`,
`cut`, `signedOut`, `old`, `guesses`, `uses`, `upset` in the accounts say who locked, which
tokens were revoked together, which were issued for an old password, how often a
code was compared and accepted, and which browsers had refreshes that overlapped or
went unanswered. In the services `tainted`, `unsettled`, `lost`, `crowded`,
`unpriced`, `late`, `last` and `stale` mark the races and failures a property
excepts, so that it shows there is no other; `discount` and `mine` remember what the
rows do not.

**Data left out.** Amounts appear only in `BookingPricing`; dates and contents of messages
nowhere. The callbacks' signature and amount checks appear as a choice (`responseOk`,
`amountOk`) or as an abort. Voucher dates are aborts.

## 3. Modules

| module | models | definitions |
|---|---|---|
| `BookingTables` | `schema.prisma`, the state machine, seat moves, `updateBookingStatusWithTx` | variables, `TypeOK`, `Init`, `CanTransition`, `Transition`, `Confirm`, `ReleaseSeats`, `BookSeats` |
| `BookingService` | `booking.service.ts`, `awardPoints` | `CreateDraft`, `EnqueueExpiry`, `ReadDraft`, `UpdatePassengers`, `SelectSeatForPassenger`, `ApplyVoucher`, `UpdateStatus`, `CompleteWithoutPoints`, `CompleteBegin`, `AwardPoints`, `CompleteCommit`, `Abort` |
| `PaymentService` | `payment.service.ts` | `InitiateRead`, `ReadExistingPayment`, `CommitInitiatePayment`, `CommitInitiateSepay`, `PaymentTimeout`, `VnpayCallback`, `CommitVnpayCallback`, `SepayWebhook`, `CommitLatePayment`, `CommitSepayWebhook`, `GetPaymentStatus`, `SnapshotPaymentStatus`, `CommitExpiredPayment`, `RequestRefund`, `CreateRefund` |
| `BookingExpiry` | `booking-expiry.processor.ts`, BullMQ | `TakeJob`, `ExpireBooking`, `ExpireNothing`, `JobFails`, `WorkerCrash` |
| `TripBooking` | all of them together | `Next`, `Spec`, `FairSpec` and the properties |
| `SeatInventory` | what is promised about seats (abstract) | `Hold`, `Confirm`, `Cancel` |
| `Checkout` | what is promised about money (abstract) | `Ask`, `Take`, `Refuse`, `Lapse`, `Late`, `Leave` |
| `MCTripBooking` | instances for TLC | constants, symmetry |
| `AuthTables` | the rows of authentication, helpers of `auth.service.ts` and `session.service.ts` | variables, `TypeOK`, `Authenticated`, `RevokeTokens`, `DeleteTokens`, `DeactivateSessions` |
| `AuthService` | `auth.service.ts`, `session.service.ts`, `api.ts` | `Login`, `AutoUnlock`, `WrongPassword`, `CountFailures`, `AutoLock`, `CreateSession`, `IssueTokens`, `Refresh`, `Rotate`, `RevokeAllTokens`, `RevokeAllSessions`, `Logout`, `Reply`, `RefreshRefused`, `Drop`, `ChangePassword`, `StorePassword`, `ForgetTokens`, `RevokeSessions` |
| `OtpService` | codes, registration, reset | `RequestOtp`, `CreateOtp`, `SubmitOtp`, `WrongOtp`, `ConsumeOtp`, `CreateUser` |
| `AccountAdmin` | `admin.controller.ts` on users | `UpdateUser`, `LockUser`, `UnlockAccount`, `WriteStatus`, `DeleteUser`, `RestoreUser` |
| `Accounts` | the three above with browsers and time | `BlacklistLapses` and the other clocks, `Next`, `Spec` and the properties |
| `Handlers` | handlers of the services | `Start`, `At`, `GoTo`, `Become`, `Finish` |
| `PermissionCache` | `authorization.guard.ts`, `rbac.controller.ts` | `CanActivate`, `QueryPermissions`, `StorePermissions`, `RemovePermission`, `CreatePermission`, `SeedDefaults`, `ForgetRole`, `CutOff`, `EntryExpires` |
| `BookingPricing` | items, totals, discounts, the amount charged | `AddItems`, `ReplacePassengers`, `TakeSeat`, `Redeem`, the `Read...` and `Write...` steps of their transactions, `Pay`, `CreatePaymentRow` |
| `ReviewService` | `review.service.ts` | reviews of a flight and votes |
| `MembershipService` | `membership.service.ts` | points, balance, tier, its notification |
| `WishlistSync` | `wishlist.service.ts`, `wishlistStore.ts` | toggles and syncs of several tabs |
| `BlogService` | `blog.service.ts`, admin posts | `CreatePost`, `EditPost`, `PublishPost`, `SchedulePost`, `UnpublishPost`, `DeletePost`, `GetPost` and their steps |
| `MediaStore` | `upload.controller.ts` | `Upload`, `ValidImages`, `InvalidImage`, `RecordFile`, `DeleteMedia`, `Unlink`, `ForgetFile`, `MediaFails` |
| `MailQueue` | `email.service.ts`, `email.processor.ts`, BullMQ | `MailOtp`, `MailContact`, `MailLateRefund`, `TakeMail`, `SendMail`, `SmtpFails`, `BackoffEnds`, `MailWorkerDies` |
| `PaymentModal` | `SePayModal.tsx` and the payment it waits for | `OpenModal`, `TimerFires`, `PollReads`, `PollExpires`, `PollAnswers`, `PollError`, `CountdownEnds`, `CloseModal` |
| `BookingWizard` | the pages under `/booking`, `bookingFlowStore.ts` | one action per page, `Reload`, `HandlePay`, the calls of `submitBooking` |
| `ScreenTable` | every view that loads or saves, as a row | one definition per view |
| `Screens` | the machine all of them run | `OpenScreen`, `SetParam`, `Press`, `ReadRows`, `ShowAnswer`, `LoadFails`, `Change`, `Commit`, `Changed`, `LeaveScreen` |
| `MCAccounts`, `MCServices` | instances for TLC | constants; in `MCServices`, `part` chooses the service a behaviour is about |
| `TripBookingProofs`, `SeatProofs`, `LedgerProofs`, `AuthProofs`, `TokenProofs`, `LimitProofs`, `ServiceProofs`, `ClientProofs` | theorems | see section 6 |

`PaymentService` extends `BookingService` because the code calls it inside its own
transactions; `BookingExpiry` extends only the tables because the worker writes the
rows itself. `TripBooking` composes both. `SeatInventory` knows nothing of
requests: `TripBooking!Inventory` maps `holder`, the BOOKED seats and a
three-valued phase of a booking to it. `Checkout` knows nothing of them either:
`TripBooking!Purchase` maps the bookings, the words of the payments and the history table (a
booking is bought when a row of its history says CONFIRMED) to it. `AuthService`, `OtpService`, `AccountAdmin` and
`Accounts` extend one another in that order: a reset ends sessions and tokens with
the helpers of the first, an administrator's lock is the column a login reads. The
services share no table with each other and are specifications of their own over
`Handlers`; `MCServices` puts them side by side so that one run checks them all
without a product of their states. `ScreenTable` reads each view once and says in what it
differs from the others (what makes it load, what an error and a change do); `Screens`
takes one row at the start of a behaviour, so each property is checked for every view.

Operators whose name carries a suffix after `_` (`SelectSeatForPassenger_VersionOnly`)
are faulty variants of the operator named before the suffix. They are in no
specification: they show that the properties notice the fault.

## 4. Runs

The runs of the booking part use `MCTripBooking`, those of the accounts `MCAccounts`, and `services` uses `MCServices`; `review_claim` runs
`ReviewService` itself. Deadlock is not an error in them:
the system may come to rest (all bookings ended, no client, a bound reached).

| run | instance | checks |
|---|---|---|
| `seats` (`MCSeats.cfg`) | 2 bookings, 1 seat, 2 passengers, 2 requests; drafts, passengers, seats, VNPay, expiry | `NoDoubleSale`, `LiveSeatIsHeld`, `StaleListsAreOwn`, `SeatsAreInventory`, `SettledSeatsStay` |
| `payments` (`MCPayments.cfg`) | 1 booking, 1 seat, 1 passenger, 2 requests; all endpoints but vouchers, the cancellations among them | `TypeOK`, `HistoryEndsInStatus`, `SuccessMeansConfirmed`, `FailedMeansOver`, `LegalTransitions`, `ConfirmedByPayment`, `PaymentsAreCheckout`, `SettledSeatsStay` |
| `expiry` (`MCExpiry.cfg`) | 2 bookings of 2 users, 2 vouchers (limits 1 and none), 2 requests, `FairSpec` | `VoucherAccounting`, `UnpaidExpires` |
| `paid_claim`, `booked_claim`, `expiry_claim`, `points_claim` | 1 booking, 2 requests | each refutes one statement, section 5 |
| `accounts` (`MCAccounts.cfg`) | 1 user, 1 browser, 3 tokens, 2 sessions, 2 codes, 2 handlers; five scenes | `TypeOK`, `RotatedBeforeIssued`, `NoSurvivor`, `UndisturbedBrowserStaysSignedIn`, `RepeatedFailuresLock`, `OtpUsedOnce`, `GuessBound` |
| `lock_claim`, `password_claim` | the same, one scene each | each refutes one statement, section 5 |
| `services` (`MCServices.cfg`) | 2 handlers in flight; eleven parts, one per behaviour | below |
| `review_claim` (`MCReviewClaim.cfg`) | `ReviewService` alone, 2 users, 2 reviews | refutes `OneReviewPerItem`, section 5 |

`services` checks, by part (distinct states of the part in parentheses):

| part | instance | properties |
|---|---|---|
| `permissions` (42k) | 3 roles, 3 codes, two removals or seedings | `StaleEntryExplained`, `RevocationTakesHold` |
| `pricing` (66k) | three menus of three kinds of request, a voucher of 50% capped at 2, a payment | `TotalIsPrice`, `ChargedIsTotal` |
| `reviews` (13k) | 2 users, 2 reviews | `VotesAreCounted` |
| `membership` (0.6k) | 1 member, awards of 1 and 2, tiers at 0 and 3 (the seed's lowest tier is 0, too) | `TierIsEarned` |
| `wishlist` (2k) | 2 tabs | `HeartIsRow` |
| `blog` (14k) | 2 authors, 2 posts, 1 slug, 1 tag | `PostsAreWhole` |
| `media` (15k) | 2 users, 2 files | `MediaRowsHaveFiles` |
| `mail` (23k) | 2 jobs, 2 attempts for codes and 1 for the others, 1 stall | `DeliveredMailLeft`, `MailsSettle` |
| `modal` (21k) | 2 payments opened one after the other | `ModalTellsTheTruth`, `ModalTellsTheOutcome` |
| `wizard` (35k) | 2 orders, passengers and baggage | `SubmissionIsWhole` |
| `screens` (72k) | every row of `ScreenTable`, 2 questions, 2 loads, 2 changes | `ScreenAnswersItsQuestion` |

`ServicesTypeOK` is the type invariant of the part that runs.

**Bounds.** Two bookings that compete for one seat, with two requests, are enough
for every race the properties are about: each race is between two handlers, or one
handler and the worker, which is an actor of its own. The seat run includes a
list of seats read by one handler, a release and a new lock by another, and the worker's
own list. `Ops` limits the endpoints of a run and keeps the product small;
`Versions` (0..6) covers all the versions a client can name and a seat can reach in
the seat run: seats leave the AVAILABLE state at most once per booking and come back at most once.
In `payments` one booking is enough for the gateways, the polls and the cancellations, for each of
them touches the rows of its own booking; seats and vouchers are what bookings share, in the runs `seats` and `expiry`.
`MaxRefunds` and `MaxAwards` (2) bound two counters that
nothing else bounds; two is one more than the code intends. Symmetry is used only in
the runs that check no liveness, over bookings, requests, passengers and seats (tokens,
sessions and handlers in `accounts`).

In `accounts`, `Scenes` is a set of sets of endpoints, inputs and clocks, and a
behaviour uses the members of one: signing in with tokens that expire (`SignIn`), signing out
with a blacklist that lapses (`SigningOut`), what ends all tokens (`Leaving`), locks (`Locking`),
codes (`Codes`). One user is enough because no handler of
`auth/` reads another user's rows; two handlers because every race is between two
statements of two requests; three tokens because the longest story is a token, the one it
was exchanged for and one that a second login issues; two codes because the newest is
preferred to the others. `FailLimit` and `MaxAttempts` are 2 in place of 5: the
second failure is the first that can meet the limit, and `MaxFailures` leaves one more.
In the services the same argument holds: two handlers, and of everything they compete
for one more than a single handler uses. Menus (`pricing`) are sets of three kinds
of request that touch the same total, chosen so that each pair of kinds that changes
the seats, the items or the passengers meets in one of them; the voucher and the payment
are always there. Two edits (`MaxEdits`) let one edit's invalidation meet the other's, and
one be cut off while the other completes; the other bounds (`MaxReviews`, `MaxPosts`, `MaxPoints`, `MaxViews`, `MaxOrders`, `MaxAsks`,
`MaxWorld`) stop counters that nothing else stops.

**Fairness** (`expiry`). Weak fairness of `TakeJob(b)`: BullMQ's worker is kept
running and takes due jobs. Weak fairness of the running job's end
(`ExpireBooking`, `ExpireNothing` or `JobFails`): `process` returns or throws.
Weak fairness of the abort of a completion in flight: Prisma ends a transaction after 5
seconds. `WorkerCrash` happens at most once per job because BullMQ's
`maxStalledCount` is 1; a job lost twice is `failed`. Clients, gateways and
administrators owe the system nothing.

**Fairness** (`services`). Permissions: weak fairness of `EntryExpires`, because Redis
drops an entry at its TTL; requests owe nothing. Mail: strong fairness of `TakeMail`
and weak fairness of sending, completing and the end of a backoff, because the
worker is kept running (a stall returns the job to the queue, so waiting for it is not
continuous) and BullMQ's delayed jobs come back; that the server refuses and the worker
dies is always possible, and bounded by `Attempts` and `MaxStalled` as in the options.
Payment window: weak fairness of `TimerFires`, `PollExpires` and
`PollAnswers`, because the browser runs due timers and every request is answered or
fails in the end; strong fairness of `PollReads`: requests may fail as often as they like,
but the server does not refuse for ever. Each is
a conjunct for its own part and vacuous in the others.

## 5. What the runs refute

Each of these runs checks one statement that the code's own messages make, and TLC
gives a short trace against it.

* `ConfirmedIsPaid` (`payment.service.ts:203`, `booking.service.ts:474`). SePay
  initiation reads the payment (PENDING), VNPay's success is committed, then the
  unconditional update at `payment.service.ts:222` makes the payment PENDING
  again, under a CONFIRMED booking. The VNPay path guards the same write (line 57).
* `ConfirmedSeatsBooked` (`booking.service.ts:477`). A seat selection finds the
  booking DRAFT (line 104); the booking is paid and confirmed, which books the
  seats its passengers have; then the selection commits. The passenger of the
  CONFIRMED booking has a seat that is LOCKED, and nothing will ever book it. The
  seat can go to nobody else either (`LiveSeatIsHeld`).
* `ExpiryReleasesSeats` (`booking-expiry.processor.ts:68`). A passenger with a
  locked seat is replaced by `updatePassengers`; the booking expires; the seat stays
  LOCKED and no code can free it. Choosing another seat has the same effect.
* `PointsForCompletion` (`membership.service.ts:25`). The points are committed, the
  outer transaction is rolled back: points without a completion, and given again
  at the next attempt.
* `AdminLockHolds` (`admin.controller.ts:153`; the comment at `:174` says that a lock by an
  administrator is not bypassed by the automatic unlock). The account was locked
  automatically; an administrator sets its status to LOCKED with `updateUser`, which
  leaves `lockReason`; thirty minutes later a login unlocks it.
* `NewPasswordSignsOut` (`auth.service.ts:259`; the comment at `:543` says why a reset
  revokes every token). A login has compared the old password and is about to issue its
  tokens; the reset stores the new password and revokes every token there is; then the login issues
  one more. It is valid for its full lifetime.
* `OneReviewPerItem` (`review.service.ts:60`; the comment at `:59` says that one user writes one review
  per item). Two requests of one user both look before either creates its row, and no key forbids
  the second.

Five more statements of the repository are contradicted by behaviour that the models contain. They
have no run of their own: the last two fail by a single statement, the others by the patterns above.

* Two requests for a refund pass the check (`payment.service.ts:411`) before either creates its row;
  line 415 answers that a request already exists.
* A refresh that has revoked its token (`auth.service.ts:383`) and not yet issued the next one
  (line 394) issues a valid one after the reuse branch (line 369) has revoked all there were;
  line 378 and the repository's `README.md:107` say that a reuse ends every session.
* `applyVoucher` "ensures" a fresh total (`booking.service.ts:161`) with a transaction of its own that writes
  the sum of its snapshot: the total of meals committed meanwhile is overwritten. `TotalIsPrice`
  excepts transactions that are open together (`crowded`), so it says nothing of this race.
* A logout blacklists the access token (`auth.controller.ts:101`, the repository's
  `README.md:184`) for a number of seconds that is taken as milliseconds
  (`auth.service.ts:410-412`): the token works again within a second (`BlacklistLapses`).
* Deleting a user (`admin.controller.ts:196`) deletes the tokens and leaves the sessions active, which
  the comment at `:189` says are revoked too.

Behaviour that the models contain but no statement in the repository is about, and
that a maintainer may want to know: cancelling by the owner releases
neither seats nor voucher (and nothing else will: `SettledSeatsStay`); a success callback for a booking that was cancelled is rejected
without a refund row; a seat selection that commits after the booking was cancelled
keeps its seat LOCKED for ever; the worker returns one voucher only; a
crash between `booking.create` and `queue.add` leaves a draft that never expires.

Met while reading, for the same reader:

* Accounts: `assignPermission` answers 400 to every request over HTTP, because the field of
  its DTO has no validator and the global pipe refuses unknown fields.
* Bookings: a seat selection computes no total; a voucher's discount is dropped by the next
  recalculation; no code sets a refund to REFUNDED; `getPaymentStatus` answers EXPIRED
  also when the webhook committed SUCCESS in between (the row stays SUCCESS,
  `PaymentsAreCheckout`).
* Mail: `sendBookingConfirmation` and `sendInvoice` are called from nowhere; the mail of a late
  payment is queued before the transaction that creates its refund commits, with the status
  REQUESTED, which the template treats as a refusal.
* Blog, reviews, uploads: nothing publishes a SCHEDULED post; reviews of tours cannot be
  written, for no code creates a TOUR_SLOT item; deleting a media file leaves the
  `avatarUrl` that names it, and an upload that fails halfway leaves files without a row.
* Wizard: the pipe refuses the fields that `submitBooking` sends for passengers, so a booking
  with passengers fails after its draft was created; a reload empties the
  passengers and then it passes; `isLoading` is kept in localStorage, and the pay button stays
  disabled after a reload in the middle of a submission.
* Payment window: a poll that is answered after the window was closed starts a loop that
  no cleanup ends, for as long as the payment is pending.
* Views: a slow answer overwrites a newer one (the search of flight statuses has no guard on the
  Enter key); what is typed in the settings form before its load is answered is overwritten by the
  answer, saved or not; a list is loaded again with the search of an older
  render; several views call routes the backend does not have (`NoLoad` in `ScreenTable`).

## 6. Proofs

The theorems of the booking part hold for all values of the constants that satisfy
`TablesAssumption` (`None` is no booking and no seat, limits and bounds are natural
numbers, every booking has an owner); `Bookings`, `Seats`, `Passengers`, `Vouchers` and `Requests` may be
any sets, finite or not. Those of the accounts assume `AuthAssumption`, where the
handlers in flight are finitely many because a bound counts them; those of the services
`HandlersAssumption` (finitely many handlers, at least one) and the assumption of their module
(`PricingAssumption`, `ReviewAssumption`, `MediaAssumption`, `CacheAssumption`,
`BlogAssumption`, `MembershipAssumption`, `MailAssumption`, `ModalAssumption`,
`WizardAssumption`, `ScreensAssumption`), which only fix the types of the constants and that users,
files and tiers that are counted or compared are finite sets.

| theorem | module | states |
|---|---|---|
| `TypeCorrect` | `TripBookingProofs` | `Spec => []TypeOK` |
| `NoDoubleSaleHolds`, `LiveSeatIsHeldHolds`, `StaleListsAreOwnHolds` | `SeatProofs` | the seat invariants |
| `LegalTransitionsHold` | `SeatProofs` | statuses follow `BOOKING_TRANSITIONS` |
| `SeatsAreInventoryHolds` | `SeatProofs` | `Spec` implements `SeatInventory` |
| `SettledSeatsStayHolds` | `SeatProofs` | a seat that is sold, or that a cancelled booking has kept, never moves |
| `VoucherAccountingHolds` | `LedgerProofs` | counter = redemptions, within the limit |
| `HistoryEndsInStatusHolds`, `SuccessMeansConfirmedHolds`, `ConfirmedByPaymentHolds` | `LedgerProofs` | history and payments |
| `FailedMeansOverHolds` | `LedgerProofs` | a payment given up ends its booking |
| `PaymentsAreCheckoutHolds` | `LedgerProofs` | `Spec` implements `Checkout` |
| `AuthTypeCorrect` | `AuthProofs` | `TypeOK` of the accounts |
| `RotatedBeforeIssuedHolds`, `NoSurvivorHolds` | `TokenProofs` | tokens |
| `RepeatedFailuresLockHolds`, `OtpUsedOnceHolds`, `GuessBoundHolds` | `LimitProofs` | locks and codes |
| `BrowserStaysSignedIn` | `TokenProofs` | the undisturbed browser |
| `PricingTypeCorrect`, `TotalIsPriceHolds`, `ChargedIsTotalHolds` | `ServiceProofs` | prices |
| `StaleEntryExplainedHolds` | `ServiceProofs` | the guard's cache |
| `VotesAreCountedHolds`, `HeartIsRowHolds`, `PostsAreWholeHolds`, `MediaRowsHaveFilesHolds` | `ServiceProofs` | reviews, wishlist, blog, uploads |
| `TierIsEarnedHolds`, `DeliveredMailLeftHolds` | `ServiceProofs` | points and tiers, mails |
| `SubmissionIsWholeHolds`, `ModalTellsTheTruthHolds`, `ScreenAnswersItsQuestionHolds` | `ClientProofs` | wizard, payment window, views |
| `ServicesTypeCorrect` | `ClientProofs` | `ServicesTypeOK`, whichever part runs |

**Types.** `TypeInv` adds to `TypeOK` what a request in flight looks like
(`InFlight`): it has a booking, and what it has read fits its operation.
Frame lemmas state which groups of variables an action leaves alone, so each action
is looked at only for the rows it writes.

**Seats.** `NoDoubleSale` is not inductive: that a release is harmless depends on what
the releasing handler has read before. The inductive invariant is
`IInv == TypeInv /\ Pinned /\ SeatInv`. `SeatInv` joins the three seat invariants
with `SeatFree` (a seat is AVAILABLE exactly when no booking holds it): the seats of a
live booking's passengers are its own, hence so is any list read from them, and a
list stays its booking's because only steps that cancel the booking free its seats.
A release by such a list is conditional on the booking's status, and `CANCELLED` is
never left, so it meets its own seats. `Pinned` says that a booking whose completion is in flight
is CONFIRMED and has one completion in flight only (the row lock); without it the
second step of a completion could not be shown to be a legal transition. The refinement
and the action property follow from `IInv` step by step: `Hold` for a seat
selection, `Confirm` and `Cancel` for the status changes, a stutter for
everything else. `SettledSeatsStay` needs the lists as well: a worker or a callback that acts
on what it read long ago meets LOCKED seats only, of a booking that it finds open, and a
seat that is settled is neither.

**Ledger.** Each action is reduced to its effect on the voucher rows (redeem one,
give one back, nothing) and on history and payments (append one history row, with
at most one payment becoming SUCCESS and only if that row says CONFIRMED). Then the
invariants are shown against the effects alone. The voucher proof counts with the
library's cardinality theorems. `ConfirmedByPayment` follows from
`SuccessMeansConfirmed` and `ConfirmedLasts` (a booking that was confirmed is CONFIRMED or
over): a booking in PENDING_PAYMENT never has a payment that is SUCCESS already.

`FailedMeansOver` is not inductive: a callback that gives a payment up may leave
the booking alone when its snapshot showed a booking that was over. `GiveUpInv` adds that such a snapshot is
never wrong later (`SoundSnapshot`: CANCELLED and COMPLETED are final), and that
requests and payments belong to bookings that exist. Each action is again reduced
to what it does to one request and one payment (`RequestMoves`, `PaymentMoves`).

The refinement of `Checkout` needs one thing more. The poll that finds a QR code run out writes
EXPIRED without a condition, and SUCCESS may have been committed since its snapshot. `CheckoutInv`
says why it does no harm: as long as a booking is open every snapshot of it
shows it open (`OpenSnapshot`), so when the money is taken, which closes it, every snapshot left
shows a status the booking has lost (`PaidSnapshot`); the poll's cancel is conditional on
that status, fails, and takes the EXPIRED back. The money a callback decides about has been
asked for (`CallAsked`, `RowAsked`). A step that changes a payment is then one of five
actions of `Checkout`; one that does not is `Leave` or a stutter, because a CONFIRMED without money in
the same step is excluded by `RecordInv`. What `Checkout` does not promise is what the code does
not keep: `Ask` may follow `Take` (the claim `ConfirmedIsPaid` fails by it) and
`Late` may overwrite anything.

**Accounts.** `AuthProofs` shows `TypeOK` together with what each step says of its
handler (`HandlerFacts`) and of the tokens (`TokenFacts`). Above it, no action is looked at twice: each is one of
a few shapes of step. For tokens (`TokenProofs`) a step works without touching
them, issues, refreshes, rotates, revokes all tokens of a user, or ends a handler.
`TokenInv` says that the parent of a token is settled, that a token that was cut is not
valid, and what a handler about to issue has done before: a refresh that is about
to issue has revoked its own token, and nothing makes a token valid again. `LimitProofs`
needs more than its statements: that an account with too many failures is LOCKED *or
a handler that will count or lock is on its way* (`LockInv`), because the count is a
statement after the insert; and that once the attempts of a code have reached the limit, the
guesses so far and the handlers still admitted together stay below the limit plus
the handlers less one (`CodeInv`), a count over a finite set of handlers. `OtpUsedOnce`
follows from the conditional update: a use leaves the state `consumed`, and only a code
that is not consumed is used. `BrowserInv` (at the end of `TokenProofs`) says that a refresh
token is held by one browser only, that an answer on its way to an undisturbed browser
carries a token that works, and that its cookie works when no answer is on its way.

**Services.** `ServiceProofs` has one invariant per part. *Prices*: `ChargeInv` says that
a payment not marked late is alone with the total it has read, so nothing in
flight can change the total behind it, and nothing starts after it; `TotalInv` that a
transaction that is open alone has computed the price of the rows as they will be at its
commit. *Media*: the files of an upload in flight are its own, disjoint from those of any
other and without rows (`MediaInv`), so a clean-up of a bad image removes nobody else's file. *Reviews*:
`helpfulCount` is the number of votes whatever the handlers race, because a vote and its count are one
transaction and the key lets one vote of a user through (`VoiceInv`); nothing is claimed of the
reviews themselves. *Permissions*: a list read and not yet stored is that of the
rows unless an edit overtook it, and an entry is that of the rows unless an invalidation
is pending or the role is tainted (`StaleInv`). *Wishlist*: only the request of a tab
that asks alone can change the row of a settled tab, and the heart is ahead of the row until it
writes (`WishInv`). *Blog*: a row that is there has a slug and the dates of its status,
and a handler about to write puts them in one update (`PostInv`).

*Membership*: an award about to set a tier is alone with its member, whose row it has
locked, and adds to the balance as it is (`TierInv`); that there is a highest tier among those a
balance earns is the one place where an induction is needed, and the library's theorem on
well-founded orders gives it without one of our own. *Mail*: a mail has left at most once for each
worker that died with it, and once more if it was sent (`MailInv`).

**Client.** `ClientProofs` treats what runs in the browser. *Wizard* (`WholeInv`): the
submission under way has read the store once, and its booking has got of that reading what
precedes the step the submission is at (`Before`), whatever the user edits meanwhile and whether a
reload cuts it short. *Payment window* (`ModalInv`): an answer SUCCESS or LATE_PAYMENT on its way
is never contradicted by the row, and no poll is in flight for a window that shows one. *Views*
(`ScreenInv`): every handler in flight knows, if it carries the newest load and its closure is not
an old one, the question on show and no rows older than the user's own change (`Knows`), and so do
the rows on show (`ShownKnows`). A view that is typed into (the settings, the booking's form) shows a saved
edit only when no load's answer has taken its place since it was typed, or still will (`Typed`);
otherwise the save does not count as on show. What the theorem says nothing of: a view whose newest load was not the last answered
(`last = asks`), and a list loaded again by the closure of an old toast (`stale`). For the
views on react-query there is no exception. The proof reads the table only through `Coherent`, three
facts that hold of each of its rows. The types of the services follow from these invariants, by part
(`ServicesInv`).

**Only model-checked.** `UnpaidExpires`, `RevocationTakesHold`, `MailsSettle`,
`ModalTellsTheOutcome`: liveness under fairness is out of the prover's reach. Every invariant and
every action property of the passing runs is proved. The seven refuted statements are shown by
TLC's traces.

## 7. Not modelled, and what is left

Not modelled, and why:

* Flight and tour search, FAQ, analytics and reports: reads. Their views are rows of
  `ScreenTable`.
* Activity and audit log: written, and never read back to decide on anything.
* User profiles, notification lists, the admin's edits of flights, tours, vouchers and
  settings: single rows, last writer wins.
* The encryption of personal fields and the Prisma client: what the models rely on
  of the database is in section 2.
* The stores of searches, comparisons, the cart and the checklist: what the user typed,
  read by one view.
* The loss of the cache as an event of its own: a blacklist entry may lapse, and a permission entry
  expire, at any moment, which covers it.

What a further step would take up: an abstract specification of sign-in (a family of tokens
with one that works) that `Accounts` implements; the wizard composed with `TripBooking`, so that
its orders are bookings (here the draft and each of its parts are one step of the backend); the
refund's own life, if the code is ever given one (no code sets REFUNDED).
