# Mshwar: verification of bookings, payments, guide tours, rides and the planner

Mshwar is a travel marketplace: a Next.js web application over a FastAPI service
over PostgreSQL. What makes it correct is decided in two places. The PL/pgSQL
functions and triggers of `src/mshwar-database/migrations/` take the locks, decide
the transitions and check the money rules, and the Python services call them
inside one request transaction each. Where the services or the pages of the web
application hold state between two requests, and act on it when it may be old, the
protocol is theirs. The specifications here model both: bookings, seats, holds,
payments, refunds and the notifications that tell people of them; the calendar of
a guide and the pages that book a tour; rides with a verified driver; and the
planner with the page that plans a day.

* [1. Inventory of the system](#1-inventory-of-the-system)
* [2. Modules and how they correspond to the code](#2-modules-and-how-they-correspond-to-the-code)
* [3. What each run checks](#3-what-each-run-checks)
* [4. Bounds](#4-bounds)
* [5. Fairness](#5-fairness)
* [6. What is proved](#6-what-is-proved)
* [7. What the runs refute](#7-what-the-runs-refute)
* [8. What is not modelled](#8-what-is-not-modelled)
* [9. Plan](#9-plan)

To repeat the work, in this directory:

    tlc -config MCAnnouncements.cfg MCAnnouncements      # and each .cfg of section 3
    tlapm BookingsProofs.tla                               # and each module *Proofs.tla

Paths below are relative to `src/` (ARCHITECTURE.md is
`mshwar-database/docs/ARCHITECTURE.md`, OPERATIONS.md is beside it, the backlog is
`backlog/mshwar-backlog.md`); a three-digit number such as 019:646 is a
migration of `mshwar-database/migrations/` and a line of it. Where a later
migration replaces a function, the model follows the last one (026 replaces the
cancellation of 019, for example).

## 1. Inventory of the system

| Component | State | Operations | What is hard |
|---|---|---|---|
| **Booking life cycle and checkout** (003, 005, 019, 026; `payments/checkout_service.py`, `payments/state_machine.py`) | `app.bookings`: status, mode, hold_until, inventory_reserved, request_key | draft, commit, replay of a commit, business answer, cancellation, force-cancel, completion | the quote is read before any lock; a retry must find its booking; mode is derived twice; many actors release the same booking |
| **Slot inventory and unit holds** (003, 019:62-95, 288-310) | `app.slots.reserved`, `app.slot_unit_holds`, blackouts, authoritative capacity | reserve, allocate units, release, blackout on/off | one counter and one set of rows must agree over five release paths |
| **Payments, webhooks, refunds, reconciliation** (002, 003, 016, 019, 026) | `app.payments`, `app.webhook_inbox`, `app.refunds`, `app.reconciliation_items`, and the provider | pay, settle, fail, deliver webhook, refund by policy, by the business, by the administrator, reconcile | the provider is asked outside any lock; events are repeated, late and out of order; money that arrives for a dead booking |
| **Hold expiry and scheduler** (019:271-287; `services/api/app/core/scheduler.py`) | `hold_until`, the scheduler's due times | the sweep; the loop that calls it every fifteen minutes | batches, SKIP LOCKED, one bad row in a batch, progress |
| **Outbox and notifications** (001, 019, 020, 024; `payments/outbox.py`, `notifications/`) | `app.outbox`, `app.notifications`, attempts, back-off | enqueue, claim, send, mark, retry, dead-letter, resend | an e-mail sent between a claim and its mark; two dispatchers |
| **Guide tours** (061, 062, 066; `tour-booking-flow.tsx`, `tour-booking-view.tsx`) | schedules, starts, the guide's calendar, reschedule proposals, the pages | book, cancel, propose and answer a move, minimum group, schedules, blocks | clashing starts of one guide; a move frees one start and takes another; pages that are old; answers that are lost |
| **Guide engagements, runs and days** (035-037, 057) | engagement requests, runs, days | ask, accept, cancel, complete | a hired day and the tours of that day |
| **Guide identity, trust, levels, strikes** (033, 038, 065, 066) | trust state, strikes, levels | suspend, strike, appeal | suspension cancels bookings of others |
| **Rides and drivers** (041; `new-ride-form.tsx`, `ride-request-view.tsx`, `driver-inbox.tsx`, `driver-rides.tsx`, `lib/rides.ts`) | ride requests, quotes, rides, reviews, the pages | ask, quote, accept, withdraw, cancel, finish, review, suspend, sweep | quotes written after an unlocked look; a suspension that works on what it read; blind reviews on old pages |
| **Planner** (`services/api/app/planner/`, 018, 057; `plan-flow.tsx`, `day-panel.tsx`, `planner-view.tsx`, `lib/planner.ts`) | sessions, sealed versions, previews, the page | generate, regenerate, lock, replace, refine, save a manual day, check a day | a session is read, planned on for seconds and written back without a lock; answers come to a page that has moved on |
| **Partner trust, exchange, venues** (039, 042, 043) | evidence, partnerships | review, lapse | expiry against use |
| **Groups and shared itineraries** (021, 028) | members, votes, plan versions | invite, vote, edit, book | concurrent edits of one plan |
| **Sessions, sign-in, reset** (007-009, 023) | sessions, tokens | sign in, rotate, reset, revoke | single use of a token |
| **Administrator two-step approval** (052) | pending operations | ask, approve, apply | approval of a stale request |
| **Rate limits** | windows per key | count, refuse | shared windows |
| **Row-level security** | none | predicates | - |
| **Catalogue, search, media; other pages; seeds, brand, operations files** | - | reads, forms, files | - |

How they interact. The checkout takes seats from the inventory and writes the
booking in one transaction. The payment functions change bookings only through
`transition_booking`. The sweep, the guides' days, the administrator's console
and the business portal do the same, and the trigger `check_booking_update` looks
at slot and payments on every confirmation. Every booking event writes an outbox
row by trigger; notifications read the outbox. The provider is reached by HTTP
from the payment service, and answers a second time by webhook. A tour's booking
is a row of the same table, taken through `tour_book` and its look at the guide's
calendar, or through the general checkout without one; an engagement takes a day of
the same calendar. Rides have tables of their own and share the sweep with
bookings. The planner shares nothing with them until a plan is booked.

What makes each part correct, in one line each:

* *bookings*: only the moves of the transition table; nothing released comes back;
  a commit repeated answers with the same booking;
* *inventory*: counter = seats of live bookings = unit rows, within capacity;
* *payments*: paid before confirmed; settled money recorded; refunds within the
  payment; no money recorded unnoticed, late money queued for a person;
* *sweep*: every lapsed hold is released in the end;
* *notifications*: every event reaches its reader or a dead letter; none changes
  a booking;
* *tours*: a guide is never in two places; seats are the parties that hold them;
  a booking that moved is one booking; a start that is held stays;
* *rides*: one accepted quote per booked request, at its price; reviews are blind;
  no request stays open for ever;
* *planner*: a replacement that is accepted is the one that was shown; the page
  waits only for what will come; its verdict on a day is about that day.

The file `PROJECT.json` lists the hazards line by line with the properties that
cover them; where none does, its note says why.

## 2. Modules and how they correspond to the code

    Lifecycle  <--(refines)--  Bookings  <--(refines, EXTENDS)--  Payments
                                   ^
                                   +---------(EXTENDS)----------  Announcements  ...events...>  Notifications

    Delivery     <--(refines)--  Notifications

    GuideAgenda  <--(refines)--  GuideCalendar  <--(EXTENDS)--  TourDesk
                                 PlanSessions   <--(EXTENDS)--  PlanFlow
    RideDeal     <--(refines)--  Rides          <--(EXTENDS)--  RideDesk

    proofs: BookingsProofs, PaymentsProofs, RefundsProofs, AnnouncementsProofs,
            NotificationsProofs, CalendarProofs, RidesProofs, PlanProofs
    runs:   MCBookings, MCAnnouncements, MCPayments, MCNotifications,
            MCCalendar, MCTours, MCPlan, MCRides

The modules of the third column over the calendar, the planner and the rides are
the pages: what a person sees, presses and is answered, composed with the server's
steps by conjunction.

One action is one database transaction, because that is what the code makes
atomic: the functions take row locks before they read what they decide on, and
`get_auth_db` commits once per request. The places where this is not true
are split: `commit_checkout` reads its quote before any lock (019:646),
`pay_for_booking` asks the provider between an unlocked read and its transaction
(`checkout_service.py:90`), the mail workers talk to the mail server between claim
and mark, `tour_book` waits for two locks, `guide_add_block` and `driver_quote` look
without a lock and write later, the suspension of a driver reads its rides and then
cancels them by their ids, and every request to the planner reads its session when
it arrives and writes it at its commit. An error raised by a function or a trigger rolls the
whole transaction back, so a refusal is the absence of a step, or, for the split
ones, an action such as `CommitAborts`, `PayAborts`, `BookAbort` or `Fails`.

**Lifecycle** is the promise: the transition table of `payments/state_machine.py`
plus the pairs of moves that one transaction makes. It knows nothing of seats,
money or time.

**Bookings** is the detailed module. Its state is the columns that decide:

| Variable | Code |
|---|---|
| `status`, `mode`, `hold`, `held` | `bookings.status`, `mode`, `hold_until`, `inventory_reserved`; a booking is named by its `request_key`, "none" before the row exists |
| `reserved`, `unitHolds` | `slots.reserved` and the rows of `slot_unit_holds` |
| `unavailable`, `authoritative` | a closed or blacked-out slot; `capacity_authoritative` |
| `settled` | `sum(payments) >= total_minor` as `check_booking_update` computes it |
| `inflight` | commits that have their quote and wait for their locks |
| `now` | `clock_timestamp()` |

| Action | Code |
|---|---|
| `CreateDraft` | `create_checkout_draft` |
| `QuoteCommit`, then `CommitDraft`, `CommitNew`, `CommitReplay` or `CommitAborts` | `quote_checkout`, then the rest of `commit_checkout`: the draft path, the path through `reserve_booking`, the answer to a known key, a refusal |
| `BusinessConfirms`, `BusinessRejects` | `respond_portal_booking` over `transition_booking` |
| `CancelBooking`, `RefundCancelled` | `cancel_checkout_booking` as 026 replaces it |
| `AdminForceCancel` | `admin_force_cancel` |
| `CompleteDay` | `guide_complete_day`'s update of bookings |
| `AddBlackout`, `DeleteBlackout`, `MarkAuthoritative` | the operator's changes of a slot; the last is a statement by hand that `guard_slot_contract` admits |
| `PaymentSucceeds`, `PaymentFails` | the booking half of `apply_payment_outcome` |
| `Tick`, `Sweep` | the clock; `expire_bookings`, with `L` the rows it skips as locked |

`Reserve` and `Release` are the two halves of `transition_booking` and of the
commit that touch seats: the counter, the unit rows with the numbers that
`allocate_slot_units` derives from the counter, and the flag. A unit that
collides with the EXCLUDE constraint blocks the action, as it aborts the
transaction.

**Payments** extends Bookings and joins each money transaction with the step of
Bookings that the same transaction takes. `intent`, `emitted` are the provider
(external: known only by how the code uses it); `ledger`, `refund`,
`adminRefunds`, `processed`, `queue` are the tables; `paying` is a payment
request between the provider's answer and the record. `PayRead` and `PayRecord`
are `pay_for_booking`; `DeliverWebhook` is `ingest_webhook` and
`process_webhook_inbox`, which share a transaction; `CancelAndRefund` is
`cancel_checkout_booking` with its refund row; `AdminMarkRefunded` is the
console's; `ReconcilePayments` is the job. The two money checks of the triggers
are operators of their own, `PaymentMoves` (`guard_payment`) and `Fits`
(`guard_refund`).

**Announcements** extends Bookings with `told`, what the trigger
`notify_booking_row` (062:865) has emitted for each booking, and `repeated`, what it
has emitted more than once, which the dedupe key of 020 lets through to nobody. A step of Bookings
writes a row once or twice (a commit that confirms at once, a cancellation with a
full refund), and the trigger fires for each write: `RowWrites` lists them,
`Events` is the trigger, `Announce` is conjoined with every step.

**Notifications** is what becomes of an event: the rows of `app.notifications`
and the workers that deliver them. An action is a transaction for `Enqueue`,
`Resend` and `ChangeConsent`; a worker's request is one transaction too, but it
talks to the mail server in the middle of it, so it is split:

| Variable | Code |
|---|---|
| `made`, `status`, `attempts`, `dead`, `waiting` | the rows; `status`; `attempts`; `dead_lettered_at` is set; `next_retry_at` is in the future |
| `logged` | the `attempt_no`s of a row in `notification_attempts`, which are unique |
| `tx` | per worker: which of the two jobs, the rows it has claimed and still has to handle, the outcomes it has not committed, and the consent read with the claim |
| `mailed` | e-mails that left for a row since it was last given back (by a roll-back or a resend); a count nobody in the code keeps |
| `consent` | `user_private.marketing_consent` |

| Action | Code |
|---|---|
| `Enqueue` | `enqueue_user_notification` (020:357), first or repeated |
| `Claim` | `claim_notification_batch` and `claim_confirmation_emails` as 024 replaces them: two queries, FOR UPDATE SKIP LOCKED, a limit |
| `Deliver` | `deliver_one`, or a turn of the loop of `_deliver_email_notifications` |
| `AttemptCollides` | `record_notification_delivery` meets a taken attempt number, raises, and the batch rolls back |
| `Commit` | the marks of the batch become visible: `MarkDispatched` and `MarkConfirmed` |
| `Crash` | the process or the connection ends in the middle |
| `RetryDue`, `Resend`, `ChangeConsent` | a back-off passes; `admin_resend_notification`; `unsubscribe_marketing` |

**Delivery** is the promise of a notification (docs/notifications.md, "Retry and
dead-letter"): a row is queued, tried, and in the end sent, suppressed or given up
after `MaxAttempts` attempts; what became of it is final until an administrator
queues it again. It knows of no worker, transaction or consent. Notifications
implements it with `phase` read off `made`, `status` and `dead` (`PhaseOf`), `tries`
as `attempts` and `again` as `resends`; a batch moves several rows in one step.

**GuideAgenda** is a guide's promise: the set `taken` of starts somebody holds,
never two that clash, never more of a day than the daily limit. A start is freed
(`Free`), or taken after others may have been freed (`Take`), which is a move.

**GuideCalendar** is the guide's calendar and the bookings of the guide's tours.

| Variable | Code |
|---|---|
| `offer`, `reserved` | `slots.status` ("absent" while no schedule makes the row), `slots.reserved` |
| `status`, `slot`, `who`, `key`, `hold` | the columns of a booking; "writing" while the transaction that inserts it is open |
| `movedTo`, `proposal` | `tour_booking_details.rescheduled_to`; the pending row of `tour_reschedule_proposals` |
| `guideLock` | the booking whose transaction holds the guide's advisory lock |
| `hired`, `blocks`, `blocking` | days of accepted engagements; the guide's blocks; blocks that were looked for and are not written yet |

| Action | Code |
|---|---|
| `BookStart`, `BookInsert`, then `BookCommit` or `BookAbort` | `tour_book`: the slot's row lock; the insert, whose trigger `guard_guide_booking` takes the advisory lock and looks at the calendar; the commit |
| `CheckoutDraft`, `CheckoutCommit` | the general checkout of 019 on a guide's start: the trigger lets a draft pass and the commit is an UPDATE |
| `GuideConfirms`, `GuideRejects`, `TourCancel`, `ExpireHolds` | the release paths |
| `Propose`, `DeclineMove`, `AcceptMove` | `tour_propose_reschedule`, `tour_answer_reschedule`: the old row is cancelled and a new one written in one transaction |
| `MinGroupCheck` | `guide_min_group_check`, which skips slots somebody has locked |
| `SaveSchedule` | `guide_save_schedule`, `guide_delete_schedule` over `clear_schedule_slots` |
| `LookForBlock`, `CommitBlock`, `DeleteBlock` | `guide_add_block`, without a lock |
| `AcceptHire`, `CancelHire` | the days `guide_answer_engagement` and `cancel_engagement` take and give back |

The seats of a slot are the sum of the parties of the bookings that hold it. A
booking changes its party and its slot here (a row is written anew), so the sum is
over a set that changes with the state: `PartySum` is the cardinality of a set of
pairs, one for each person of each booking.

A row lock is not a variable: `SlotFree(s)` says that no open transaction has
the row of start s, and every action that needs the lock has it as a guard.

**TourDesk** composes the calendar with the two pages of a tour. The flow
(`Pick`, `TurnMonth`, `Press`, `Answered`, `PressFails`) makes a new key after any
error, whether the server had answered or not. The booking page of either side
(`OpenPage`, `Respond`, `CancelFromPage`, `MoveFromPage`, `DeclineFromPage`,
`AcceptFromPage`) is pressed on what it showed when it was loaded, and its answer
may be lost.

**PlanSessions** is the planner's server side: `versions`, the sealed versions in
order; `session`, the row of each session with its current version and its pending
action; `previews`, what each preview promised. A request (`request`) is read when
it arrives, with a copy of its session's row; served, from that copy; and answered,
when its copy may be old. Every handler of `pipeline.py` is an action:
`StartOrContinue`, `Regenerate`, `SetLock`, `PreviewReplace`, `AcceptReplace`,
`CancelReplace`, `RefinePreview`, `RefineApply`, with `BuildManual` of `manual.py`.
`SealFor` is `planner_persist_version` and the upsert after it, `WriteBack` the
upsert alone, with the columns it keeps when it is given none.

**PlanFlow** is the page over it: the steps and tabs, the review of a version
(`shown`, `asks`, `pending`, the replacement panel), the builder of a manual day and
its live check. `Generate`, `Clarify`, `PressRegenerate`, `PressLock`, `PressPreview`,
`PressAccept`, `PressCancel`, `PressRefine`, `PressEdit` and `SaveManual` send
requests; `Receive`, `ReceiveError`, `BreaksOff`, `ReceivePreview`, `Understood` and
`StartEditing` handle what comes back, in any order, and `FollowedUp` the list of
versions or the places that the page fetches then, while it still waits; `ChangePicks`, `ChangeDetails`,
`Ask`, `CheckAnswers` and `AcceptWarnings` are `useDayCheck` and the builder. The picks of a day are a
sequence, since an edit of their order alone asks for a check.

**RideDeal** is what booking a driver promises (docs/local-services.md, "Drivers
(V3)"): a request is open once, drivers offer and take back while it is, what is
agreed is an offer that stands at that moment, and its driver and price never
change; a ride that was called off is not given. RideDesk implements it with `phase`
read off the statuses of the request and its ride, `bids` as the offers that stand
while the request is open, and `deal` as the ride's driver and price.

**Rides** is 041: a request (`status`), the quotes of drivers (`quote`), the ride
one of them becomes (`ride`), the reviews (`wrote`), the drivers (`standing`).
`QuoteRead` and `QuoteWrite` are `driver_quote`; `AskRead` and `AskWrite` are
`traveller_request_ride`; `SuspendQuotes`, `SuspendReads` and `SuspendCommits` are
the trigger of a suspension; `SweepRides` is the daily sweep; the others are one
function each. **RideDesk** adds the traveller's page (`detail`), the drivers' inbox
and their list of rides, each as old as its last load.

The **MC** modules give the constants of the runs values.
Operators commented "Mutant:" are plausible faults of the definition below them.
No action uses them: each is put in the place of its definition to see that a
property notices.

## 3. What each run checks

| Run | Configuration | Checks | What it shows |
|---|---|---|---|
| checkout | MCAnnouncements | `TypeOK`, `InventoryConsistent`, `NoSeatSoldTwice`, `PaidBeforeConfirmed`, `TravellerTold`, `ToldOnce`, `NeverRevived`, `ImplementsLifecycle` | three customers (one a party of two with a draft) contend for two seats of a paid slot, with two commits in flight together, instant while the stock is fresh, request after; whatever ends or confirms a booking is announced to its traveller, and nothing twice |
| payments | MCPayments | `PayTypeOK`, `SettledMeansPaid`, `RefundsWithinPayment`, `RefundedMeansReturned`, `NoMoneyUnnoticed`, `ImplementsBookings` | two payment keys for a booking, early, late and repeated webhooks, timeouts, four ways to refund: each success is the first of a booking that waits for it, or is queued with a booking that stays released, or shows as a second charge |
| late_settlement | MCPaymentsLate | `SettlementRecorded`, `LapsedHoldsEnd` | a success is recorded whatever happened to the booking meanwhile; without drafts no lapsed hold stays |
| notifications | MCNotifications | `NTypeOK`, `OneMailPerMark`, `DeadLettersExhausted`, `ImplementsDelivery`, `Settles` | two workers over a marketing e-mail, a transactional one and a feed entry: no mark without its e-mail and no second e-mail under one mark; a dead letter has had its attempts; nothing that is done is worked on again unasked; what is due settles |
| calendar | MCCalendar | `CalTypeOK`, `SeatsAreParties`, `PrivateIsOneParty`, `HeldStartsStay`, `ImplementsAgenda` | two travellers book, move and cancel four starts of two tours while jobs, schedules, blocks and hired days change them: the seats are right, a private start has one party, a held start stays, and each transaction is a step of an agenda without clashes |
| tours | MCTours | `TypeOK`, `SeatsAreParties`, `OneRowPerRequest` | the flow and the pages of both sides, with lost answers, old pages and the general checkout: a booking that moved is one booking still |
| planner | MCPlan | `TypeOK`, `AcceptIsPreviewed`, `PendingMeansBusy` | four requests overlap on one session: an accepted replacement is what was previewed; the page never waits for nothing |
| day_check | MCDayCheck | `CheckIsOfTheDay` | a day is edited while its checks are out and their answers come in any order |
| rides | MCRides | `TypeOK`, `BookedIsOneQuote`, `NoPeeking`, `ImplementsDeals`, `RequestsEnd` | two drivers, one of whom lapses and is suspended, over a request: one accepted quote per booking, blind reviews on old pages, every step a move of the deal (an offer that stands is agreed, once, at a price that stays), and no request stays open |

and three runs that end in a counterexample, one per finding (section 7):
sweep_draft (MCPaymentsDraft), lost_settlement (MCPaymentsLost), one_place
(MCOnePlace).

Two of the properties restate what a trigger of the code checks at commit time
(`InventoryConsistent` for `guard_inventory_consistency`, `PaidBeforeConfirmed`
for `check_booking_update`). The models do not contain
`guard_inventory_consistency` at all, so the run shows that the functions keep the
counter right by themselves; the trigger never has to raise. The confirmation
guard is in the model, where the code has it, and the run shows that settlement,
refund and completion around it do not undo what it looked at.

`OneMailPerMark` says "exactly once per mark", not "exactly once": a crash between
an e-mail and the commit that marks it sends it again, in the code and in the
model, and a provider that reports a failure may have sent it all the same.

`Settles` lets one thing through: a *poisoned* row. A marketing e-mail suppressed
at enqueueing is logged as attempt 1 (020:415) while its counter stays 0. If an
administrator queues it again, recording its delivery inserts attempt 1 a second
time and raises, and the batch that contains it rolls back, at every dispatch,
after its e-mails have left. The property says that nothing else keeps an e-mail
from being settled.

`RefundedMeansReturned` lets a booking that was charged twice through: the code
refunds the latest payment only and the view of 003:127 flags the other for a
person. The property says that such a booking is always flagged.

`AcceptIsPreviewed` lets one base differ from the preview's: `start_or_continue`
alone plans a session anew and keeps its pending action, so a preview made before
it can be accepted after it, on a version made from the traveller's words (its
`base` is 0). On every other path a version that is sealed in between clears the
action, and the property says that none forgets to.

`PrivateIsOneParty` and `ImplementsAgenda` are checked and proved where no draft of
the general checkout takes a guide's start (`Checkouts = {}`); with such drafts they
fail, which is finding 3. `SeatsAreParties`, `HeldStartsStay` and `OneRowPerRequest`
do not need that.

`ImplementsDelivery` adds the steps to `DeadLettersExhausted`, which is about states:
a claim that forgot the dead letters would still find rows that have had their
attempts, and work on them for ever. `ImplementsDeals` does the same for
`BookedIsOneQuote`: a request that lapsed and is booked by an acceptance that comes
before the sweep has one quote and one ride, and is a deal nobody may make any more;
the page shows it as expired. It says nothing of the price a traveller has seen
(section 7, "Accepting names the quote"), and lets a suspension call off a ride
that was given meanwhile, which 041:878 does.

`CheckIsOfTheDay` is about rest: while the page says that it is checking, or that
the check failed, it may still show the verdict before.

`NoPeeking` is the deeper half of the rule of blind reviews: the server releases a
review when both are written or the window is over, and the property adds that no
page, however old, both shows the other side's review and still gets one accepted.
It holds because the release (`<`) and the acceptance (`<=`) of 041 share no
instant; widening either breaks it.

## 4. Bounds

Every bound is a CONSTANT or an MC definition.

* `Keys`: one to three bookings. Seats are lost or doubled by two bookings; the
  third lets a release come from the middle of the units. The payments run has one:
  its hazards are between the payments of a booking.
* `Requests` 2 in the checkout run: two commits of the same or of different keys
  race on quotes that go stale through each other and through any other action.
* `Seats` 2, parties of 1 and 2: full slots, the last seat, a party that no
  longer fits. The slot is paid, so the path of a free booking that confirms at its
  own commit is not taken by a run; the proofs of section 6 cover it.
* `MaxNow` 3 or 4: holds of 1 (drafts and instant bookings) and 2 (requests), a
  slot that starts at 2 or 3, ends one later, and freshness that lapses at 0.
  The order of those instants is that of 15 minutes, 30 minutes, 24 hours and
  the slot; drafts and instant holds share a length because only their order
  against the slot's start matters to the guards. The clock stops at `MaxNow`,
  after every instant that a guard compares it with.
* `PayKeys`: two, to have a second attempt beside an open intent, a double charge
  and a late success of the first; one in the liveness run.
* `Total` 2 with windows that refund all, half and nothing: enough for a partial
  refund to leave room for some refunds and not for others.
* `Limit` 100, the scheduler's default batch.
* `Notes`: one row of each kind that the code tells apart (marketing e-mail,
  transactional e-mail, feed entry), `Workers` two, so that two claims of
  different kinds meet; `Limit` 2 holds both e-mails in one batch or one each.
  `MaxAttempts` 2: a first failure with back-off and a last one. `MaxCrashes` and
  `MaxResends` 1: one of each is enough to send again, to queue a dead letter
  again and to poison a batch. `attempts` needs no bound: a dead row leaves the
  claims and each resend adds one round.
* The calendar: four starts, of which one is private (a1), one comes from a schedule
  and has a minimum group (a2), one clashes with the private one (b1, of an instant
  tour), and two share a day under a `DailyCap` of 1; three bookings, so that two
  contend while a third moves; two travellers; a block over the two clashing starts;
  a day of hire. Each reason for a refusal occurs and so does each pair of reasons.
  `MaxNow` 2 lets holds of `Ttl` 1 lapse and the deadline of the group pass.
* The tours: two starts and two rows, since a booking that moves uses one row more,
  and two keys (`MaxTries`), so that a press after a lost answer is a second one.
* The planner: one trip, two places and plans of one stop, so that a lock and an exclusion
  decide which; three versions and one preview, so that a preview is made on the
  first, a second is sealed meanwhile and the third is what is accepted; four
  requests, of which any number are out together. `Tabs = {}` is a plan that is
  reopened; the day check runs with both tabs, two dates and two checks out at a
  time, and without the server's sessions, which it does not touch.
* The rides: one request, since no property relates two and `MaxOpen` is a count
  of its own; two drivers, of whom one (`Doubted`) lapses and is suspended;
  `ReviewDays` 1 and `MaxNow` 4, after the window of a ride that ends when it
  starts.

Symmetry is used in the runs of safety only: payment keys in payments, the two
bookings of one seat and the commits in checkout, rows and travellers in calendar,
one_place and tours, requests and places in planner and day_check. Each of
these sets is compared for equality and nothing else.

There is no deadlock in any run of Bookings and Payments, which can always toggle
a blackout. The other runs are checked without: workers stop when there is nothing
left to deliver, and the calendar, the planner and the rides stop when the clock
and the rows that the bounds allow are used up.

## 5. Fairness

`FairSpec` assumes weak fairness of two actions.

* `Tick`: time passes.
* `Sweep({})`: `run_forever` of `services/api/app/core/scheduler.py` calls expire-holds every fifteen
  minutes for ever, and a transaction that holds a row's lock ends. Rows locked by
  others (`Sweep(L)` for other `L`) may be skipped at any call, and no call is
  assumed to find the rows it wants: only that a call with nothing locked
  happens again and again while rows are due.

Nothing obliges a customer, a business or the provider's customer to act.
`PayFairSpec` adds the provider's promise, which the code relies on by answering
an error to what it could not process: a webhook is repeated until it is
accepted; and that a payment request in flight ends, recorded or not.
`FairSpec` of Notifications assumes weak fairness of each worker's dispatch (the
scheduler calls it every minute, scheduler.py:60, and a request that has begun
goes on) and of a back-off's end. Nobody has to call publish-outbox or to resend.
`Fairness` of RideDesk is the clock and the daily sweep (docs/local-services.md);
no driver has to answer and no traveller to press. The calendar, the tours and the
planner are checked for safety only and assume nothing.

## 6. What is proved

Eight modules hold the theorems, for every value of the constants that satisfies
the assumptions of their modules (`BookingAssumptions`, `PaymentAssumptions`,
`NotificationAssumptions`, `CalendarAssumptions`, `DeskAssumptions`,
`RideAssumptions`, `PlannerAssumptions`, `FlowAssumptions`): any number of bookings,
slots, requests, seats and instants, of payments, of rows, workers and attempts, of
starts, drivers, quotes, places, versions and pages.

| Theorem | Statement |
|---|---|
| `TypeCorrect` | `Spec => []TypeOK`; with it the counter is never negative |
| `InventorySound` | `Spec => []InventoryConsistent` |
| `SeatsSound` | `Spec => []NoSeatSoldTwice` |
| `PaymentSound` | `Spec => []PaidBeforeConfirmed` |
| `ReleasedForGood` | `Spec => NeverRevived` |
| `Refinement` | `Spec => ImplementsLifecycle` |
| `PaymentsRefinement` | `PaySpec => ImplementsBookings`: every step of the money is a step of Bookings or leaves it alone |
| `LedgerSound` | `PaySpec => []SettledMeansPaid` |
| `ComposedSafety` | the safety properties of Bookings, `NeverRevived` and `ImplementsLifecycle` among them, hold under `PaySpec` |
| `TravellerAlwaysTold` | `AnnSpec => []TravellerTold` |
| `NothingToldTwice` | `AnnSpec => []ToldOnce` |
| `AnnouncedIsBookings`, `AnnouncedSafety` | `AnnSpec => Spec`, and with it everything the checkout run checks of Bookings under the specification it checks it of |
| `NotificationsTypeCorrect` | `Spec => []NTypeOK` |
| `MailSound` | `Spec => []OneMailPerMark` |
| `DeadLettersSound` | `Spec => []DeadLettersExhausted` |
| `DeliveryKept` | `Spec => ImplementsDelivery` |
| `PaymentsTypeCorrect` | `PaySpec => []PayTypeOK` |
| `RefundsSound` | `PaySpec => []RefundsWithinPayment` |
| `RefundedSound` | `PaySpec => []RefundedMeansReturned` |
| `MoneyNoticed` | `PaySpec => NoMoneyUnnoticed` |
| `HeldStay` | `CalSpec => []HeldStartsStay` |
| `SeatsAreSound` | `CalSpec => []SeatsAreParties` |
| `CalendarTypeCorrect`, `DeskTypeCorrect` | `CalSpec => []CalTypeOK`; `Spec => []TypeOK` of TourDesk |
| `DeskIsCalendar`, `DeskSeats` | `Spec => CalSpec` of TourDesk; `Spec => [](SeatsAreParties /\ HeldStartsStay)` |
| `OneRow` | `Spec => []OneRowPerRequest` of TourDesk |
| `PrivateSound` | with `Checkouts = {}`: `CalSpec => []PrivateIsOneParty` |
| `AgendaRefinement` | with `Checkouts = {}`: `CalSpec => ImplementsAgenda` |
| `DeskAgenda` | with `Checkouts = {}`: `Spec => ImplementsAgenda` of TourDesk |
| `OnePlaceUnlessHired` | with `Checkouts = {}` and `HireDays = {}`: `CalSpec => []OneGuideOnePlace` |
| `RidesTypeCorrect`, `PlanTypeCorrect` | `Spec => []TypeOK` of RideDesk and of PlanFlow |
| `BookingIsOneQuote` | `Spec => []BookedIsOneQuote` |
| `ReviewsBlind` | `Spec => NoPeeking` |
| `DealsKept` | `Spec => ImplementsDeals` |
| `AcceptSound` | `Spec => []AcceptIsPreviewed` |
| `WaitSound` | `Spec => []PendingMeansBusy` |
| `CheckSound` | `Spec => []CheckIsOfTheDay` |

The argument. No property is inductive alone. The invariant is

    IInv == TypeOK /\ Counted /\ UnitRows /\ Flagged /\ DraftsUnpaid

* `Counted`: the counter of a slot is the number of seats of the bookings flagged
  as holding some, and within capacity. Without it `Release` could take the
  counter below zero, so even `TypeOK` needs it.
* `UnitRows`: a flagged booking owns as many rows as its party, in its slot and
  below its capacity, others own none, and no two rows are one seat. `Reserve`
  keeps it because the units it inserts were free.
* `Flagged`: what the statuses say about the flag; "none" and "draft" hold
  nothing, which `CommitDraft` and `CommitNew` need to reserve only once.
* `DraftsUnpaid`: a booking that does not exist, or is a draft, has no
  settlement. A commit that confirms at once is for a booking without a price,
  and the two together give `PaidBeforeConfirmed`.

The seats of a set of bookings are counted as the cardinality of a set of pairs
(`SeatsOf`), so that the step from before to after is a disjoint union or a
difference, and the lemmas about cardinality of the library apply; no recursive
sum is needed. Each action has its step in the proof, and the actions that differ
only in the status they write share a lemma about `Reserve`, `Release` or
`Confirm`.

For Payments, `ImplementsBookings` is by cases over the actions; each one is a
step of Bookings conjoined with money, or leaves `vars` unchanged. `LedgerSound`
needs that a row of the ledger, once "succeeded", is never changed
(`PaymentMoves`), and that a row belongs to a booking with a price that exists.

For Announcements the invariant is `IInv /\ TravellerTold`: each pair of statuses
that a step may join (`Moved`, a lemma of BookingsProofs) has a write whose event
the new status asks for, or follows a status announced before; and no step
changes the mode of a booking whose status it leaves. `ToldOnce` is about all that
went before, so it needs to know where a booking may be once an event was emitted:
`Fits` says that what was told of a booking fits its status (`Since`), and a step
only emits an event that the status before it does not fit and the status after it
does (`EmittedIsNew`). That the transition table has no circle is what makes it
hold.

For Notifications the invariant is

    NInv == NTypeOK /\ OneMailPerMark /\ DeadLettersExhausted
            /\ WaitingFailed /\ OneOutcome /\ Apart /\ AsClaimed

and what it adds is what the row locks give: the rows of two transactions under
way are disjoint (`Apart`), a row is as it was when it was claimed (`AsClaimed`),
and has one outcome in its transaction (`OneOutcome`). Without `Apart` two workers
send one row; without `AsClaimed` a mark could be put on a row that is sent or
dead already.

For `DeliveryKept` it is joined by `MadeInv`: a row no event has made is pending,
not dead and in nobody's transaction, and an entry of the feed is attempted once,
though a resend may let an event write it twice. Three actions move a row:
`Enqueue` (`EnqueueMoves`), `Commit` (`CommitMoves`, on the lemma `CommitRow` that
says what the marks make of one row) and `Resend` (`ResendMoves`); the rest leave
every phase as it is. `AsClaimed` is what makes the marks moves: every row of the
transaction was queued when it was claimed and is so still.

For the refunds (RefundsProofs) two invariants are added to `IInv`. `RestType` types
what `IInv` leaves out (the intents, the webhooks, the queue). `RefundInv`: a
refund belongs to a payment that succeeded, the rows of a payment together fit in
it, and the refund of a booking that reads "refunded" is whole unless the booking was
charged twice. `NoMoneyUnnoticed` is then a property of the one operator that makes
a row succeed, `ApplyOutcome` (`OutcomePlaces`), which makes one row succeed, of the
booking it is about (`OutcomeSettles`). If the booking is cancelled, rejected or
expired, the step leaves it so and queues it. If it has another settled row, the two
are flagged (`TwiceIsFlagged`). If it has none it must be pending: a confirmed or
completed booking has been paid (`PaidBeforeConfirmed`, from `ComposedSafety`), and
so has a refunded one (`RefundInv`). The latest payment of a booking is a greatest element of a bounded set of
numbers, which a lemma of its own provides (`HasGreatest`).

For the calendar the invariant is

    CalInv == CalTypes /\ HeldOpen /\ LockWriting /\ MovesApart /\ FreshRows
              /\ ProposalsElsewhere

`HeldOpen` extends the property to a booking that is still being written, which is
what the row lock gives: the jobs skip or wait for that start. `MovesApart` says
that two rows never move to one and that a row moved to is not fresh; with
`FreshRows` it gives `OneRowPerRequest`. The pages need no invariant beyond types:
each of their steps is a step of the calendar or leaves it alone
(`DeskImplements`), so what holds of CalSpec holds under them.

The seats need an invariant of their own,

    SeatInv == SeatTypes /\ Known /\ SeatsAreParties /\ OneWriter /\ RoomKept

as the counter of a slot is written by transactions that look at it before they
add to it. `OneWriter` says that at most one booking of a slot is being written, and
`RoomKept` that its party still fits: both are what the row lock of the slot gives
between `BookStart` and `BookCommit` (`SlotFree` in every other action that adds to
the slot, the general checkout and a move included; without that guard in
`CheckoutCommit` the proof does not go through). `Known` says that every
row has a traveller, and so a party. The lemmas about
`PartySum` are three: two sets of the same bookings with the same parties have the
same sum (`SameSum`), one booking more adds its party (`JoinSum`), one fewer takes
it away (`LeaveSum`). Each transaction is one of a few patterns over them: it
leaves the seats alone, frees those of one booking or of a set, takes them, moves
them from one slot to another, or draws a slot that nobody holds anew. The type
of the counter and `SeatsAreParties` can only be proved together: without the sum
nothing keeps a release from taking the counter below zero.

`DeskIsCalendar` carries all of this to the pages of TourDesk, where the calendar is
one conjunct of each step. `OnePlaceUnlessHired` is the other side of the one_place
run: what the run refutes is true as soon as neither of the two roads around the
calendar is open, drafts of the general checkout and days of hire; either alone is
enough to break it.

The refinement needs a second one,

    AgendaInv == Apart(Busy) /\ DayKept(Busy) /\ LockLooked /\ PrivateIsOneParty

where `LockLooked` is the point of the advisory lock: what the transaction that
has it has looked at is still so, because every other step either waits for the
lock or only takes starts away, or adds a party to a start that is held already.
`DayKept` is needed for moves, as the start that leaves makes room for another of
its day. The steps that free starts share one lemma (`ShrinkKeeps`), those that
join a held start another (`JoinKeeps`). Where a draft of the general checkout takes
a start, `LockLooked` is what breaks.

For the rides, `RideInv` adds that an offer has a price of its own (`OffersPriced`),
that a ride still to be driven has no reviews and never ended
(`ReviewsOfTheOver`), and that the loop of a suspension holds rides only
(`SuspendsRides`): without it the loop could make a ride of a bare request.
`DeskInv` adds that a page that shows the other side's review was loaded after its
release, and that a release is lasting (`Lasting`), so nothing is accepted after it.

For `DealsKept` one more is needed, `FreshUnquoted`: nobody has quoted, or is about
to, for a request that is not out, or its phase would open with bids that nobody
made while it was. The step is proved in two halves: every step of the desk turns
each request in one of five ways (`StepTurns`: it goes out, is over, is taken, its
ride ends, or it is kept while quotes come and go), and each of these is a move of
RideDeal (`TurnsMove`). That a step presses one button while quotes arrive is no
matter: the mapping is request by request.

For the planner, `SessionsInv` says of every pending action, of every copy a request
carries and of every sealed version that it agrees with its preview (`Fits`, `Good`,
`Previewed`); versions and previews only grow, so what agreed stays so. The copy is
why the invariant speaks of requests at all: a request may put back a pending
action that was cleared meanwhile, and that action must agree with its version
still. `FlowInv` adds the page, and for the day check (`CheckInv`) that a day with
picks is waiting for its check, asking for it, told that it failed, or checked.

Every safety property that a passing run checks is a theorem. Only model-checked are
`LapsedHoldsEnd`, `SettlementRecorded`, `Settles` and `RequestsEnd`, as liveness
under fairness is beyond the prover, and of course the refutations. Sums over sets
that change are cardinalities of sets of pairs for the provers' sake: a fold would
need induction over data, which no installed prover can instantiate.

## 7. What the runs refute

Each of these is a sentence of the repository that the code does not keep. The
counterexample is TLC's; the numbers are lines of the code that decides.

1. **sweep_draft** (019:275). "Expires unanswered requests and lapsed holds"
   (`core/scheduler.py:61`). `expire_bookings` selects lapsed *drafts* as well,
   and moves them to "expired", which the transition table refuses to a draft.
   The exception rolls the batch back, every call meets the same row first, and
   from then on no hold at all is released.
2. **lost_settlement** (`checkout_service.py:115`, 019:912). "A late settlement
   must still be recorded after a timeout or cancellation" (ARCHITECTURE.md:60).
   The attempt is recorded in the same transaction as its outcome. If that rolls
   back after the provider has settled, no row carries the payment and each
   delivery of the webhook fails for want of it.
3. **one_place** (066:660, with 019:662-693 and 035:622-650). "One guide, one
   place... The same applies to hired days" (docs/guide-experience-plan.md:289;
   line 681 has "Double bookings: 0 (enforced by the database)"). The guard of the
   calendar is an INSERT trigger that lets a draft pass, and the general checkout
   makes the draft a request by UPDATE; accepting an engagement looks at the other
   hired days and at no tour.

Further places where the text and the code part, or where an order of steps does
something nobody wrote down, were met while modelling. The models take them as the
code has them; no run is about them.

Bookings and payments:

* *Seats after a release* (019:209). "The seats are open again" (062:922).
  `allocate_slot_units` numbers new units from the counter. After bookings 1 and 2
  hold units 1 and 2 and booking 1 is released, the counter is 1 and the next unit
  is 2, which is taken: the commit fails although the slot has room. Nothing is
  oversold (`NoSeatSoldTwice` is a theorem); seats are lost to sale.
* *A retry refused by its quote* (019:646). "A repeated request with the same key
  returns the original result without a second side effect" (backlog, line 1586).
  `commit_checkout` takes its quote before it looks for the key, so the retry of a
  commit that took the last seat is refused.
* *Paid, cancelled, queued as unpaid* (019:850). The queue lists
  "confirmed-but-unpaid" bookings (docs/payments.md:37). The failure of a second
  attempt cancels a confirmed booking that the first has paid, and queues it under
  that name.
* *A payment key of another booking* (019:776) returns that booking's row when
  customer and price agree; its outcome is applied there. `NoMoneyUnnoticed` says
  that the money is noticed at that booking, not that it is the one that was meant.
* *A draft is committed on a closed slot* (019:662). The quote has looked at the
  slot; the commit locks the row and looks at its capacity only, so a slot that was
  closed or blacked out in between is still taken by a request or a hold
  (`CommitDraft`). The booking is not confirmed before the slot is open again, since
  every confirmation looks at it (`Confirmable`).
* *A cancellation after the administrator's refund* (026:371). The insert of its own
  refund meets `guard_refund` before ON CONFLICT, which counts the refund of
  `admin_mark_refunded`, and raises: the booking cannot be cancelled any more by its
  traveller or business as long as the policy would return money (`Fits` in
  `MakeRefund`).
* *Paid and released without a refund* (016:1284). `admin_force_cancel` and the
  business's rejection of a paid request release the booking and make no refund. The
  view of 003 flags it and `reconcile_payments` queues it; nothing returns the money
  by itself.
* *A request confirmed by its own commit* (019:703 with 003:29). The mode is derived
  by the quote, and again under the lock. When the stock of a free slot goes stale
  in between, the booking is stored as a request and confirmed at once on the
  quote's mode; ARCHITECTURE.md:54 says that "request bookings also require
  business approval".
* *The idempotency store forgets after 24 hours* (019:537), `bookings.request_key`
  never: a late retry answers differently from an early one.
* *A repeated answer of the business* (015:1660) is a no-op for the booking and
  writes another event.
* *Suspending a guide* (038:168) cancels paid bookings without a refund, like
  `admin_force_cancel`; the reconciliation view shows the money.
* *Circular waits.* "Current single-booking transitions lock booking then slot"
  (OPERATIONS.md:27). `guide_min_group_check` (061:843) locks slots and then their
  bookings; `apply_payment_outcome` (019:832) payment and then booking against
  `cancel_checkout_booking`; `traveller_accept_quote` (041:469) quote and then
  request against the cancellation of the request; two moves in opposite directions
  lock their starts in opposite order. PostgreSQL ends such a wait by failing one
  transaction.

Notifications:

* *A draft's request is not announced to the business* (062:896).
  `business.booking.requested` is emitted on INSERT only; a draft becomes pending by
  UPDATE. NTF.3 (backlog, line 1735): "A business is notified of new booking
  requests".
* *The second event of a kind* (020:402). Its dedupe key is that of the first, so a
  second payment.status_changed of a booking rewrites the text of a row that is
  sent and reaches nobody. NTF.2 (line 1715): "Each listed event produces a
  notification".
* *A resent feed entry* (024:413). The resend sets it to pending, and both claims
  take e-mails only.
* *Consent and publish-outbox* (024:485). Only dispatch looks at the consent when
  it sends; NTF.4 (line 1764): "Enforce the consent check at send time".
* *The poisoned row* of section 3 (020:609).

Tours and engagements:

* *A new key after any error* (`tour-booking-flow.tsx:178`). 062:453 says "A retried
  request is the same request."; the page makes another key when an answer was
  lost, and the second press is a second booking.
* *An answer names no proposal* (062:796-800): it is applied to whatever proposal is
  pending when it arrives, which may not be the one on the page.
* *A block and a booking* (061:606). `guide_add_block` looks for bookings without a
  lock, so a block may be written over a booking that commits in between.
* *The minimum group* is counted in the snapshot of the statement (061:843): a
  booking that commits between the snapshot and the row lock is not counted.
  `MinGroupCheck` counts at the lock.
* *A proposal is checked with the booking's own start still counted*
  (`tour_propose_reschedule`): a move within the buffer of the booking's own start is
  refused although accepting it would be allowed.
* *Accepting changed terms of an engagement* (035) applies the terms that are on the
  row, which may have been proposed anew since the page was loaded.

Rides:

* *A suspension cancels by id* (041:878) the rides its loop read: one that ended
  meanwhile is overwritten. The model has it (`SuspendCommits`).
* *Five open requests* (041:357) are counted without a lock; two forms may pass.
* *A late quote* (041:579) is written on a request that was booked or closed
  meanwhile, and stays "offered" for ever.
* *Accepting names the quote, not its price*: a driver who changes the price between
  the page's load and the press is accepted at the new one.
* *The link to share a ride* is lost with the answer that carried it, as only its
  hash is kept.

Planner:

* *Lost updates* (`pipeline.py:536`, `:683`, `:754`). A preview, its cancellation or a
  refinement writes back the session it read; a pending action stored meanwhile is
  lost or put back.
* *Two answers to the questions of one session* (`pipeline.py:221`) make two trips.
* *A refinement is built without the locks* (`pipeline.py:794`): "Locked stops are
  unchanged unless a feasibility conflict makes them impossible" and "Any forced
  change to a locked stop is explained explicitly" (backlog, lines 1288 and 1289).
  A locked place that is no longer eligible vanishes without a word, too.
* *Two locks pressed at once*: both requests read the same version, and the version
  of the second lacks the lock of the first.
* *Answers of overlapping controls* are applied in the order in which they come, so
  the page may show the older version.
* *An infeasible answer to a lock or a regeneration* makes the page forget the plan
  the session still has.
* *Warnings stay accepted* after the date or the party of the day changes.
* *Saving a manual day* has no idempotency key: a second press after a lost answer
  seals a second version.

Groups, read but not modelled: a suggestion is added after an unlocked look at the
trip's status (021:684) and may land after the trip was locked.

## 8. What is not modelled

In the modelled components:

* `generate_slots` and edits of a slot's capacity: a capacity is a constant. The
  triggers refuse a capacity below `reserved`.
* The idempotency store of HTTP answers (24 hours): a retry after it forgets is
  the same as one that never met it, which is what `QuoteCommit` on a known key
  models.
* A request body that differs under a known key is refused by its hash; here a
  key has one body (`SlotOf`, `PartyOf`).
* Guide tours' further guard on insert (061) in Bookings: it only refuses, so the
  safety results hold with it; GuideCalendar has it.
* The development-only `simulate` endpoint: its outcomes are those of the
  provider and its webhooks.
* Prices, currencies and payouts: all bookings cost `Total`, which is the worst
  case for a shared idempotency key, whose amount the code compares.
* `publish_outbox_batch` (and so no part of `ToldOnce`): it emits the booking's event a second time, which finds
  its row (an `Enqueue` on a row that exists). The delivery columns of `app.outbox`
  that delivery writes are read by no claim.
* Escalations, per-role channel preferences and templates decide which rows are
  enqueued, and with what text; `Enqueue` takes any row at any time.
* A tour's reschedule silences the announcements of one booking
  (`app.quiet_booking`); Announcements has the bookings that are not moved.
* `create_inquiry_request`: it touches neither seats nor money.
* Row-level security and roles: who may call; the models let every action be
  called whenever its guards hold.
* Tours: the pattern of days off and its exceptions, pauses, the booking cutoff and
  the meeting points' distances are in `Clashes`, `Covers` and the starts that are on
  offer; prices, add-ons and the messages of a booking are not
  there. The units of `slot_unit_holds` are in Bookings and collide in tours as well.
* Engagements: only the day they take. The negotiation of price and itinerary, the
  run sheet of a day and its reviews are left out.
* Rides: areas, vehicles and their seats (a driver who may quote is "live"), the
  share link, reports and the hiding of a review.
* Planner: the optimizer and the ranker are any set of places that honours the
  exclusions, so no property is about the quality of a day; days told step by step
  (`day_session.py`), the list of versions, a plan opened by link, the degraded flag
  of the model provider, the choice of a destination and saving a finished plan are
  left out. `PlannerView` itself is not mounted by any page; only its timeline and
  its panels are.
* The scheduler's due times: the sweep and the dispatch are called again and again,
  and what a late job does to the others is not modelled.

Not modelled as components:

* guide identity, trust, levels and strikes: they react to bookings that the modules
  have; what comes back is a cancellation per booking;
* partner trust, exchange and venues: review forms and lapsing evidence, one row and
  one transaction each;
* groups and shared itineraries, sessions and tokens, two-step approval: protocols
  worth modelling, see section 9;
* rate limits: one atomic script per request;
* row-level security: predicates over one row, tested exhaustively;
* catalogue, search, places, media, the other pages, seeds, brand and operations
  files: reads, forms over one request, data and text. They are most of the
  repository's lines.

## 9. Plan

Done, in the order of what matters most: bookings and payments with their proofs;
notifications and announcements; refunds and late money; the calendar of a guide
with the abstract agenda it implements; the pages of a tour; the planner and its
page; rides and their pages; a theorem for each safety property that the prover can
reach.

Left:

1. **RowLocks**: the order in which the functions lock slots, bookings, payments,
   quotes and requests, as sequences of lock requests of concurrent transactions.
   Property: no circular wait (OPERATIONS.md:27; section 7 lists the exceptions).
2. **Groups**: invitations, votes, suggestions and the lock of a trip that is booked
   by its group. Property: nothing changes a trip that is locked.
3. **Two-step approval** and **Sessions**: an approval applies what was approved; a
   token is used once and a reset ends every session.
4. **Scheduler**: due times and what a late or failing job does to the others.
5. The composition of GuideCalendar with Bookings: the tours' rows as rows of
   Bookings, with the units of the slots and the sweep's batches.
