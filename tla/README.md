# HKTutor: verification project

HKTutor is a tutoring marketplace: tutors publish availability slots, students
book them, either side may ask to move a class, the student pays by PromptPay,
and the tutor records attendance.  The API is a NestJS application on PostgreSQL
(`apps/api`); the web application (`apps/web`) shows what the API decides.  The
hard part of the program is not in any one handler but in what several handlers
do to the same rows at the same time, so the models here are models of
transactions: which row is read without a lock, which is locked, what is checked
again after a wait, and which constraint of the schema has the last word.

## Inventory

Paths are under `apps/api/src` unless another root is given.

| Component | State it keeps | Operations | Hard behaviour | What makes it correct |
|---|---|---|---|---|
| Bookings, `modules/bookings` | `Booking` rows | create, confirm, reject, cancel, meeting link, attendance | check and update are separate statements; slot lock in create; conditional updates | no slot is sold twice; decisions are final; cutoff; attendance after the class |
| Availability, `modules/tutors/tutor-availability.service.ts` | `AvailabilitySlot` rows | post, delete | two statements without a transaction; exclusion constraint and triggers settle races | live slots of a tutor are disjoint; a reserved slot stays |
| Reschedule requests, `modules/reschedule-requests` | `RescheduleRequest` rows, `Booking.slotId` | create, approve, reject, withdraw | lock order booking then slot; a pending request reserves nothing | one pending request; consent; cutoff at the time of the decision |
| Schema, `apps/api/prisma` | constraints, triggers | fire on every write | triggers take locks of their own | handlers never depend on a late constraint error |
| Payments, `modules/payments`, `infrastructure/payments` | `PaymentAttempt` rows, `Booking.paymentPending` | create, status, webhook | network call between two transactions; lost replies; duplicated webhooks | one open attempt; a charge that succeeds is recorded exactly once |
| Notifications, `modules/notifications` | `Notification` rows | event writes in the caller's transaction; reminder job every minute | scan, then lock, then plan again | a reminder at most once and only for a class that still takes place |
| Reviews, `modules/reviews` | `Review` rows, rating cache of the tutor | create | two rows locked in order; cache recomputed | cache equals the average of the reviews |
| Storage, `infrastructure/storage`, `modules/avatars`, `modules/qualification-documents` | intents, object references, objects | upload, replace, delete, recover | the store is not transactional; ambiguous commits | no referenced object is removed, no orphan is kept for ever |
| Sessions, `modules/auth` | `User`, `AuthSession`, one-time tokens | login, refresh, logout, reset, verify | token rotation; password reset during login; revocation of sockets | one valid refresh token per session; nothing outlives a reset |
| Conversations, `modules/conversations`, web `lib/conversation-realtime.ts` | `Message` rows, socket rooms | send, read, events | publish after commit; retries with a client key | one message per key; a lost event is repaired by reading |
| Web client, `apps/web/src/lib/api/client.ts`, `components/conversations`, `components/bookings/promptpay-payment-panel.tsx` | refresh cookie, the memory of an open thread, the payment a page shows | refresh under a lock of all tabs; sync, poll, socket, send, retry; poll and create a payment | lost answers, hidden pages, reopened threads, reads that were given up | honest tabs never present a used token; what the peer wrote is shown; a payment that is followed shows its outcome or an error |
| Profiles, listings, directory | rows of one owner | single updates, queries | none across components | not modelled |
| Email, configuration, health, other web UI, scripts, deployment | none of interest | I/O, presentation | none | not modelled |

How they interact: handlers share rows, and almost never memory: the
exception is `SessionRevocations`, which tells the chat gateway of the same
process that a session ended.  A booking handler calls the notification writer
inside its own transaction.  Payments, cancellation,
attendance and rescheduling meet on the `Booking` row; booking, deletion and
rescheduling meet on the `AvailabilitySlot` row.  The list of hazards, each at
its line, is in `PROJECT.json`.

## Modules

| Module | Models |
|---|---|
| `BookingStore` | rows of `AvailabilitySlot`, `Booking` (with the status of its latest `PaymentAttempt`) and `RescheduleRequest`; row locks; the clock; a request in flight |
| `TutorAvailability` | `postAvailability`, `deleteAvailability` |
| `BookingHandlers` | `create`, `confirm`, `reject`, `cancelBooking`, `updateMeetingLink`, `updateAttendance` |
| `RescheduleRequests` | `create`, `approve`, `reject`, `withdraw` |
| `PaymentClaims` | the part of `PaymentsService` the others see: the claim on a booking and the transactions that end it |
| `BookingDesk` | all of these on one database; its properties and its fairness |
| `Payments` | `PaymentsService` and the provider: attempts as rows, charges, requests on their way, and every request handler of payments step by step |
| `PaymentPage` | the payment panel of a booking in the browser, composed with `Payments`: its reads, its gate, what it shows, and each of its requests through the API |
| `PaymentContract` | the abstract promise about money: claim, capture, record or release |
| `SlotCalendar` | the abstract promise: publish, withdraw, take, release, each in one step |
| `AuthSessions` | `AuthService`, the browser that holds the refresh cookie, and the authorization of chat sockets, for one account |
| `TutorRecords` | the files of one tutor in the database and in object storage, `StorageCleanupService`, and the two caches on the profile: verification and rating |
| `Messaging` | one conversation: `sendMessage`, history pages, read receipts and events, and the thread component that keeps a copy of it |
| `Reminders` | the reminder job of several processes next to bookings that change |
| `MCBookingDesk`, `MCPayments`, `MCPaymentPage`, `MCSessions`, `MCRecords`, `MCMessaging`, `MCReminders` | constants of the small instances |
| `BookingLocks_proofs`, `BookingCalendar_proofs`, `BookingRules_proofs`, `Payments_proofs`, `AuthSessions_proofs`, `TutorRecords_proofs`, `Messaging_proofs`, `Reminders_proofs` | theorems; the first three build on each other |

`AuthSessions`, `TutorRecords`, `Messaging` and `Reminders` share no rows with
each other.  `Reminders` reads bookings; instead of the desk it has bookings that
may change in more ways than the desk lets them, so that its claims hold next to
any desk.  `Messaging` has sockets that are lost at any time, which is all that a
revocation in `AuthSessions` can do to a thread.

`BookingDesk` and `Payments` look at payments from two sides.  The desk has all
handlers of a booking and a provider that may answer anything at any time
(`PaymentClaims`); `Payments` has the provider, the network and the attempts,
and of the other handlers only the updates they commit (`Cancel`, `Complete`).

### How a handler becomes actions

A worker (`job[t]`) serves one request.  `job[t]` holds what the handler read
and has not written, and stands for the row locks of its open transaction; all
other variables are committed rows.  A handler is cut exactly where another
transaction can come in between:

- after a read that takes no lock (`PostRead`, `DeleteRead`, `DecideRead`,
  `CancelRead`, `AttendRead`, `LinkRead`, `PayRead`), followed by the statement
  that writes, which checks its WHERE clause against the rows of that moment,
  as READ COMMITTED does after a wait;
- after `SELECT ... FOR UPDATE` (`CreateLock`, `RequestLock`, `ApproveLock`,
  `ApproveTarget`): the checks that follow it are part of the same action, the
  insert or update with the commit is the next (`CreateCommit`, `RequestCommit`,
  `ApproveCommit`);
- inside one statement when a trigger or a foreign key has to wait for a second
  row: a confirmation locks the booking (`ConfirmLock`) and its trigger then
  locks the slot (`ConfirmCommit`); a move request waits for both its slots
  (`RequestCommit`).

`RejectRequest` and `WithdrawRequest` lock, check and write with nothing to wait
for in between and are one step.  An early return that writes nothing is the
absence of a step when it comes at the first read, and `Finish` when it comes
after a lock.  `Abort` is a rollback at any point: process death, lost
connection, Prisma's transaction timeout.

Constraints of the schema are treated in two ways.  Those a handler does run
into and turns into a 409 (the exclusion constraint on slots, the trigger on
slot deletion) are guards of the writing step.  Those no handler should ever
reach (unique active slot, unique pending request, the CHECKs on payment,
cancellation and attendance, the trigger on bookings of deleted slots) are left
out of the steps and stated as invariants: the check shows that the application
keeps them without help.

### Payments

`create` is cut where its transactions end and where it waits for the network:
`PayRead` (the first read), `Claim` (conditional update and new attempt, one
transaction), `Post` (the request leaves), then an answer, then `Apply` or
`Rejected`.  `StatusRead` and `Webhook` begin a `Lookup`, whose answer is
carried in `job[t].result` and may be stale when `Apply` books it.  `wire` holds
requests on their way, so a request may be accepted long after its sender timed
out (`Abort` of a waiting worker: 12 seconds in `request`), or never.  `Answer`
may reach the worker or get lost.  `charge` is the provider's own state: a
charge that exists is PENDING until it settles.  A PENDING charge that is found
gives the attempt its `chargeId`, so CREATING is the status of an attempt whose
charge is not known.  There is no second POST for an attempt; that is what the
comment on `findCharge` says and what `Post` does.

`PaymentPage` puts one open page of the student next to that.  `page.loop` is the
poll effect: off, due (its timer), or the read it waits for; `page.buy` is the
create it waits for; the gate is held while either is a request.  `call` follows
each request through the API: `asked` or `status` until a worker takes it
(`BeginCreate`, `BeginStatus`), `served` while that worker has a job of `Payments`,
then the two reads of `response`, which are two statements and may straddle a
write, and `answered` while the page fetches the booking.  `ClaimStep`,
`ApplyStep` and `Work` are the steps of `Payments` with what they mean for the
request: go on, or throw.  `Lose` is any lost or late answer; the job of the worker
goes on without it.  The clean-up of the effect (`GiveUp`) aborts a read except
in the stretch where only `getMyBooking` is out, so an answer may come that nobody
waits for; `Read` drops it.  An error ends the loop: the page then shows the error
and reads no more until the student reloads.  `latest` is the order of attempts by
`createdAt`.  Webhooks, creates of other devices, cancellation and attendance are
`Rest`.

### Sessions and sockets

A request of `AuthService` is cut where a transaction or a single conditional
statement follows a read: `LoginRead`/`LoginCommit` (the hash is compared, then
the transaction reads the account again), `VerifyRead`/`VerifyCommit`,
`ResetRead`/`ResetCommit`, `RefreshRead` and then `RefreshRotate` or
`RefreshReuse`, `LogoutCommit`.  Each commit locks the user row first or is one
statement, so it is one step.  `Notify` follows the commit of whatever ended a
session; `NotifyElsewhere` is the same in a process that does not hold the
socket.  The answer is a step of its own: `Answer` stores its cookie, `Abandon`
loses it.  Passwords, sessions and refresh tokens are numbers.  Of a chat socket
the model has the handshake (`HandshakeRead`, then `Register`: a revocation in
between finds nothing to disconnect), the authorization of every delivery
(`Authorize`, then `Emit`) and the check every five seconds (`Recheck`).

Some of the state is history and changes nothing that happens: `spent` counts redemptions,
`session[s].lost` marks a session one of whose answers was lost, and `blamed`
records a reuse that no loss explains.  `socket[c].told` and `late` record in
the same way what was sent after a notice.

### Files, reviews and ratings

Storage and the database share no transaction, and `TutorRecords` is about the
gap.  A path is `NEW` until it is drawn; its intent is then in its `GRACE`
period, `DUE`, or deleted (`NONE`).  `UploadLost` and `CleanFail` leave the
request on the `wire`, from where `Arrive` may still let it take effect.
`FinalizeLost` leaves a transaction `hanging`: its client saw an error, the
server still holds the locks, and `Resolve` commits it or rolls it back.
`Claim` is the `FOR UPDATE SKIP LOCKED` of the cleanup with the look for
references under that lock; `RemoveDone` is the removal inside the transaction
and `CleanCommit` its commit.  `late` records the paths whose upload was still
under way when the grace period ended.  Those are exempt from the two
properties of files: the code relies on the grace period (five minutes against
timeouts of seconds), and nothing else protects them.

`ReviewDocument`, `RateTutor` and `Reconcile` lock the profile and compute the
cache, `ReviewCommit` and `RateCommit` write it; in between anything may happen
that does not need the profile.

### Conversations

In `Messaging` a request to send goes from `sent` to `open` (its `sentAt` is
drawn), to `stored`, and is answered after its event was published.  `view` is
what the open thread is in the middle of - the request of `synchronize` step by
step, a send, a queued refresh, the timer, the socket - and `tab` is the memory
that survives closing the thread: the messages shown, the cursor, the draft and
the key of a send whose outcome is not known.  An event carries nothing; it
makes the thread read again, which is why losing one does not matter as long as
something else does.  `tab` and `view` are updated by operators on records
(`Refresh`, `StartSync`, `AfterSync`, `Flush`), one for each function of the
component, as one handler calls several of them.

### Reminders

A run of the job is a scan of a page (`Scan`), the read of what is stored
(`Keys`), one transaction for each booking (`Skip`, `Remind`, `RemindFailed`),
and the next page (`PageEnd`).  A run keeps the time it began at.  A booking is
steady for a run when it did not change since the run began; the model keeps
that set to be able to say what a run owes.

Two details worth knowing when reading the models.  The attendance update has a
condition on the slot through a subquery; PostgreSQL does not evaluate it again
when the update had to wait for the row, so `Recordable` speaks of the slot that
was read.  And `EXPIRED` exists in the enum of booking statuses but no code
writes it, so `BookingStatus` does not have it.

## Runs

The first five runs use `MCBookingDesk` and differ in which groups of endpoints are called
(`Handlers`; booking and deciding always are) and in the instance.

| Run | Instance | Question |
|---|---|---|
| `MCBookings` | 1 tutor, 3 slots of which two overlap, 2 bookings, availability and cancellation | Does publishing and deleting slots race safely with booking, deciding and cancelling? |
| `MCMoves` | 2 tutors, 3 slots that are all open, 2 bookings, 1 move request, availability | Is a slot held once and by the right tutor when it is taken by booking and by approved moves, and does the desk implement the calendar? |
| `MCRequests` | 2 students, 1 booking, 2 move requests, cancellation | Do the 24 hour rules, the single pending request and consent survive racing decisions? |
| `MCClassroom` | 1 booking from booking to the end of its class, payment, cancellation, moves, attendance | Are row constraints kept, is a running charge protected, is what is closed final? |
| `MCAnswered` | 1 booking, 1 move request, availability, fairness | Is every request answered? |
| `MCPayments` | 2 bookings, 3 attempts, 3 workers of `Payments` | Is nobody charged twice, is no money lost, do results stay, and is the payment contract kept? |
| `MCPaymentPage` | 1 booking, 1 attempt, 2 workers, 2 requests of the page, 1 reload, visit or pause, fairness | Does the page never go back, and does it show every outcome it waits for, or an error? |
| `MCSessions` | 2 verification links, 1 reset link, 2 sessions of 2 refresh tokens, 2 requests, 1 socket | Do tokens work once, does nothing outlive a reset, are honest tabs never blamed, does a revoked socket get nothing? |
| `MCRecords` | 2 avatars, 3 documents of 2 types, 2 uploads, 2 bookings to review, 2 workers | Is no file missing or forgotten, is one document of a type pending, are both caches current? |
| `MCMessaging` | 2 attempts of the user, 1 message of the peer, pages of 1 message, 1 draft, 1 fault, fairness | Is a draft stored once, are receipts true, is nothing skipped, does what the peer wrote arrive? |
| `MCMessageGap` | 1 attempt, 1 message of the peer, no fault, fairness | Does it arrive when two messages are committed in the other order than their times?  It does not: a finding. |
| `MCReminders` | 1 process, 2 bookings, slots at 2, 3 and 3, an hour of 1 and a day of 2 ticks, pages of 1, 2 events, fairness | Is what is written true, does a run leave nobody out, do missed reminders come? |

Bounds of the desk.  Two workers are enough for every race of two handlers; the protocols
are pairwise (a lock excludes one other transaction, a condition is checked
against one other write), and the theorems below hold for any number.  Three slots give a source, a target
and a third that overlaps one of them.  Two bookings compete for a slot; two
requests compete for a booking.  `Cutoff = 2` ticks stands for the 24 hours and
slots start at 3, 4 and 5, so a class can be on either side of the cutoff;
`MaxTime` is 3 where only the cutoff matters and 6 where a class has to end.
Ids are never reused, so `Bookings` and `Requests` also bound how many rows are
ever made.  The system stops when ids and time are used up, hence
`CHECK_DEADLOCK FALSE`; real waiting in a circle is what `RequestsAnswered`
excludes.  Workers and bookings are symmetric in the safety runs; the liveness
run has no symmetry.

Bounds of payments.  Three attempts allow a booking a failed attempt, its
repetition and a neighbour that must not be touched; three workers are a sender
that is late, a reader with a stale answer and one that acts in between.  On the page, two
requests are one that was given up and the next one, two workers are the job a
lost request left behind and the request after it, and one reload is enough to
recover from an error; the same properties were also checked with `MaxClicks = 2`
(500 thousand states) and with two attempts and one worker (945 thousand).

Bounds of the others.  Sessions: two requests are a rotation and the request it
races with; two sessions are one that a reset ends and one that is made after it
(or, wrongly, before); one refresh token and its successor are enough for a
reuse.  Records: two uploads are a file and its replacement, or two documents
of one type; the invariant that is proved was checked on the same instance
without symmetry.  Messaging: a page of one message makes every
catch-up take several requests, and one fault is one lost answer, one lost
connection, one restart or one hidden page, each at any moment.  Reminders: two
classes that start together need the second half of the scan's key, a third slot
is a target of moves, two events are a failure and a move.  `MaxTime`,
`MaxEvents`, `MaxFaults`, `MaxDrafts`, `MaxUploads`, `MaxSessions`,
`MaxRefresh` and `MaxClicks` bound what would otherwise go on for ever; the systems stop there,
hence `CHECK_DEADLOCK FALSE`.

A tick of the clock is hours and a transaction lives for seconds (Prisma rolls
it back after five), so `Tick` lets a request in flight see at most one tick.
That is what the cutoff properties rest on: a request may be checked just before
and written just after an hour strikes, not a day later.

Fairness.  `FairSpec` is strong fairness of the steps that continue a request
(`Answer`), for each worker.  A handler that is not waiting is run by the event
loop.  One that waits for a row is in the lock queue of PostgreSQL, which serves
its waiters in turn, so a row that is released again and again is eventually
granted.  Nothing is assumed about clients, payments, time or aborts.

`PaymentPage!PageFairSpec` assumes that the timers of the page fire, that the API
goes on with a handler or times out (`Work` includes `Abort`), that an answer that
was sent arrives unless it is lost, and that a request is not kept waiting while
others are served again and again (the strong one).  It assumes no webhook, no
second click, and nothing about how many answers are lost: a lost one ends in an
error on the page, which is one of the two outcomes `OutcomeShown` allows.

`Messaging!FairSpec` assumes that the API goes on with a request it received
(`Answer`), that a send ends with an answer or an error, that requests of the
thread come back or are aborted, that the poll timer fires, that an event which
was sent arrives unless its connection is lost, and that a hidden page is shown
again.  Faults are finite by their bound.  It does not assume that a socket ever
joins, or that the user sends or scrolls.  `Reminders!FairSpec` assumes of each
process that its cron goes on ticking and that a run goes on; a run may fail
`MaxEvents` times.  All of these are weak: nothing else disables the step again
and again.

### What `MCMessageGap` shows

`apps/api/README.md:281` says that "an acknowledged send cannot skip a
concurrent incoming message".  The cursor of the thread indeed does not jump to
the message that was sent.  But `sentAt` is drawn when the insert begins, before
it commits, and history is read forward from a cursor over `(sentAt,
id)`.  When the peer's message draws its time first and commits second, a read
in between moves the cursor past it, and no poll and no event reads behind the
cursor again; the message shows after the page is reloaded, or when a receipt
happens to make the thread read from an earlier message.  `NothingSkipped` and
`MessagesArrive` say what does hold: whatever is committed in the order of the
times is shown.

Each property has a mutation of the code, kept next to the definition it changes
(`...Unlocked`, `...Unchecked`, ...), that breaks it: a lock not taken, a check
trusted across a wait, a WHERE clause without one of its conditions.

## Proofs

The theorems hold for every value of the constants under the assumptions stated
in the modules that declare them.  For the desk, that is every set of users,
slots, bookings, requests and workers and every timetable, provided that `Nil` is
not an id, nobody is both student and tutor (a role is one column of `User`), a
slot ends after it starts, the slots published initially do not overlap, and the
cutoff is at least two ticks (a request lives through one at most).

1. `BookingLocks_proofs`.  `TypeInv` adds to the types which fields a row and a
   request in flight have set (`GoodBooking`, `GoodRequest`, `GoodJob`): a
   booking that exists has a slot, a student and a tutor, and a worker in the
   middle of a handler has the ids that handler uses.  Without it no step could
   be typed, as rows are updated at ids found in `job`.  `LockInv`: no two
   workers lock one slot or one booking, an id drawn for a new row is drawn by
   one worker only, and a booking that waits in a confirmation is still pending.
   Every acquisition checks `SlotFree` or `BookingFree`.
   Theorems `TypeInvariant`, `TypeCorrect`, `LockInvariant`.
2. `BookingCalendar_proofs`.  `NoDoubleBooking` is not inductive: a worker that
   has locked a slot writes it in a later step.  `CalendarInv` strengthens it by
   what the lock protects: the slot locked for a booking or for an approved move
   is live and reserved by nobody for as long as the lock is held
   (`SlotLockProtects`), the target belongs to the booking's tutor
   (`OwnTarget`), live slots of a tutor are disjoint (`LiveDisjoint`), and a
   booking is with the tutor of its slot (`OwnSlot`).  The steps are sorted into
   kinds (those that touch no slot or booking, those that take a lock, those
   that write), so that each part of the invariant has a short case split.
   Theorems `CalendarInvariant`, `NeverDoubleBooked`, `ActiveSlotsStayLive`,
   `TutorsNeverDoubleBooked`.  The last part maps every step of `BookingDesk` to
   a step of `SlotCalendar` or to one that leaves its two variables alone:
   `DeskImplementsCalendar`.
3. `BookingRules_proofs`, on top of the other two.  The first half says what a
   step does to one booking (`RowStep`), one request (`RequestStep`), one worker
   (`JobStep`) and the clock, each action being one of few shapes; lemma
   `StepEffects` is the only case split over the actions.  The second half
   argues from these effects alone.  None of the rules is inductive, as a commit
   trusts what its handler checked a step earlier.  `RulesInv` adds what is
   still true of such a check: the clock has gone on by a tick at most
   (`RecentClock`); a cancellation or an approval was in time for the slot it
   has read (`CancelInTime`, `ApprovalInTime`); an approval is by the other side
   (`ApprovedByOther`); a booking for which a request is being inserted has no
   pending one, because the inserting worker holds its lock (`NoOtherRequest`);
   and the columns about payment agree (`RowsSound`), so that the claim of a
   running charge keeps every other handler off the row.  The part one would not
   guess is `AttendAfterEnd`.  The recording of attendance looks at a slot that
   it read earlier, and the class might be moved in between.  It cannot be: its
   end is past, an approval that is still to be written was checked a tick ago
   at most, and then its class was at least `Cutoff`, two ticks or more, away.
   Theorems `RulesInvariant`, `RowChecksNeverFail`, `ClaimsProtectCharges`,
   `CompletedAfterItsClass`, `CancelsInTime`, `MovesInTime`, `OneRequestPends`,
   and the action properties `ClosedStaysFinal` and `MovesNeedConsent`.

4. `Payments_proofs`.  Assumption: `Nil` is no id.  None of the properties of
   `Payments` is inductive, as each depends on what workers may still do.
   `PayInv` adds: the worker that drew the id of an attempt is the only one that
   may post it (`OneMaker`); a request to be posted has no charge, a rejected one
   never gets one, and a result in flight is the charge's own or an outdated
   PENDING (`JobRows`); a charge that exists belongs to an attempt, and an
   attempt that has a result has that of its charge (`Records`); a booking is
   claimed exactly for its open attempt and paid exactly for its won one
   (`Counts`).  One lemma per action.  Theorems `PaymentInvariant`,
   `PaymentTypeCorrect`, `ChargedAtMostOnce`, `MoneyIsRecorded`,
   `OneAttemptCountsAlways`, `ResultsStay`, `PaymentsImplementContract`.
   The second half is about the page.  `PageInv` adds that what was read of a
   payment is its past (`Past`), that the page waits for one request at a time
   (`OneLive`), and that an answer it waits for is not older than what it shows
   (`Newer`); `Onward` is what the service may do to a status, and is transitive.
   Theorems `PageInvariant`, `PageTypesHold`, `PageMovesOn`, and
   `PageImplementsPayments`: page and API together are an implementation of
   `Payments`, so every theorem of `Payments` holds for them.

5. `AuthSessions_proofs`.  Assumption: `Nil` is no number, link or worker, and
   links, resets and pairs of numbers are different things.  `AuthInv` says of a
   request in flight what it may still redeem (`JobFine`: a verification that was
   read before a reset has lost its link), of a token that it was spent once at
   most and only when its link is used or its session has moved on (`LinksFine`,
   `TokensFine`), and of a socket that it passes its authorization only while
   nobody was told of the end of its session (`SocketFine`).  `Onward` is what
   all steps have in common: sessions go from fresh to live to ended, and a new
   password takes every live link with it.  Theorems `AuthCorrect`, `AuthTypes`,
   `TokensAreOneTime`, `ResetEndsSessions`, `NoticeEndsDelivery`.
   The last part is about the tabs of the browser.  `TabsInv` speaks of the live
   sessions none of whose answers was lost: the cookie holds the valid token, or
   the answer that brings it is on its way and its tab still holds the lock; and
   whatever is presented under the lock is that token (`InTurn`).  So no refresh
   finds a used one: `TabsAreNotBlamed`.
6. `TutorRecords_proofs`.  Assumption: avatars and documents have different
   paths.  `PathFine` says of one path which of upload, cleanup, hanging
   transaction, late request and reference can exist together; a step disturbs
   the path it is about (one lemma per kind of step) and only gives up what was
   under way for the others (`Kept`, `PathKept`).  The second half, `RowsFine`,
   is about the holder of the profile's lock: what it computed is still what the
   rows say (`JobFine`), and nobody else holds the lock, not even a transaction
   that hangs (`OneLock`).  Theorems `RecordsTypes`, `NoFileMissing`,
   `NothingIsForgotten`, `OnePendingAlways`, `CachesStayCurrent`.
7. `Messaging_proofs`.  Assumptions: the requests are a finite set, `Nil` is no
   request and no pair of one and a draft, a page is not empty.  Finiteness is
   what a step needs that draws a time: as many positions are drawn as requests
   have left `sent` (`Drawn`).  Again the actions are first reduced to effects:
   what a step does to requests and rows (`DatabaseStep`), to the draft
   (`DraftStep`) and to the memory of the thread (`ThreadStep`).  `DraftsInv`: all
   requests and rows of a draft carry one key (`OneKey`), and as long as the
   draft is the current one the thread keeps that key (`KeyIsKept`), also after an
   error and after the thread was closed.  With the unique key of the table a
   text is stored once.  `ThreadInv` is about the cursor.  It is the position of
   a stored message or 0; whatever was committed in the order of the times
   lies beyond all messages stored before it, so it lies beyond every cursor and
   is found by the next read.  While a catch-up is under way the same holds of the
   pages it has collected (`RequestInv`), with facts about first and last pages of
   a set of numbers (`FirstPagePrefix`, `LastPageSuffix`).  Theorems
   `MessagingInvariant`, `TypeInvariant`, `TextsAreStoredOnce`,
   `CursorSkipsNothing`, `ReceiptsStayTrue`.
8. `Reminders_proofs`.  Assumption: the timetable is one of numbers, an hour is
   less than a day, a page is not empty.  `RunFine`: each steady booking has its
   reminders, or is on the page with at least what it needs planned, or is
   behind the cursor of a scan that goes on.  Theorems `RemindersTypes`,
   `RunsCoverSteady`, `RemindersTrue`.

Each inductive invariant was first checked by TLC on the instances of the runs.

The proofs fail where one would expect when the code is changed: without the lock
test in `CreateLock` or in `DeleteCommit`; without the test of the slot in
`StillCancelable` or with a cutoff of a single tick; with a new key for every
attempt to send, a cursor that jumps to the message sent (`ShownAhead`), or a page
that forgets where it began.

Every safety invariant and every action property of the passing runs is a theorem.
Model-checked only are the four liveness properties (`RequestsAnswered`,
`OutcomeShown`, `RemindersCome`, `MessagesArrive`): they rest on fairness, hence on
ENABLED, which is outside what the prover can do.  `NoMessageSkipped`, which the
code does not keep, is refuted by `MCMessageGap`.

## Not modelled

Prices, currencies and vouchers; reasons, wording and formats; the pages and
filters of the list queries; roles and ownership guards (an action takes a user
who has passed them); the readiness of tutor and listing at booking time, which
`create` reads without a lock and which no other modelled handler changes; notification
rows, written in the same transaction as the change they report.  In
`PaymentClaims` only the effect of payments on a booking: `ApplyCharge` may bring
any result at any time while an attempt is open, which is more than the provider
does.

In `Payments`: amounts, currencies and the identity checks on them, which never
change for a booking; webhook signatures; the 15 seconds before `findCharge` is
tried, and its paging; QR codes and expiry times (a charge may settle as EXPIRED
at any time); the lock on the booking in `applyCharge`, as that transaction is
one step here.

In `AuthSessions`: registration (it is the initial state), consent, cooldowns and
throttles, which only thin out requests, the cookie that ties an email link to a
browser, and the expiry of access tokens.  An account is suspended by an operator;
no code does it.

In `TutorRecords`: names, sizes and types of files, signed links, and the owner's
check of a document beyond that it may fail.  Several tutors share nothing of
this.  The average of a rating is a function of the reviews, so the cache is
their set.

In `Messaging`: texts, opening a conversation and the inbox, the rate limit,
errors that end a thread for good, scrolling (whether the end of the thread is in
sight is left to chance), and the 409 for a key that is used for another text,
which the client does not send.

In `Reminders`: the event notifications of the other handlers, which are rows of
the transactions they report, and listing and marking notifications as read,
which are single statements on rows of one user.

Of the web application the models have what holds state across requests: the
refresh of tokens, the open thread, and the payment panel.  Of the panel: the hidden
page, which only delays its loop; QR codes; and the copy of the booking that the
page around it keeps.  Profiles, listings,
the directory and its ranking are single-owner updates and queries, and nothing
interleaves with them.  Forms, editors, translations and pages hold no state that
another actor can see, and the scripts exercise the API from outside; together
they are most of the repository's lines.

## Plan

Done: the booking desk and its calendar, payments and their contract, sessions,
the payment page, the records of a tutor, conversations, reminders, and theorems
for all their safety and action properties.  Left:

1. Proofs: shorter ones where several lemmas repeat an argument
   (`Messaging_proofs`, the steps of the calendar), and an abstract conversation -
   messages are committed and shown, no pages, cursors or events - of which
   `Messaging` is an implementation.
2. The booking page around the payment panel, whose revision counter keeps late
   answers from undoing a cancellation it has shown.

Files: `MCPayments.cfg`, `MCPaymentPage.cfg`, `MCSessions.cfg`, `MCRecords.cfg` and
`MCReminders.cfg` are runs of the modules of their names, `MCMessag*.cfg` of
`MCMessaging.tla`, the other cfgs of `MCBookingDesk.tla`; `PROJECT.json` lists
components, runs, mutations, the map from definitions to source lines, hazards and
theorems.
