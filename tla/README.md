# A TLA+ model of setad-jang

setad-jang is a Django and Celery back end over PostgreSQL and Redis. Web
threads (gunicorn), Celery workers, Celery Beat sweeps and the Django panel all
work on the same rows. Business logic sits in each app's `services.py`; the
interesting behaviour is what happens *between* its transactions.

This directory holds specifications of the parts where that matters, TLC
configurations that check them on small instances, and TLAPS proofs for every
size. `PROJECT.json` is the index: components, runs, mutants, the map from
definitions to source lines, findings, hazards and theorems.

## 1. The system and its modules

Every app logs through `audit_logs.services`, from inside its own transactions
or through the task queue; every app that publishes content invalidates public
caches through `core.cache_invalidation` on commit; Celery Beat drives the
sweeps; `tabyin`, `madadkar` and the notification channels talk to outside
services.

In all modules **one action is one database transaction, one cache call, or one
read that a later step relies on.** What a process keeps in memory between two
such steps is a variable of its own (prefixes such as `s_`, `v_`, `d_`, `y_`), so
that it can be out of date when it is used, or lost with its process.

| Module | Code | State and actions |
|---|---|---|
| `MadadkarFunding` | `apps/madadkar/services.py`, `tasks.py`, `selectors.py` | One campaign, its participations (each with its one payment) and external fundings. The three transactions of `initiate_participation`; `CallGateway` and the transaction of `verify_payment` with its four outcomes; cancellation; `expire_stale_participation` and `close_campaign_due_to_deadline` on what was listed earlier; publish, close; processes that die. |
| `ShareCapacity` | none, a promise | Holders take shares that are free, once, and give them back, once. |
| `MadadkarCampaignAdmin` | `update_campaign`, `delete_campaign`, the panel | `MadadkarFunding` with admins who load an object, test it, and later write some columns (API) or all of them (panel form). |
| `MadadkarFinance` | `apps/madadkar/services.py`, finance workflows | Refunds, adjustments and disbursements: request with an idempotency key, approve, reject, complete, and the recomputed `purchased_amount`. |
| `AuditChain` | `apps/audit_logs` | Request threads and workers insert into one hash chain: read the visible head, insert under the unique indexes, retry, give up; open transactions; redelivered messages; `SET NULL` of a deleted user; the verifier. |
| `OneTimeCode` | `apps/authentication/otp.py`, `services.py` | Cooldown slot in the cache, look at the newest row, persist, deliver, then retire the other rows and commit, or discard; a legacy caller (`create_and_send_otp`) holds one transaction around all of it, so its rows are invisible and its commit is a step of its own; verification in its read and write steps, inside or outside a surrounding transaction. |
| `AuthSession` | `apps/authentication/services.py` | Logins, revocations, password changes and resets, validity checks with a cached verdict, token refresh. |
| `PublicCache` | `apps/core/cache.py`, `api_cache.py` | A namespace with a version; stale-while-revalidate reads, the rebuild lock, seeding, eviction, expiry; writers that bump the version after their commit. |
| `PendingInvalidations` | `apps/core/cache_invalidation.py` | The queue of one transaction with its savepoints, and Django's `run_on_commit` list that is replaced on rollback. |
| `InvalidationOutbox` | `apps/core/tasks.py`, `admin.py` | Outbox events, the task that claims an event, calls the frontend and saves the outcome from its own copy, its retries, tasks that die or are ended by an error or a limit, the sweeper, the operator's actions. |
| `LmsLearning` | `apps/lms/services.py` | Progress, attempts (whose start is several steps), passes, certificate and skill, unlocks, lesson switches. |
| `LmsDiscussion` | `apps/lms` discussion services | Answers, replies one level deep, acceptance, moderation, deletion with tombstones (look, collect, erase); nothing is locked. |
| `DocumentPages` | `apps/lms/pdf_pages.py` | Overlapping renders over a storage that never overwrites: list, wipe, save pages, save the manifest last. |
| `SupportTicket` | `apps/support_desk/services.py`, `tasks.py` | A ticket, requests that save fields of a copy loaded earlier, the SLA clock with its pauses, with or without a policy, the breach task. |
| `BusinessCalendar` | `add_business_minutes`, `_next_working_instant` | The working-time arithmetic, loop by loop, for any two times of day as opening hours, against a minute-by-minute definition. |
| `NotificationDispatch` | `apps/notifications` | Event creation, hand-over after commit, the three phases of `dispatch_event`, redelivery, dispatches that raise, reading. |
| `KindnessListing`, `KindnessViews` | `apps/kindness_wall` | The life of a listing with its PATCH, its panel form and its expiry task of two queries; view counting with rows, cache keys, windows and the purge, where the table or the cache may fail. |
| `TabyinSync` | `apps/tabyin/sync/engine.py` | Full and incremental runs, which may overlap, over a source that changes while it is read; failed pages; the soft deletion. |

`MCMadadkarFunding`, `MCOneTimeCode` give TLC the symmetry of their
specifications. `MCRequests`, `MCServices` and `MCLms` put components that share
no state side by side: a behaviour belongs to one component, chosen in `Init`, so
the run is the union of the components' state spaces and not their product.

### Abstractions

- Clocks: "the timeout has passed for this row" is an action of its own; where
  differences of times matter (SLA, views, listings) time is a small counter.
- A sum of amounts or shares is the cardinality of a set of units `<<row, i>>`,
  so that the proofs can count.
- SHA-256 over the canonical JSON is an injective tuple of what is hashed.
- A row of the audit chain is its position, its links, its user and its entry; a
  cached payload is the number of the last change it shows; a page image is the
  upload it shows; a source item is its content number.
- The gateway is the set of answers its verify call can give, each with or
  without the money captured (`CaptureOutcomes`).
- Environment of the tasks, from the settings: messages are acknowledged late and
  come back when a worker is lost (`acks_late`, `reject_on_worker_lost`); the
  database is READ COMMITTED.
- History variables serve properties only (`base` in `AuditChain`; `accepted`,
  `wrong` and `crossed` in `OneTimeCode`; `straddling` in `AuthSession`; `receded` in
  `PublicCache`; `overlapped`, `mixed`, `torn` in `DocumentPages`; `y_clean` in
  `TabyinSync`; `resubmitted` and the field `granted` in `SupportTicket`; `crossed`,
  `stale` in `LmsDiscussion`; `settled`, `unsaved` in `InvalidationOutbox`; `sends`,
  `losses`, `dropped` in `NotificationDispatch`; `by_row`, `by_key`, `degraded`,
  `drops` in `KindnessViews`). Several of them mark the behaviour that a property
  leaves out, and the property says so.

## 2. Runs

| Run | Instance | Distinct states | What it shows |
|---|---|---|---|
| `funding` | 2 participations, 1 external funding, 2 shares, 2 threads; the gateway verifies, is unreachable or confirms another amount | 1,191,743 | Counters equal the sums over the rows, nothing is oversold, a payment that may still succeed holds its reservation, the ledger explains each payment, and the rows implement `ShareCapacity`. |
| `settles` | 2 participations, 2 shares, 2 threads, fair; the gateway verifies or declines | 190,372 | A settled payment never moves again; every reservation is settled in the end. |
| `campaign_edits` | 1 participation, 1 funding, 1 edit in flight | 1,528,197 | API edits of a stale object leave the counters exact. |
| `audit_chain` | 1 request thread, 2 workers, 1 user, 2 entries, 3 attempts, 1 retry, 2 faults, fair | 177,376 | No fork or gap, nothing lost silently, the verifier is exact, rows are append-only, the queue drains. |
| `codes` | 2 senders, 2 verifiers, 2 codes, limit 1, 1 cache flush | 2,448,201 | A code is used once; of the delivered codes one is in force, unless another send retired its rows while a legacy transaction was open past its own update; wrong tries are counted; sends are spaced while the cache keeps its slots. |
| `sessions` | 2 sessions, 1 login, 1 token request, 2 operations, 1 password change, fair | 486,012 | Sessions of an old password end, cached refusals are true, a revocation takes hold for good. |
| `requests` | finances, support ticket, calendar, views, public cache, invalidation queue, one at a time | 2,623,070 | Refunds stay within their payment, the net amount is exact, disbursements stay within the income; the due times move with the pauses; a due time comes after the full minutes; views count once per window, and more often only where the table failed; old payloads stay hidden; a transaction invalidates what it changed. |
| `lms` | learning, discussion, document pages, one at a time | 795,910 | Attempts stay within the allowance, passes are awarded, deletions spare visible answers that did not cross them, one answer is accepted until a stale moderation, a fresh manifest is complete. |
| `services` | outbox, SLA breaches, notifications, listing expiry, content sync, one at a time, fair | 134,718 | SUCCEEDED follows a call that ended well; a provider gets a delivery once, and again only for a loss; no event is forgotten unless its task was aborted, overdue tickets are marked, deliveries get results unless a dispatch was dropped, due listings leave; an undisturbed full sync mirrors its source. |

Each property of these runs has a mutant in `PROJECT.json`: a plausible slip in
one mapped definition (a dropped guard, a missing reset, a swapped order) that
makes TLC report the property violated.

Three runs end in a violation. Each is a disagreement between the code and a
comment or docstring of the repository, quoted under `findings`:

| Run | What TLC shows |
|---|---|
| `expiry_race` | `expire_stale_participation` tests the object the task listed earlier. A participation paid in between ends EXPIRED with a payment that is SUCCESS. |
| `page_race` | Renders are not serialised and the storage never overwrites. A slow render of the old document can leave a page that the new manifest then describes. |
| `wall_deletes` | `_soft_delete_missing` hides every row whose identifier it did not see: user submissions, and the rows of a page that failed to load. |

### Other statements known not to hold

The modules also state what other comments, docstrings or documents say where
TLC finds that the code does something else. No run of the project checks them;
each fails on the instance of its component's run, with changed constants where
the table says so.

| Property | What happens instead |
|---|---|
| `DeadlineSparesCompleted`, `CompletedIsSold`, `UnreachableKeepsReservation` (`MadadkarFunding`) | The deadline task closes a campaign that completed after it was listed; completion counts reservations; a verify call that got no answer fails the payment at once. |
| `DeletedIsDraft`, `LockedAfterFirstPayment` (`MadadkarCampaignAdmin`) | The tests of `delete_campaign` and `update_campaign` are made on the object loaded earlier. |
| `SharePriceConsistent` (with `MaxEdits = 2`) | Two edits in flight restore an old price. |
| `ApprovalsAreCovered` (`MadadkarFinance`) | The re-check of `approve_campaign_disbursement` cannot fail, so a request is approved after refunds or debits took the money that covered it. |
| `CountersExact` under `PanelSpec` | The panel form writes back the counters it loaded. |
| `ChainAlwaysVerifies` (`AuditChain`) | Deleting a user makes the verifier reject an untouched chain. |
| `EveryRefusalCounts` (`OneTimeCode`, with `MaxRolledBack = 1`) | A refusal inside a surrounding transaction is rolled back with it. |
| `RetiresPreviousCodes` (`OneTimeCode`) | A slow delivery that commits late retires the code of a newer one, too. |
| `RevocationIsImmediate` (`AuthSession`) | A validity check that read the session before the revocation can cache its verdict after it. |
| `VersionsOnlyGrow` (`PublicCache`) | A seed taken from the clock earlier replaces the version that is there by now. |
| `RetriedBeforeGivenUp`, `OutcomesAreFinal` (`InvalidationOutbox`) | The operator's retry keeps the attempts of an event, so a task may give it up without calling the frontend; a task that loaded the row earlier saves its outcome over a final one. |
| `PausedClockNeverBreaches` (`SupportTicket`) | The breach task selects by status and due time and does not ask whether the clock is paused. |
| `SentMeansNoneFailed`, `NothingIsLost` (`NotificationDispatch`) | A second dispatch computes the status from its own deliveries only; nothing looks for deliveries that a dispatch which raised, or a web process that died, left pending. |
| `OnlyDueListingsExpire` (`KindnessListing`) | The second query of the expiry task does not look at what it updates: a listing renewed or fulfilled since the first is expired. |
| `QuestionsGoAlone` (`LmsDiscussion`) | An answer posted between the look of a deletion and its collection of the rows goes with its question. |
| `StateMirrorsStart`, `LessonsCompleteWithFullBar` (`LmsLearning`) | The attempt state and the start of an attempt differ in cases; an enrollment can complete with a percentage below 100. |

### Bounds, and why they are enough

- Two rows of a kind and two processes are what a race needs. With two
  participations and a funding on two shares, competition for the last share, a
  full campaign, and a share released and taken again all occur.
- Two web threads let two callbacks of one payment, or a callback and a new
  reservation, overlap. The sweeps and the NOK callback need no thread.
- `MaxEdits = 1`: one edit against all other traffic; the proofs cover any number.
- The audit chain has 3 attempts instead of 8 and 1 retry instead of 5, so that
  running out of both is reached. `MaxFaults = 2` lets a redelivered task be
  killed again. Three entries are out of TLC's reach.
- `AUTH_OTP_MAX_ATTEMPTS = 1` makes the limit reachable by two verifications;
  `MaxFlushes = 1` loses the cooldown slot once.
- The calendar has days of 6 half-minutes in a week of 3 days with 2 of them
  working, all pairs of opening and closing times, starts on 2 days, holidays among
  4, and up to 4 minutes; the loops are followed to `LastDay = 9`. Starts before,
  inside, at the edges of and after the opening hours, weekends, holidays next to
  each other, requests of more than one day and hours that never open occur.
- In `requests` the ticket has no breach task (`Sweepers = {}`) and no status set
  directly (`AdminStatuses = {}`), but two overlapping requests and calendars that
  skip a minute (`MaxClosed = 1`); in `services` it is the other way round.
- The other caps (`MaxUnlocks`, `MaxEvictions`, `MaxDeaths`, `MaxLosses`,
  `MaxErrors`, `MaxTicks`, `MaxClock`, `MaxFaults`, `MaxDegraded`, `MaxDrops`...)
  bound how often the environment interferes. Each is at least one, with three
  exceptions: `MaxClosed = 0` in `services`, `MaxRolledBack = 0` in `codes`, because
  a rolled back refusal leaves the table as a verifier that dies does (only
  `EveryRefusalCounts` tells them apart), and `MaxFaults = 0` in `page_race`, which
  needs none.

Symmetry is used for participations (`funding`), senders and verifiers (`codes`),
starters, users and renderers (`lms`). The runs that check liveness use none.

Deadlock is not checked: when every row is settled, or every bound is used up,
the system may stop.

### Fairness

No run assumes that a user, an operator or the gateway ever acts again, and none
assumes a fault.

- `MadadkarFunding` (`settles`): a request that waits for the gateway ends or dies
  (the provider has a timeout); the payment timeout passes; Beat lists the stale
  rows over and over (weak fairness). A listed row is expired under strong
  fairness, because a task may be killed with its list and is delivered anew.
- `AuditChain`: a process inside `create_audit_log` goes on, a transaction ends
  (requests have a time limit), an idle worker takes a queued message.
- `AuthSession`: a request that has read its session runs on, and the cache drops
  an entry whose timeout has passed.
- `InvalidationOutbox`: workers run the tasks they have, Beat runs the sweeper
  every minute, and a message that is waiting again and again is taken (strong
  fairness on `LoadEvent`).
- `SupportTicket`, `KindnessListing`: Beat runs the breach task and the daily
  expiry task over and over; an expiry task is not lost for ever (strong fairness).
- `NotificationDispatch`: the request goes on, Celery delivers its messages, a
  dispatch ends. Losses are bounded.
- `TabyinSync`: a nightly full run is started and taken to its end.

`MCServices` joins these conditions. Since `part` never changes, only the
conjuncts of the chosen component are ever enabled.

## 3. Proofs

The theorems hold for all values of the constants that satisfy the `ASSUME`s of
the specifications: bounds are natural numbers, sets of rows or processes that are
counted are finite, null values are not rows, and a day and a week have a length.
Nothing else is assumed; library facts are those of `FiniteSetTheorems`. The
safety theorems are about the specifications with their fairness where they have
any, and use none of it.

Every proof follows one pattern: an inductive invariant, one lemma for the initial
states, one per action or per conjunct for the steps, and a last step of temporal
logic.

### MadadkarFundingProofs: `MadadkarFunding`, `MadadkarCampaignAdmin`

`IInv` is `TypeOK`, `RowsInv`, `SharesInv` and `LedgerExplainsPayment`.
`FundedWithinTotal` is not inductive by itself: `verify_payment` writes PAID
without a capacity test, which is harmless only because the participation still
holds its reservation. That in turn needs `MemoryAgrees`: an initiate request has
no payment yet and its row is not stale, so the sweep cannot take it. The
arithmetic rests on lemmas on how a change of one row changes the number of units.

`CapacityImplemented` is the refinement of `ShareCapacity`: initial states map to
initial states, every step to a taking, a giving back, or nothing.
`SettledPaymentsFinal` and `ReceiptsMatchPayments` have the hypothesis that
providers never confirm another amount. `EditsInv` drops the bound on what is
funded, which unlocked edits of `total_shares` do not keep, and shows that the
rest survives any number of API edits (`CountersExactUnderEdits`,
`MoneyRowsSurviveEdits`).

### MadadkarFinanceProofs: `MadadkarFinance`

`FinanceInv`: types, rows that agree with one another (a refund has a payment, and a
participation is refunded only by a refund of the whole payment), `CounterSynced`
(the counter is what a recomputation would give now), refunds within their payment,
commitments within the income. `NetAmountExact` follows from the synced counter;
`MoneyLeavesOnlyApproved` (nothing is paid out or given back unreviewed, or changed
afterwards) is an action property that follows step by step.

### AuditChainProofs: `AuditChain`

`Inv`: positions and hashes are unique over committed *and* uncommitted rows;
every row carries the hash of its original author and follows a row its own
transaction can see; a writer about to insert holds a position that follows a row
it still sees, beyond every position it has lost; a message about to be
acknowledged is recorded or reported. The step lemmas reduce the actions to their
effect on the rows (nothing, one row more, uncommitted rows fewer, a commit, a
SET NULL). For `LostRacesAreProgress` a collision of hashes is shown to be a
collision of positions.

`CopiesInv` adds what `DuplicatesCostFaults` needs. Every entry is in the hands of
one process at a time (`Owned`), and the positions its rows have taken, committed
or not (`Slots`), are no more than the faults so far while it may still be written,
and at most one more afterwards (`Paid`).

### OneTimeCodeProofs: `OneTimeCode`

One invariant per property, over the common types `OtpTypes`: `AcceptedIsUsed` for
single use; `InForce` for the code in force; `Spaced` (the slot is
held while a send is under way, a pending row is the newest, fresh rows are there)
for the cooldown; `Counted` for the attempts, in which each verification that read
the row in time may still use up one count.

`OneCodeInForce` is not inductive: a send retires rows in one step and, inside a
legacy caller's transaction, commits in a later one. `InForce` adds `MissedNone`:
between the two, a send has missed no committed row, and of two sends in between one
has retired the row of the other, unless the row is used or was crossed by now. It
rests on `RowsAreOwned`: no two sends work on one row, and a row is visible to the
others unless its caller is legacy.

### RequestProofs: `AuthSession`, `PublicCache`, `KindnessViews`, `PendingInvalidations`

- `SessionInv`: a request that saw a session revoked is right, and password operations
  follow one another, each having under its hands every live session but the one it
  keeps and those of logins that straddle it.
- `HighestIsFresh`: while no seed fell short, the version in force is the greatest,
  no reader works under a greater one, and what lies or is about to be stored
  under it shows every change whose invalidation was applied.
- `ViewInv`: what was counted by its row in a window that is kept is marked, only a
  mark for which the table failed is counted by its cache key, and that at most once
  for every loss of the key and once more while it is there.
- `QueueInv`: each surviving write is covered by a registered callback whose queue
  has its domain and whose open savepoints all enclose the write.

### ServiceProofs: `NotificationDispatch`, `InvalidationOutbox`, `SupportTicket`, `BusinessCalendar`

- `DispatchInv`: for each delivery, the sends so far, the messages in the broker and
  the dispatchers that may still send it are together at most one more than the
  losses (`SendsArePaid`), and a dispatcher remembers exactly what it selected.
- `OutboxInv`: a task about to save a success has had a call that ended without an
  error, and only rows that exist have messages.
- `SlaInv`: unless the ticket is submitted again, the row and every copy a request
  holds carry the due times their submission was granted plus exactly the pauses
  counted in that copy. It has to speak of the copies, because requests save fields
  of a row they loaded earlier.
- `CalendarInv`: the working time between the start and the current instant of the
  loops is at least what they have counted. With opening hours of whole minutes it is
  that, or half a minute more once they stand at an opening, because only a start may
  lie between two minutes. `DueAfterTheMinutes` follows: a due time leaves the full
  number of working minutes and, with such hours, less than one more. Working time
  is defined as a count of instants, so the lemmas are about splitting an interval
  (`TimeAddsUp`) and about intervals all or none of which is working time.
  `NoHoursNeverEnd`: with hours shorter than a minute, or that end before they begin,
  nothing is ever counted and `add_business_minutes` never returns.

### LmsProofs: `LmsLearning`, `LmsDiscussion`

`Allowed`: a number that a request has taken and has yet to use is within the
allowance too, so concurrent starts stay within it. `Awarded`: a pass has its
enrollment and certificate, and the skill follows the certificate. `DiscussionInv`:
threads are one level deep, a reply refers to its own thread, one answer is
accepted, and an answer that a deletion has collected is hidden or crossed it: it
was posted, or shown again by an admin, after the deletion had looked.

### ContentProofs: `DocumentPages`, `TabyinSync`

`PagesInv`: what each render has wiped and will still save, alone or overlapping,
so that a manifest, saved last, finds its pages. `SyncInv`: what a run holds of its
pages was the source's, and a full run that nothing disturbed (`y_clean`) has
already written every item of the pages it has gone through. `CleanRunMirrors`
follows for its soft deletion: it hides exactly the mirrored contents the source
no longer has. Where the source moves, pages fail or runs overlap, `y_clean` is
false and the theorem says nothing; `wall_deletes` is such a behaviour.

### Theorems without a run

`LostRacesAreProgress`, `DuplicatesCostFaults`, `SuccessIsCaptured`,
`ReceiptIffSuccess`, `MoneyLeavesOnlyApproved`, `NoHoursNoEnd`,
`SkillFollowsCertificate`, `NothingIsUnlearned`, `ThreadsAreOneLevel` and the type
invariants that the inductive invariants contain are proved and listed in no
configuration; they can be added to the configuration of their component's run.

### Only model-checked

Every invariant and every action property of the runs that hold has a theorem.
These stay with TLC, on the instances above, because liveness under fairness, and
the ENABLED inside it, are beyond the prover:

- `ReservationsSettle`, `QueueDrains`, `RevocationTakesHold`, `NoEventForgotten`,
  `OverdueTicketsAreMarked`, `DeliveriesGetResults`, `DueListingsLeave`;
- `WallCatchesUp` (once the source rests the rows catch up with it), which holds on
  the instance of `services` as `WallCatchesUpWhenSyncing` and is in no
  configuration.

The theorems are about each component's own specification. That the combined
specifications of the `MC` modules behave as one of their components is by their
construction and is not proved.

## 4. What is not modelled

- Locks and lock order: a transaction is one step, so lock waits and lock-order
  deadlocks do not appear. Where a row lock is held over several statements, they
  are one action; where the code reads without one, the read is a step of its own.
- Amounts of payments (an amount mismatch is one of the provider's answers), names,
  texts, hashes as bytes, HTTP, formats of answers and exports.
- madadkar: the status REFUNDED of a participation in `MadadkarFunding` (refunds are
  in `MadadkarFinance`), visibility, which only `MadadkarCampaignAdmin` edits, edits
  of the total amount and the sponsor; two equal answers of the gateway under way
  for one payment are one (`calls` is a set); sandbox confirmation, campaign images,
  sponsors, risk review and reconciliation, which change no row of a payment.
- Round trips of the audit log's JSON and network address columns through the
  database, which are taken for the identity. A pre-stamped audit row (restore or
  replication), which `AuditLog.save` inserts as it is; reading, exporting and the
  retention report of the log.
- authentication: device lists, the cleanup task, registration and profiles.
- lms: videos without a duration, for which `_calculate_percent` returns early (an
  `ASSUME` of `LmsLearning` rules them out); the catalog, video jobs, media access,
  reports and edits of a body.
- support desk: assignment, notes, attachments, satisfaction, the knowledge base.
- tabyin: editing and mirroring of submissions. kindness wall: offers and messages.
- r4j, public reports, activity, command center and the per-request plumbing of
  `core`: review workflows of single rows, feeds over other apps, or pure input and
  output. `PROJECT.json` gives the reason for each.

## 5. Running

    tlc -workers 2 -config MadadkarFunding.cfg MCMadadkarFunding
    tlapm MadadkarFundingProofs.tla

`PROJECT.json` names the module and configuration of each run. Each run takes less
than five minutes with two workers. The proof modules take from one minute
(`LmsProofs`, `MadadkarFinanceProofs`) to about six (`MadadkarFundingProofs`).
