# Verification of the Stargate backend

TLA+ models, TLC runs and TLAPS proofs for the Stargate payment backend: a NestJS API (`src/src`), a Rust payment
reconciler (`src/reconciler`), a PostgreSQL schema (`src/db/migrations`) and Redis. Paths below are relative to `src/`.

| module | what it is |
|---|---|
| `PaymentBooking` | abstract specification: what the reconciler promises about payments and the ledger |
| `InvoiceCreation` | abstract specification: what creating invoices promises to callers |
| `Payouts` | abstract specification: what the daily settlement promises to merchants |
| `Reconciler` | the reconciler process, step by step, with the invoice crons and the screening cache it shares with the API |
| `MCReconciler`, `MCReconcilerNow` | instances of it for TLC; the second adds an auxiliary variable for the cursor `now` |
| `Settlement`, `MCSettlement` | the daily settlement job and what its instances share |
| `Payday`, `MCPayday` | the reconciler and the settlement on one `ledger_entries`, and an instance |
| `WebhookDelivery` | webhook registration, dispatch, delivery, retry and replay |
| `MCJobs` | `Settlement` and `WebhookDelivery` in one instance for TLC |
| `Invoicing` | creating invoices, one by one and in bulk: idempotency keys, spend limits, muxed ids, the connection pool |
| `AfterSale` | refunds and disputes beside everything that moves an invoice's status, partial payments included |
| `Sessions`, `TeamMembers`, `ApiKeys` | refresh tokens; invitations, roles and suspension; API keys and address ranges |
| `WebhookSecrets` | rotation of a signing secret against deliveries under way |
| `LiveFeeds` | the payment and settlement streams (SSE) over Redis |
| `SorobanIndexer` | the Soroban event indexer |
| `Compliance`, `Schedules`, `HealthChecks`, `Listings` | the combined check, recurring schedules, health requests, paging |
| `MCApi` | the twelve modules from `Invoicing` to `Listings` in one instance for TLC |
| `ReconcilerProofs`, `InvoicingProofs`, `WebhookProofs` | theorems about `Reconciler`, `Invoicing`, `WebhookDelivery` |
| `SettlementProofs` | theorems about `Settlement`, and about `Payday` |
| `AccessProofs` | theorems about `Sessions`, `TeamMembers` and `ApiKeys` |
| `ServicesProofs` | theorems about `SorobanIndexer`, `Schedules`, `LiveFeeds`, `Compliance`, `Listings`, `WebhookSecrets`, `AfterSale` and `HealthChecks` |
| `ApiProofs` | the instance `MCApi` against its twelve components |
| `SumLemmas` | what the sum of a finite set is, for the proofs about limits |

## 1. Inventory

The API and the reconciler share nothing but PostgreSQL and Redis. The API has several crons that run **in every API
process** and do not wait for their previous tick.

| component | state | operations | what must hold | status |
|---|---|---|---|---|
| reconciler (`reconciler/src/{main,stream,processor,matcher,compliance}.rs`) | `reconciler_state.cursor`, `payment_events`, `ledger_entries`, `webhook_deliveries`, the locals of a batch | boot, connect, read a batch, ten steps per payment, retry, exit | every accepted payment is recorded once, credited to the right invoice once, and no restart skips one | modelled: `Reconciler` |
| invoices (`src/invoices`) | `invoices`, sequences, muxed bases, spend sums, `refunds`, the pool's connections | create, bulk, cancel, expire, auto-cancel, partial payment, refund, list | one invoice per key and per muxed id; limits, bulks and refunds hold under concurrency; a closed invoice stays closed | mostly: `Invoicing`, `AfterSale`, `Reconciler`, `Listings` |
| settlement (`src/settlement`) | `settlements`, `ledger_entries.settlement_id`, `merchants.settlement_scheduled_at` | daily job, announcement, SSE stream | each entry is paid exactly once | modelled: `Settlement`, `LiveFeeds` |
| webhooks (`src/webhooks`) | `webhooks`, `webhook_deliveries`, secrets | register, deactivate, rotate, verify, dispatch, deliver, retry, replay | at-least-once, decided in the end, no duplicates without a reason, signatures that verify | modelled except reads: `WebhookDelivery`, `WebhookSecrets` |
| compliance (`src/compliance`, `compliance.rs`) | Redis verdict cache, velocity sets | screen, velocity check | both processes use one verdict; the distinct amounts let through in an hour stay within the limit | modelled: `Reconciler`, `Compliance` |
| idempotency (`src/idempotency`) | `idempotency_keys` | check, save | one creation per key | modelled: `Invoicing`, `AfterSale` |
| payment stream (`src/payments`, `src/redis`) | channel reference counts, the subscriber connection | subscribe, message, unsubscribe | a status change reaches every open stream | modelled: `LiveFeeds` |
| Soroban indexer (`reconciler/src/soroban_indexer.rs`) | ledger to ask from, `soroban_contract_events` | ask, store, advance | no event passed over | modelled: `SorobanIndexer` |
| auth (`src/auth`) | refresh tokens in Redis, the browser's cookie | register, login, refresh, logout | a logout ends the session whose token it carries | modelled: `Sessions` |
| team members (`src/team-members`) | `team_members`, access tokens | invite, accept, login, role, suspend, remove | a suspension stands | modelled: `TeamMembers` |
| API keys (`src/api-keys`) | `api_keys` | create, revoke, decide on a request | the address list means what CIDR means | modelled: `ApiKeys` |
| disputes (`src/disputes`) | `disputes` | open, patch | one open dispute per paid invoice | modelled: `AfterSale` |
| schedules (`src/schedules`) | `recurring_schedules` | create, update, remove | the date follows the interval | modelled: `Schedules` |
| health (`src/health`) | none | three kinds of request | every request is answered | modelled: `HealthChecks` |
| audit logs, payment-link analytics (`src/audit-logs`, `src/payment-links`) | rows appended | append, list | paging passes no row over | paging modelled: `Listings` |
| merchants (`src/merchants`) | profile, deferred settlement date, spend limits | update | | what others read: `Settlement`, `Invoicing` |
| fx, notifications, treasury, balance, pre-launch audit, GraphQL gateway, Soroban event listing, metrics, logger, status server, estimates, plan, rate limiter, admin, dev, KMS signer, configuration, filters | rows written by one statement, or none | read, compute, pass on | nothing that several steps or actors could break; fx is floating-point arithmetic | not modelled |

Interactions that the models compose: the reconciler writes `ledger_entries`, which the settlement job sums and marks;
the reconciler, the invoice crons and the API insert `webhook_deliveries`, which the delivery worker posts; the
reconciler matches `invoices` that the API cancels and expires, and that refunds and disputes are about; both screen
addresses through one Redis cache; the reconciler publishes what the payment stream hears; bulk creation and every
other query share one connection pool. Each interaction is an action of the other side inside the component's module
(`Credit` in `Settlement`, which `Payday` makes the reconciler's own `CommitCredit`; `Cancel`, `ExpireInvoices`, `AutoCancelUnpaid`, `ApiLookup` in `Reconciler`; `Emit` in
`WebhookDelivery`; `MarkPaid`, `EndSale` in `AfterSale`; `CommitPaid`, `Publish`, `PublisherDies` in `LiveFeeds`).

What is hard here: read-then-write over several awaits without a lock; crons of several processes; two writes that
should be one transaction; retries that replay; UPDATEs by id alone with values read long before; commands to Redis
that nobody awaits; a pool that requests hold while they wait for it. `PROJECT.json` lists every such place with its
line, and the property that watches it.

## 2. The reconciler

**State.** `horizon` is the history of payments Horizon lists (external, append-only); a paging token is a position in
it. `cursor`, `event`, `ledger`, `deliveries`, `status` are the tables; `published` the Redis messages; `cache` and
`lookups` the screening cache and the API's screenings under way. Each instance has `pc`, `boot` (the cursor read at
boot, which `run_with_backoff` clones into each attempt), `next` and `last` (the lines of the response body), `verdict`
and `matched`.

**Actions.** One action per await with the synchronous code up to the next: `Boot`, `Connect`, `ReadBody`, `NextLine`,
`CheckEvent` (`SELECT 1 FROM payment_events`), `ScreenCached`, `ScreenFresh`, `Match`, `InsertPaymentEvent` (fails on
the unique token), `CommitCredit` (the transaction), `Publish`, `SaveCursor`, `EndOfBody`, `MalformedLine`, `Retry`. `Fail`
is an error or a crash at any of them. The transaction is one action: it reads nothing, and its UPDATE of the invoice is the
only statement that depends on what others do.

`Work(r)` is every step of an instance but `CommitCredit(r)`, and `BookingSide` every step of the module but that one:
`Payday` puts the settlement's view of the credit beside it.

**Abstraction.** `PaymentBooking` has two actions: judge a payment (once) and credit a judged payment (neither the
payment nor the invoice twice). `Reconciler!BookSpec` is that specification with `booked <- event, credited <- ledger`.

**Properties.** `BookSpec`, and with it `LedgerOncePerInvoice`; `LedgerBacked` (a credit has its own payment, found for
that invoice by decoded id or memo, with its currency and amount), `BooksAgree` (status, ledger, deliveries and
announcements), `CursorSafe`, `CursorNeverRegresses`,
`OrphansAreFaults` (a payment loses its credit only to a failure, one each), `OutcomeIsFinal`, `EventuallyRecorded`,
`RecordedIsCredited`. Two questions are kept apart from these, since the code answers them otherwise than the documents:
whether a credit reaches the invoice the payer paid to (`CreditsAddressee`), and whether a payment under review is held
(`OnlyClearIsCredited`). `OrphansAreFaults` and `RecordedIsCredited` speak of payments of cleared payers only, so that
neither demands the credit of one under review. `EventuallyRecorded` lets off what comes behind a record that does not
parse, which is in fact never recorded (section 9).

## 3. Settlement

**State.** `entry` (ledger entries with their settlement), `settlement`, `deferred`, `announced`, and per cron its step `job`,
`due` (the rows of the SUM query, kept as the set of entries summed), `current`, `toAnnounce`. **Actions.**
`SumUnsettled`, `CheckPending` (the transaction's first query, which opens it or skips the merchant), `CommitSettlement` (its
writes and the COMMIT), `ReadPending`, `Announce`, `JobFails` (ROLLBACK, and the error ends the whole run), and beside them
`Credit` (the reconciler), `Defer` (the merchant) and `Payout`. Payout is external: nothing in the repository
moves a settlement out of `pending`, although migration 006 has the statuses, so it may happen and need not. A merchant
whose settlement stays pending is settled no more; `EventuallySettled` therefore promises a settlement *or one that
waits*, over failed runs and whatever became of earlier settlements.

Under READ COMMITTED the second of two jobs waits for the row locks of the first and then finds the entries marked;
so check and writes are two actions and the writes one.

**Abstraction.** `Payouts` has three actions: a merchant earns an entry, is paid out a set of its entries, and a payout
moves on. The guard of `PayOut` is the promise: entries of that merchant that no payout has had, together not below the
minimum, and no other payout of the merchant waiting. `PayoutSpec` is that specification with `payouts <- settlement`
and `earned` the entries without their mark; marking, announcing, deferring and failing are stutters. What a settlement was summed
from is kept in `summed`, so that the sum cannot be made good afterwards.

**Properties.** `PayoutSpec` (and with it `OnePendingPerMerchant`), `PaidIsMarked` (what is paid for is marked as paid),
`EventuallySettled`.

**With the reconciler.** `Payday` is both modules at once. `ledger_entries` has two views: what `CommitCredit` inserts
(`ledger`: the event and the invoice) and what the settlement reads and marks (`entry`: the merchant, the net and the
settlement). `CreditInvoice` is the reconciler's transaction and adds a row to both; every other step belongs to one
side and leaves the other's variables alone. `OneTable` says that the views agree. `InvoicesPaidOutOnce` is the
system's promise to a merchant from end to end: a payout is the net of invoices of its own, each of them recorded as
paid, and no invoice is in two payouts or twice in one. Neither component can state it: it needs the reconciler's
credit-once, the settlement's pay-once and the table between them. `Credit` is bounded by
`MaxEntries`, and so is `CreditInvoice`; in the instance no more payments are made than that allows.

## 4. Webhook delivery

**State.** `hook`, `delivery` (rows: status, attempts, and `waiting` for a `next_retry_at` in the future),
`dispatching` (the rows of the loop of `dispatchEvent`), and per run `pc`, `batch` (the ids selected with the attempts
read then), `answer`. `posts`, `accepted`, `lost` and `resets` are history, for the properties only; `posts` stops counting at
`MaxAttempts`. A *run* is one call of `deliverPending`; runs overlap in one process as well as between processes.

**Actions.** `Create`, `Deactivate`, `Emit` (one INSERT ... SELECT), `DispatchRead`, `DispatchInsert`, `DispatchFails`,
`RetryDead`, `Replay`, `Select`, `Post` (accepted, refused, failed into the catch, or accepted
with the answer late or lost, which ends in the catch too), `Record`, `RecordFails` (the UPDATE after the
answer fails, before or after it took effect), `RecordCaught`, `Fail`, `BackoffEnds`.

**Properties.** `NotDeadEarly`, `DeliveredWasAccepted`, `DuplicatesExplained`, `FinalUntilReset`, `EventuallyDecided`.
The first two are proved for any number of runs, `DuplicatesExplained` and `FinalUntilReset` for runs that do not
overlap. An acceptance that goes unheard is the commonest cause of a duplicate: the worker aborts after 5 s
(`webhook-delivery.worker.ts:77`) whether or not the endpoint has taken the body, and posts again. `DuplicatesExplained`
counts it (`lost`) beside replays and failed UPDATEs and says that there is no other cause.

## 5. The API's components

Each module has one action per await (or per group of queries whose answers nothing else changes), an action for the
failure of a call, and the actions of whoever runs beside it.

| module | state, in the code's terms | actions | property |
|---|---|---|---|
| `Invoicing` | `rows`, `base`, `seq`, `limit`, the saved answers `idem`, `conns` free in the pool, per request where it is and what it has read; `held` is a bulk's open transaction | `Arrive`, `FindExisting`, `LoadMerchant`, `CheckLimit` per period, `EnsureMuxedBase`, `SetMuxedBase`, `NextInvoiceSequence`, `Insert`, `Save`; `BulkBegin`, `BulkInsert`, `BulkCommit`; `Abort`, `SetLimit`, `Cancel`, `NextDay` | `MuxedIdsDistinct`, `BulkEndsClean`, `SpendBounded`, `CreationSpec` |
| `AfterSale` | status of each invoice, rows of `refunds` and `disputes`, what was submitted | `Begin`, `Look`, `Submit`, `InsertRefund`, `InsertDispute`, `SaveDispute`, `CallFails`, `PatchDispute`, `RefundEnds`, and the four ways a status moves | `PaidForGood`, `OneLiveUnlessRaced` |
| `Sessions` | `alive` (keys in Redis), the `session` of each token, each browser's `cookie`, requests | `LogIn`, `StartRefresh`, `StartLogout`, `GetToken`, `DelToken`, `IssueTokens`, `Reply`, `PostFails`, `Lapse` | `LogoutEndsSession` |
| `TeamMembers` | `member`, calls with the row they read, `badges` (access tokens) | a check and a write for each of invite, accept, login and role; `Suspend`, `Remove`, `BadgeExpires`, `TeamFails` | `SuspensionStands` |
| `SorobanIndexer` | `chain`, `stored`, `start` and the answer of each indexer | `CloseLedger`, `Emit`, `Ask`, `Store`, `Advance`, `RoundFails`, `Restart` | `IndexedBelowCursor` |
| `WebhookSecrets` | the three secret columns, hours, what each delivery read and signed | `RotateCheck`, `Rotate`, `SelectSecrets`, `Sign`, `TurnOff`, `Hour` | `InFlightVerifies` |
| `LiveFeeds` | streams, the count per channel, `wire` (commands sent to Redis and not taken), `inbox`, watchers of a settlement | `OpenStream`, `CloseStream`, `RedisTakes`, `CommitPaid`, `Publish`, `PublisherDies`, `Receive`; `OpenWatch`, `Query`, `Subscribed`, `CloseWatch`, `Settle`, `PublishStatusChange` | `SubscriptionMatchesStreams`, `EventuallyTold` |
| `Compliance` | the sorted set of an hour, the cached verdict, checks | `BeginCheck`, `AddVolume` and `ReadVolume` beside `GetVerdict` and `AskProvider`; `NextHour`, `VerdictExpires` | `VelocityHolds` |
| `Schedules` | the row, and updates with what they read | `ReadSchedule`, `WriteSchedule`, `UpdateFails`, `RemoveSchedule` | `DateFollowsInterval` |
| `HealthChecks` | what each dependency does with a call, how far each row of checks has come | `Change`, `Ping`, `ServiceAnswers` or `TimerWins` per check, `AnswerPing` | `HealthAnswers` |
| `ApiKeys` | `apiKey`, decisions | `CreateKey`, `EndKey`, `Decide` | `AddressesAsListed` (mask arithmetic on words, which are functions of `W` bits, against a reference on prefixes) |
| `Listings` | rows with the time of their transaction, readers | `Write` (at or behind the front), `Tick`, `StartPaging`, `AuditPage`, `LinksPage`, `InvoicesPage` | `NothingMissed` |

Some of these properties exempt a situation that the code does not exclude: two calls that look before either inserts
(`OneLiveUnlessRaced`, `met`), a session with two requests under way or a refreshed token that was lost
(`LogoutEndsSession`, `mixed`), an acceptance that had passed its check before the suspension (`SuspensionStands`,
`crossed`), two updates that overlap (`DateFollowsInterval`, `overlapped`), requests of one merchant that overlap or a
limit changed beneath one (`SpendBounded`, `raced`), events a full page left out (`IndexedBelowCursor`, `cut`). The
exemptions are history variables set exactly there. The code lets these races through, so a property says of them
nothing; what it says is that nothing *else* does harm.

*Lost replies.* `Insert`, `Save` and `BulkCommit` may take effect and yet not be answered (`Answer`, stage `unheard`):
the reply of the INSERT or the COMMIT is lost, or the process dies after it. `Abort` may come before any query, also
between the INSERT of an invoice and the saving of its key. Whoever retries with the key then finds the row.

*A bulk and the limits.* `enforceSpendLimits` sums on the pool (`invoices.service.ts:381-396`), which does not see the
rows of the bulk's own open transaction: each of its invoices fits under the limit beside what is stored, all of them
together may pass it, with no other request open. `SpendBounded` says the first, for bulks too, and `CHANGELOG.md:41`
claims no more than that there are limits. Limits may be set and changed at any time, lowered included. The day of a
bulk's rows is that of its BEGIN (`NOW()` is the transaction's time).

*Second login.* A browser may log in again while it has a cookie. The new token overwrites the cookie and the old one is
not deleted (`auth.service.ts:44-55`): it stays valid until it lapses, where no logout reaches it. A *session* in
`Sessions` is one login and the tokens refreshed from it, and `LogoutEndsSession` is per session.

**Abstraction.** `InvoiceCreation` knows only the invoices there are (`made`) and the answers given (`answered`): a
request makes its invoices in one step or none, an Idempotency-Key of a merchant has one invoice, and a request is
answered once or not at all, with what it made or with the invoice of its key. `Invoicing` implements it (`CreationSpec`): `made` is
the id, merchant, key and amount of each committed row, `answered` the answer of each request that is done; the reads,
the open transaction of a bulk, the saved answers and every failure are stutters. That all answers for one key name one
invoice (`OneInvoicePerKey`) follows from it; no run checks that on its own, a theorem of its own states it.

`MCApi` puts the twelve modules into one run. They share no state, so a behaviour is one component's, chosen by the
variable `world` in the initial state; the others stay as they begin. That each such behaviour is one of every component
is a theorem (`RunsEachComponent`).

## 6. The runs

| run | instance | shows |
|---|---|---|
| `reconciler` | 1 process, 2 invoices (USDC by id, EURC by id or memo) whose ids are each other's mirror, 2 payments of 6 kinds, 1 fault, fairness; 522 thousand states | all properties of the reconciler, and that it implements `PaymentBooking` |
| `reconciler_two_instances` | 2 processes, no fault | finding: an invoice credited twice |
| `reconciler_crash` | 1 process, 1 fault | finding: a credit lost for ever |
| `reconciler_muxed_id` | 1 process, 2 invoices of one amount with ids 12 and 21, payments to 12 | finding: the wrong invoice is credited |
| `reconciler_review` | 1 process, 1 invoice, `review` as the verdict | finding: a payment under review is credited |
| `reconciler_now` | cursor `now`, 1 fault | finding: payments skipped by a retry |
| `jobs` | the settlement (1 job, 2 merchants, 3 entries of 1 or 2 against a minimum of 2, 1 failure) or the delivery (runs that do not overlap, 2 hooks, 2 rows, 2 attempts, batches of 1, 1 reset, 1 unheard acceptance per row, 1 fault), fairness; 625 thousand states | the properties of both, and that `Settlement` implements `Payouts` |
| `settlement_late_credit` | 1 job, 1 merchant | finding: an entry marked but not paid |
| `settlement_two_crons` | 2 jobs, 1 merchant | finding: two pending settlements |
| `payday` | 1 reconciler and 1 job, 3 invoices of 2 merchants, 2 payments, 1 fault on one side and 1 failure on the other; 1.7 million states | `InvoicesPaidOutOnce` |
| `webhooks_two_runs` | 2 runs, 1 hook, no fault, no reset, no unheard acceptance | finding: one row posted and accepted twice |
| `api` | the twelve components of section 5, one to a behaviour; 422 thousand states | their properties, and that `Invoicing` implements `InvoiceCreation` |

What still holds with two reconcilers (`LedgerBacked`, `BooksAgree`, `CursorSafe`, `OrphansAreFaults`) needs no run: it
is proved for any number of them (section 8).

**Bounds.** `MaxPayments`, `MaxEntries`, `MaxDeliveries` bound what the environment supplies; `MaxFaults` the failed
calls; `MaxResets` the retries and replays per row;
`MaxLost` the acceptances of a row that go unheard. Two payments are the smallest number at which one invoice can be
paid twice, a replay can pass a recorded payment before an unrecorded one, and one payment can starve another; three
entries allow one that is summed, one that arrives late, and one for the other merchant. The limit of 5 attempts is 2
and the batch of 50 is 1 in `jobs`, so that both limits are reached with two rows; `webhooks_two_runs` keeps 5.
`MirroredIds` are 12 and 21, each the other read backwards, so
that the id a payment is sent to and the id it is credited to differ (section 9); payments that the model finds for an
invoice are sent to the mirror of its id. `FreshVerdict` is what the reconciler's own
`screen_address` caches when Redis has nothing (`clear`); the API may cache any verdict at any time.

`MCBound` keeps two things of the `reconciler` run to behaviours with one payment: the API's screenings under way and
cached verdicts other than `clear`; and one cancelled invoice at a time waits to be announced. `DeliveryBound` registers the
second webhook after the first and keeps it active, and allows one reset, and two among faults and unheard acceptances, in
all.

In `payday`, ids are 12, 21 and 33; two payments reach three invoices: two of one merchant, so that a payout can have two, and one of another.
`MinSettlement` is one net, so a payout may follow each credit. `PaydayBound` leaves out what other runs have: the
API's screenings, the announcements, deferral, and more than one invoice that is cancelled or expires.

In `api`:

| component | constants | why enough |
|---|---|---|
| `Invoicing` | 3 requests of 2 merchants, amounts 4 and 8 against limits of 10 and 6, one key, a pool of 2, a span of 2 muxed ids, 2 days | two requests overlap while the third has committed; two bulks exhaust the pool; the third invoice of a merchant leaves its span; a limit that is lowered or raised |
| `AfterSale` | 1 invoice, 3 calls | a refund beside a dispute, two refunds that race and one that follows |
| `Sessions` | 1 browser, 4 requests, 3 tokens | login, two refreshes and a logout in any overlap, and a second login |
| `TeamMembers` | 1 address, 4 calls, 2 invitations | an acceptance, a login and a role change around a suspension, and a second invitation after a removal |
| `SorobanIndexer` | 2 indexers, pages of 2, 3 ledgers, 3 events | one full page and one late event |
| `WebhookSecrets` | 2 deliveries, 2 rotations, a window of 2 of 3 hours | a rotation on either side of a read, and two within a window |
| `LiveFeeds` | 3 streams, 1 watcher | a stream that opens while the last one closes and another follows |
| `Compliance` | 3 checks of 2 amounts, limit 4 | two that fit alone and not together, and a third |
| `Schedules`, `HealthChecks`, `ApiKeys`, `Listings` | 2 updates; 1 request; words of 3 bits, 1 decision; 4 rows over 3 times, pages of 1 and 2 | overlapping updates; every combination of hanging dependencies; every mask, address and range of the width; a page that grows at its front and behind it |

`MCApi` cuts symmetric behaviours by conjuncts named `InvoicingBound`, `AfterSaleBound`, `SessionsBound`, `TeamBound`,
`SecretsBound`, `ComplianceBound`, `ListingsBound` and `HealthBound`, each commented. `InTurn` makes like calls begin
in the order of their numbers, which renames nothing but the calls. `InvoicingBound` also keeps keys, bulks, failures
and the second day to behaviours of their own; combinations of three of them are not explored.

**Deadlock** is checked in every run but `api`, where calls are finite in number and all done is a proper end.

**Fairness.** `WF(Process(r))`: the process is scheduled, Horizon answers, and the supervisor restarts it when it exits
(RECONCILER.md runs it as a container that is restarted). `WF(Cron(w))` and `WF(Run(r))`: the scheduler fires the crons
in an API process that is kept running. The names are `ProcessFairness`, `SettlementFairness` and `DeliveryFairness`. Of `Payout` nothing is assumed, since no code
here takes up what is pending (`MERCHANT_QUICKSTART.md:80` promises merchants a `settlement.completed`, which nothing
sends). `WF(BackoffEnds(d))`: time
passes. `FeedsFairness`: Redis takes and delivers what it is sent, a publisher that does not die goes on, the database
answers a watcher. `HealthFairness`: the timers of `timed` fire and Node runs their callbacks; no dependency has to
answer. No fairness is assumed of users, payers, viewers, faults or their absence.

## 7. Findings

Eight runs end in a violation, each of something a document or a comment of the repository says; `PROJECT.json` quotes
the line. In short:

1. *Two reconcilers credit an invoice twice* (`docs/RECONCILER.md:163` calls the duplicates mitigated). The unique
   constraint is per payment; the invoice's UPDATE affects no row the second time and nobody looks.
2. *A failure after the payment event loses the credit* (`docs/INVOICE_PAYMENT_FLOW.md:83-88` draws one transaction).
3. *While the cursor is `now`, a retry skips payments* (`docs/RECONCILER_INTEGRATION.md:257`).
4. *An entry credited between SUM and UPDATE is marked settled but not paid* (`CHANGELOG.md:56`).
5. *Two API processes make two pending settlements* (`settlement.service.ts:24`).
6. *Overlapping delivery runs post a row twice* (`docs/adr/ADR-001-webhook-delivery.md:15`).
7. *A payment is credited to an invoice it was not sent to* (`matcher.rs:24`, `processor_tests.rs:130-154`): the muxed id is
   read backwards.
8. *A payment under review is credited like a clear one* (`docs/COMPLIANCE_INTEGRATION.md:36`, `:103-104`).

## 8. Proofs

All eight proof modules are checked from nothing by TLAPS. The constants are arbitrary under the assumptions named in
each module (`ConstantsAssumption`, `SettlementAssumption`, ...), which say that bounds are naturals and that sets a
default is chosen from are not empty.

| theorem | assumes | argument |
|---|---|---|
| `TypeCorrect` | | `TypeOK` is not inductive alone: `LocalsOK` ties `next`, `verdict` and `matched` to `pc` |
| `CursorIsSafe` | `StartCursor = 0` | `ProgressOK`: all that a process has behind it (its boot cursor, the lines passed) is settled, and the cursor is only ever saved from there; any number of instances |
| `CursorAdvances` | + one instance | `OrderOK`: the payment being handled was not settled, so it lies beyond the cursor |
| `CreditsHavePayments` | | `LedgerOK`: the unique token lets only one process through `InsertPaymentEvent`, and it alone holds that payment until it credits it |
| `CreditedOnce` | one instance | `OnceOK`: a credited invoice is not pending, nothing makes it pending again, so it is not matched again |
| `CreditsAreBacked` | | `MatchOK`: what a process has matched fits its payment in decoded id or memo, currency and, unless the verdict says otherwise, amount; `RowsFit`: so does every row and every entry written from it |
| `BooksAlwaysAgree` | | `BooksInv`: no invoice is `partial`, and what a process is about to publish is in the ledger; nothing undoes a credit's rows |
| `LossesAreFaults` | | a recorded payment of a cleared payer without credit is held by a process at `credit` or was dropped there by a failure; the failures are counted one to one |
| `ImplementsBooking` | one instance | each action maps to `Book`, `Credit` or a stutter, from the invariants above |
| `SettlementTypeCorrect` | | the update only touches unmarked entries; any number of jobs |
| `PaidOnce` | one job | `DueUnsettled`: what a job has summed and not yet handled is still unmarked |
| `OneWaits` | one job | `NoneMeanwhile`: between its check and its insert nobody else creates a settlement |
| `ImplementsPayouts` | one job | `CommitSettlement` maps to `PayOut`, `Credit` to `Earn`, `Payout` to `MoveOn`, every other step to a stutter; `DueWorth`: what a job holds still adds up to the minimum although it was summed before the transaction, since the nets of entries never change |
| `PaydayReconciles`, `PaydaySettles` | | a step of the composition is one of each component or leaves it alone; for the settlement this needs that `matched` is an invoice when a credit commits, so that its owner is a merchant |
| `PaydayImplements` | one instance, one job | from the two above, `ImplementsBooking` and `ImplementsPayouts`: both abstract specifications hold of the composition |
| `PaidOutOnce` | one instance, one job | `OneTable`, with the invariants of both sides: an entry in two payouts would have two marks, and an invoice in two entries two credits |
| `DeliveryTypeCorrect` | | rows are never removed, and pending rows have attempts left; any number of runs |
| `DeadIsExhausted`, `DeliveredIsAccepted` | | `HistoryOK`: each number of attempts a run holds, and each row, is at most the number of posts so far; an answer `ok` in hand was accepted; any number of overlapping runs |
| `RepetitionsAreExplained` | `SingleRun` | `DuplicatesInv`: acceptances are within 1 plus the resets, the faults and the unheard ones, and one below that wherever the row may be posted again |
| `FinalStays` | `SingleRun` | `BatchPending`: what a run still has to handle is pending, but for the row whose own UPDATE took effect and was reported as failed |
| `OutcomeStays` | | from `TypeOK`: each UPDATE of a status asks for the status it leaves; any number of reconcilers and crons |
| `OneAnswerPerKey` | | `KeysAgree`: a key names one stored invoice, and every saved answer, every answer given and every request about to save one names it. Who is about to insert knows nothing of the others: the unique index decides |
| `MuxedIdNamesOne` | | `IdsSpread`: all ids stored, held or just given lie between a merchant's base and base + sequence, no two of a merchant are equal, and bases are distinct multiples of `Span` |
| `BulkLeavesAllOrNothing` | | `BulksClean`: an open bulk holds rows for exactly the items it has passed, nothing of it is stored, one that has ended has stored all or nothing, answered or not, and the connections add up |
| `LimitsHoldAlone` | | `LimitsKept`: unless the merchant is `raced`, the amount of a request past its check still fits under the limit, as does each row a bulk holds, and no two open requests of the merchant are past their checks |
| `ImplementsCreation` | | `OwnStored` beside the above: an open request has stored nothing but the invoice it is about to save the answer of. `Insert` maps to `CreateOne` or `CreateUnderKey`, `BulkCommit` to `CreateBulk`, an answer for a key to `AnswerForKey`, every other step to a stutter |
| `InvoicingTypeCorrect` | | `InvoicingShape`: what the stage of a request says of its other fields; the connections add up, and one is taken only when one is free |
| `VolumeStaysWithin` | | `CountedFirst`: a check adds its amount before it reads the set, so the set that the last one found clear has read contains the amounts of all |
| `ChannelFollowsStreams` | | `FeedsInv`: the reference count is the number of open streams, and the last command on the wire is the one that fits it |
| `NoRowPassedOver` | | `ReaderKnows`: a row not yet read has at least as many newer ones as the pages so far have passed over |
| `DateFollows` | | `UpdateKnows`: an update about to write has read the interval the row still has, unless two overlapped |
| `NothingBelowTheCursor` | | `IndexerInv`: what an answer covers is stored, in its page or cut by it, and no cursor is past the latest ledger of an answer; any number of indexers |
| `InFlightStaysValid` | | `SecretsInv`: the row holds the last two secrets drawn, and a delivery knows which of them it read |
| `LogoutIsFinal` | | `SessionsInv`: at each step of a session's one request at most one token of it is alive, and it is known which; no request makes a token for a session that is not its own |
| `SuspensionIsFinal` | | `TeamInv`: invitations have numbers of their own, and an acceptance or a login in flight has a row that was not blocked when it was read, or crossed the suspension |
| `AllowedIsListed` | | `Decided`: each decision is that of the prefix reference. `MaskIsPrefix`: the mask of `n` bits is ones up to `n` and zeros after it, for every width, with the shift count taken modulo the width; so two masked words agree just when their first `n` bits do |
| `RunsEachComponent` | | a step of `MCNext` is a step of one component and leaves the variables of the others as they are |
| `ApiTypeCorrect` | | the type invariants of the twelve components, each from its own invariant: `GotTypes` (a page that ends before the rows do is no later than the rows are many), `TeamTypeStep` (calls hold rows of invitations that were made), `HealthInv` (a row has two checks, one after the other) |
| `StaysPaid`, `OneLives` | | `SaleInv`: a call past its look, and every row and submission, is about a paid invoice; calls past the look and live rows exclude each other |

The hypotheses "one instance", "one job" and "one run" are necessary: runs `reconciler_two_instances`,
`settlement_two_crons` and `webhooks_two_runs` refute the same or a stronger property without them. Nothing is assumed
of the muxed ids.

The sums of `SpendBounded` and `VelocityHolds` are folds over sets, which the community modules define by a function
that is recursive over subsets with a CHOOSE in each step. `SumLemmas` proves what the proofs need of such a function:
the sum is that of any one element plus the rest (whichever CHOOSE takes), and that of a part is at most the whole.
Its induction over finite sets is by a least counterexample, since no theorem with an operator for parameter can be used.
`Payers # {}`, `Merchants # {}` and `IsFiniteSet(Merchants)` are assumed where a default is chosen or merchants are
counted; requests, keys, bulks, streams, checks, clients and updates may be infinitely many.

Every safety property of a passing run, invariants and action properties and the three refinements, is stated by a
theorem. Only model-checked: liveness (`EventuallyRecorded`, `RecordedIsCredited`, `EventuallySettled`,
`EventuallyDecided`, `EventuallyTold`, `HealthAnswers`), which is outside the prover's reach, as is ENABLED; and the
violations of section 7, which are counterexamples. `ApiKeys` builds its words from functions rather than from
`Bitwise`, whose operators are recursive and cannot be reasoned about here.

## 9. What the models take from the code that a reader might not expect

- `decode_muxed_id` (`matcher.rs:71`) reads the last ten characters of the address backwards as a decimal number. An
  id decodes to itself only if it reads the same backwards, and the base-32 addresses the API builds do not decode at
  all. `ReversedDigits` models this. In the instances the payments meant to be found for an invoice are sent to the
  mirror of its id, so that the rest of the code is reached; `CreditsAddressee` is about where they were sent.
- The API never sets `invoices.memo`; only the seed script does. One invoice of the main instance has a memo.
- A record of Horizon's `/payments` without `from`, `to` or `amount` (an account creation or merge) does not parse, and
  every error leaves `run_stream` (`stream.rs:52-53`): each retry asks again from the boot cursor and meets the same
  record, so payments behind it are never recorded. `MalformedLine` is this step, and the
  run `reconciler` has such records. `EventuallyRecorded` excuses what is behind one (`BehindUnparsed`) and nothing else.
- `CommitCredit` queues `invoice.paid` and writes the ledger entry even if the invoice was cancelled or expired after
  the match: `BooksAgree` therefore lets a credited invoice be `cancelled` or `expired`.
- The comment at `settlement.service.ts:11` and `CHANGELOG.md:43` say deferred merchants are left out; the query does
  not look at the schedule. `deferred` changes and influences nothing, as in the code.
- The settlement job announces what was created in the last minute; `ReadPending` may therefore announce any
  subset of what is pending.
- Entries of a settlement that fails are never settled again: no code unmarks them.
- The end-to-end test of the back-off (`webhook-retry-backoff.e2e-spec.ts:30`) expects the first retry at once; the
  code waits a minute. Delays are abstracted to "in the future", so nothing here depends on it.
- ADR-001 describes a Redis Streams consumer group; the code polls a table. The model is of the code.
- Some source files carry residue of merges and do not compile as they are (a second `const result` in
  `expireInvoices`; interleaved variants in `webhooks.service.ts` and `webhook-delivery.worker.ts`). Modelled are: the
  expiry of `pending` and `partial` invoices, the retry with the status filter (`webhooks.service.ts:148`), and a catch
  that counts the attempt; both variants of it write the same row.
- The duplicate check of the reconciler decodes `SELECT 1` as a 64-bit integer; whether the driver accepts this is a
  question of its version, and the model follows the source and its tests.
- A merchant with a spend limit and no invoice in the period is refused every invoice: the sum is zero, and `toUnits`
  (`invoices.service.ts:37-42`), through which it goes at line 386, throws on zero (`CHANGELOG.md:41` announces the
  limits; the tests mock sums above zero). `LimitAllows` therefore wants a total above zero, and `InvoicingBound` sets
  limits when there are invoices.
- The cursor of the invoice list is split at every `:` of its own timestamp (`invoices.service.ts:190`), so the second
  page is always refused; `test/e2e/invoice-pagination-cursor.e2e-spec.ts` expects it. `Listings` refuses it too.
- The limit is compared with the amount and the sum is made of gross amounts, so one invoice may exceed it by its fee, and the
  invoices of a bulk, which do not see each other, by more.
- A bulk request holds a connection of the pool while its other queries wait for one: as many bulks as connections
  block each other for ever. `BulkEndsClean` states exactly what is left: the connections add up.
- Equal amounts of one hour are one member of the velocity set (`compliance.service.ts:51`): `VelocityHolds` bounds the
  distinct amounts. Nothing in the repository calls `combinedCheck`.
- `partial` does not pass the CHECK of migration 002, which the second constraint of `010_partial_payments.sql` does
  not replace: a partial payment is rolled back unless it pays the rest.
- Nothing calls `publishStatusChange`, and the expiry of an invoice is not published: a settlement's stream tells the
  status it opens with, and an invoice's stream hears of payments only.
- `AuditService.log` inserts `actor_ip` and `actor_email`, which the `audit_logs` of `009_features` lacks (the CREATE
  TABLE IF NOT EXISTS of 011 does nothing after it): creating, deactivating, retrying and replaying webhooks report an
  error after their own statement has committed. The models follow the statements.
- `010_hash_webhook_secrets.sql` drops a column that `create` still inserts; no migration creates `disputes`.
- A prefix longer than 32 in `allowed_ips` shifts modulo 32 and matches like a short one; malformed entries are left
  out of `ApiKeys`.
- A page beyond the end of an audit list reports a total of 0, since the count comes with the rows.
- Access tokens outlive suspension and removal until they expire: the guards read the role in the token.

## 10. Not modelled

Creation in currencies other than USDC (floating-point rates), the public view of an invoice and its PDF; the read-only
endpoints; HTTP validation and rendering; the migrator; everything marked "not modelled" in section 1 (the reason per
component is in `PROJECT.json`). Amounts are small integers: the reconciler compares numbers parsed from decimal
strings and the models only ask whether they are equal; the API's sums are of integer units. Cryptography (password
hashes, HMACs, random tokens) is identity: a signature is the secret it was made with. A Redis connection that is lost,
and an eviction other than the expiry of a key, are not modelled. Horizon lists no failed transactions by default, so
none is modelled.

Three hazards of `PROJECT.json` have no property, each with its note: the age of a cached verdict (nothing says how old
it may be), the refusal on a zero sum and the second page of the invoice list (a property would only restate that
they are refused).

## 11. What could follow

An abstract specification of `WebhookDelivery` (each row is accepted, or given up after its attempts) that runs which do
not overlap implement; `LiveFeeds` composed with the reconciler's own `Publish`.
