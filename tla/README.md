# Verification of ti-relay-trader

TLA+ models of the relay between trading clients, Redis streams, a broker
gateway ("OC") and the PostgreSQL ledger, with the TLC runs that check them on
small instances and the TLAPS proofs that establish the central results for
every instance.  Source paths are relative to the repository (`internal/...`).

## 1. The system

A client calls the HTTP API.  The API reserves an order in the ledger, writes a
command to a Redis stream and archives it.  The gateway consumes commands and
writes replies, events and heartbeats to other streams.  A worker reads those
streams into the ledger, asks for refreshes, and notifies the API through
PostgreSQL; the API pushes the notifications to clients as server-sent events,
and the Python SDK consumes them.

| Component | State it keeps | Operations | Hard parts | Correct when |
|---|---|---|---|---|
| order write path (`orderflow/service.go`) | rows of `orders`, archived commands, `cancelMu` | SubmitOrder, BatchSubmitOrders, CancelOrder | a handler is a series of statements no transaction joins; handlers and processes race; any statement may fail; retries | an order is published in one message; a replay is the original; every call returns |
| ledger sync (`redisstream/ledger_sync*.go`, `worker`) | stream cursors, checkpoints, raw archive | read batch, decode, archive, project, checkpoint, callbacks | crash between any two of these; entries that fail; replays | every entry is projected or archived for replay; at-least-once |
| ledger projection (`ledger/repository.go`, `ledger/sql.go`, `trading/validation.go`) | orders, order events, fills, positions, assets | UpsertOrder, UpdateOrderStatus, InsertFill, UpsertPosition, DeleteStalePositions | reports out of order and repeated; terminal states; synthesised fills | terminal stays terminal; quantities do not shrink; fills are not counted twice |
| event hub, bridge, SSE, SDK stream (`events/*.go`, `api/server.go`, `sdk/python`) | event numbering, replay window, channels, LISTEN session, client cursor | Notify, listen, Publish, SubscribeFrom, stream_events_resilient | lost sessions, restarts, full channels, expired cursors | a loss is always announced by a gap |
| auto-refresh (`orderflow/auto_refresh.go`) | timers, next allowed time per account | Request, run, Stop | a fired timer races with its replacement; requests put each other off | the cooldown bounds the refreshes; no request is forgotten |
| archive replay (`redisstream/archive_replay.go`) | none of its own | replay orders, fills, transfers | old entries over newer rows, beside the worker, cut short | what failed is repaired, nothing newer is undone |
| credentials (`credentials/manager.go`) | lock, versioned envelopes, current pointer, audit | Rotate, Disable, Status | the lock expires under its holder; lost answers | the pointer names a verified, newest envelope; the audit is true |
| command status (`ledger/repository.go`) | none (derived) | GetCommandStatus | replies interrupted, repeated, contradictory | one verdict per command |
| close capture (`src/relay/jobs/common.py`, `api/server.go`) | the polling rounds of the job; `broker_close` rows | publish queries, poll, retry, snapshot | three processes that meet only in the tables; crashes; clocks | the snapshot is what the gateway held at the close |
| NAV book (`performance/service.go`, `ledger/performance.go`) | NAV versions, reconciliations | rebuild, reconcile T+1, review | operations of API, CLI and job overlap without a lock; the calendar may not answer | one current version per day, history is kept, nothing doubtful is confirmed without force |
| economic NAV (`performance/service.go`) | cash ledger, repo accruals, settlement finalizations | calculate; create, confirm, void entries | hand-made inputs: late, double, wrong, missing; cash that moves outside the snapshots | a result that raises no flag is the real gain |
| contributions (`performance/contributions.go`, `etf_transfer_links.go`) | none (derived) | calculate | partial, summarised and repeated reports | contributions add up to the account's gain |
| cost ledger (`performance/cost_ledger.go`, `t0_cost_buckets.go`, `corporate_actions.go`) | daily cost rows | calculate and upsert | days out of order, overlapping, half written; splits; reads that fail | a row that is not blocked is the replayed cost |
| migrations, observability, HTTP handlers, configuration, portal, CLI, other daily jobs | none of their own | - | - | - |

Interactions: the API and the worker share the ledger and nothing else; the
gateway sees only streams; clients see HTTP and SSE.

## 2. Modules

| Module | What it is |
|---|---|
| `OrderFlow` | the write path: handlers as processes, one action per ledger or stream access |
| `SubmitOnce` | what the write path promises: an order identity is reserved by one message for good and that message is sent at most once |
| `OrderFlowProofs` | theorems about `OrderFlow` |
| `MCOrderFlow` | request sets for TLC |
| `EventStream` | worker notifications, LISTEN bridge, Hub, SSE handler and SDK client |
| `EventStreamProofs` | theorems about `EventStream` |
| `MCEventStream` | start cursors and filters for TLC |
| `OrderMerge` | how a report becomes a row of `orders`: parsing, normalisation, the two SQL statements; constant operators |
| `OrderRow` | one row under every sequence of writes; built on `OrderMerge` |
| `OrderRowProofs` | theorems about `OrderRow` |
| `MCOrderRow` | the reports a gateway may send, for TLC |
| `LedgerSync` | the worker and the archive replay: streams, cursors, checkpoints, orders, fills, transfers, fees, cancel attempts, crashes; composes `OrderMerge` with the loop |
| `LedgerSyncProofs` | theorems about `LedgerSync` |
| `MCLedgerSync` | the scenarios for TLC |
| `CommandStatus` | the verdict on a command from its archived replies; constant operators |
| `CloseCapture` | the closing capture: queries, gateway answers, worker, job and API; built on `CommandStatus` |
| `CloseCaptureProofs` | theorems about `CloseCapture` |
| `MCCloseCapture` | instances for TLC |
| `AutoRefresh`, `MCAutoRefresh` | the refresh scheduler |
| `AutoRefreshProofs` | theorems about `AutoRefresh` |
| `Credentials`, `MCCredentials` | the credential manager |
| `CredentialsProofs` | theorems about `Credentials` |
| `NavBook`, `MCNavBook` | the tables of NAV versions and reconciliations and the operations on them |
| `NavBookProofs` | theorems about `NavBook` |
| `VersionedBook` | what that table promises: a history per day that only grows, of which only the newest version changes its status |
| `TradeMatching` | matching of fills, transfers, component sales and redemptions; constant operators |
| `Attribution`, `MCAttribution` | the contribution view of a day; built on `TradeMatching` |
| `EconomicNav`, `MCEconomicNav` | the economic NAV and the cash ledger |
| `CostLedger`, `MCCostLedger` | the chain of cost rows; built on `TradeMatching` |

### OrderFlow

A handler is a process with a program counter `pc` and the locals of the Go
function (`call`, `child`, `conflict`, `replays`, `row`, `msg`).  A single
submission is a batch of one child; the two functions differ only where an
action tests `call.action`.  The actions follow the statements:

    Begin/Refuse -> LookupGateway -> LookupKey -> Compare    (preflightSubmitOrder, per child)
       -> CreateOrder (per child) -> PublishCommand -> ArchiveCommand
       -> ReplayReceipt                                       (a replay)
    Begin -> CancelLock -> CancelLookup -> CancelReplay | CancelCheck
       -> PublishCommand -> ArchiveCommand

`Abort` ends a handler after any statement: an error, a cancelled context or
the death of the process.  A statement that took effect but whose answer was
lost is an abort of the following one.  `ResendCommand` is the
Redis client (external): `OpenRedisCommandPublisher` keeps the default retries
of go-redis, so an XADD whose answer is lost is sent again, up to `MaxSends`
times, before `PublishCommand` returns.  `SyncOrder` is the worker rewriting a
row from gateway reports: the order was published, so its row exists and
`upsertOrderSQL` takes its DO UPDATE; that orders the API never sent are
inserted is in `LedgerSync`.  `NextDay` is the calendar, which matters because
an absent trade date is filled in from the clock.

Abstractions: payload fields other than identities are one value `body`;
`ReportedBody` stands for the rest of a row after a report.  Keys are sequences
of names so that generated keys (`order:<account>:<id>`, `<batch key>:<id>`)
are distinct from each other by construction and can still equal a key that a
client chose.  UpsertAccount is left out: it writes a table that nothing here
reads.  A generated batch key or cancel id is fresh and so is a request of its
own.

### EventStream

`committed` is the ledger, as a sequence of changes with the accounts they
concern.  `unsent`, `wire`, `link` and `connectedOnce` are the bridge; `epoch`,
`nextEventID` and `history` the Hub; `out` and `ch` what is queued for a
connection (the SSE prelude and the channel); `cursor`, `connections` and
`reconciled` the locals of `stream_events_resilient`.  `told`, `snapshot`,
`start`, `log`, `failed` and `unheard` are history variables used by
properties only.  `GivenUp` is the end of the SDK loop: the last connection of
its budget has broken as well.  `Selected` is the loop of `resumeLocked` over the window,
event by event, and `Wanted` the events it keeps.  A change is one event: the fan-out of a change into several
event types is left out, and so are heartbeats, which carry no cursor.

### OrderMerge and OrderRow

A report (an order in a payload) and a row are records of the columns whose
merge rules differ: status, gateway status, quantities, `is_terminal`,
`reject_code`.  `toOrder`, `normalizeOrder`, `normalizeOrderEvent` and
`NormalizeOrderExecutionState` are the Go functions; `UpsertEvent` and
`UpsertReply` are the DO UPDATE of `upsertOrderSQL` without and with
`relay_reply_status`, `UpdateStatus` is `updateOrderStatusSQL`, and a statement
that breaks a CHECK constraint changes nothing.  `cancelled_qty`,
`invalid_qty` and `submitted_qty` share one CASE and one column here; prices,
texts and times are left out.  `OrderRow` has one action per path that writes
the row: the API's draft, a complete `order.event`, an incomplete one, an item
of an order page, a rejected submission.

### LedgerSync

`stream` is what the gateway (external) wrote; `archive`, `rows`, `events`,
`fills`, `summary`, `transfers`, `attempts`, `feeRecords`, `fee` and `ckpt` are
the tables; `cursor`, `hi` and `at["worker"]` are the worker between two
statements, `stage`, `todo` and `at["replay"]` the archive replay:

    worker: Read -> per entry: ArchiveRawStreamMessage, then per item
              WriteOrder -> SynthesizeSummaryFill -> AppendOrderEvent   (order.event)
              WriteOrder -> SynthesizeSummaryFill                       (order page)
              WriteOrder -> AppendOrderEvent                            (rejected reply, failed batch item)
              InsertFill -> DeleteSummaryFills                          (fills)
              InsertComponentTransfer | UpsertOrderCancelAttempt | UpsertOrderFeeRecord
            -> per stream: SaveCheckpoint | SaveCheckpointFails
    replay: StartReplay -> ReplayNext per archived entry: the same statements,
            without the archive and the summary fills; orders, fills, transfers

`StatementFails` ends an entry at any statement, as `ProcessLedgerEntry` does
when the ledger returns an error; `Crash` and `Restart` stop and start the
worker at any point, a restart may fail to read a checkpoint, and `ReplayStops`
interrupts a replay.  `Refused` is what is archived and goes no further:
garbled bodies, heartbeats and dead letters, failures of unknown outcome, and
pages of which one item is incomplete.  `skipped` and `upset` are history
variables: what failed and was not repeated since, and whether a replay was
interrupted, overlapped with the worker or found the archive out of order, or
the worker stopped while it repeated what its checkpoints cover.  One account and one trading day; a
fill is one lot, its identity its number; fee pages are told apart by
`fee_as_of`.  UpsertAccount is folded into the statement that follows it.  The
gateway writes between two batches: a batch that was read does not change with
later entries.

### CommandStatus and CloseCapture

`summarizeCommandStatus` judges a command by its archived replies, in the order
of their `received_at`.  `CloseCapture` puts it between the three programs that
make `broker_close`:

    job:    StartJob -> Refresh per step
              -> PollAsset -> PollPositions -> PollStatus per step     (a round)
              -> PollAgain | RetryQueries | BlockSnapshot | DeadlinePasses | RequestSnapshot
    worker: Read -> per entry: ArchiveRawStreamMessage
              -> UpsertAssetSnapshot | UpsertPosition per item -> DeleteStalePositions
              -> SaveCheckpoint
    api:    ReadAsset -> ReadPositions -> UpsertAssetSnapshotForDate
              -> UpsertPositionSnapshot per position -> PrunePositionSnapshots

Every read of the job and every statement of the other two is a step of its
own.  `Answer` is the gateway (external): it answers queries one after the
other in one or two pages, with a failure, with an interruption it recovers
from, or never.  Faults: failing calls and statements, a worker crash, a
request that is lost half-way, each an incident bounded by `MaxIncidents`.

Abstractions: one account and one trading day.  What the gateway holds is a set
of symbols and a `version` that counts trades and stands for cash and
quantities; a row keeps the version it was made from (`seen`) and its time
(`at`).  The job starts after the close, so there is no trade while it runs.
Identifiers of commands carry the time of their publication, which is what
`positionQueryStaleCutoff` extracts, so a command is known by that time.
Orders, fills and fees queries change neither positions nor assets; they may be
listed in `RefreshSteps`, and the instances leave them out.  `Init` has the
rows of an earlier query and an earlier capture, whose remains are a hazard.
`job.result = "ready"` is what `scripts/run-post-close-pipeline.sh` requires of
an account: the job succeeded and the account is reported without errors.

### AutoRefresh

A timer is a record that is armed, waits for the mutex, or publishes; `entry`
is the map of the scheduler, `cooling` its `nextAllowed`.  `Fire` starts the
goroutine of a due timer; between `Fire` and `Run` another request may replace
the timer, whose `Stop` then comes too late, and `Run` deletes the entry of the
account even if it is that of the replacement.  Requests come without end;
`MaxTimers` bounds only how many timers and recent runs are told apart, and a
number is used again when neither has it.  Time is discrete; a due timer
fires, and a waiting goroutine gets the mutex, within the tick.  `pending` and
`runs`, the timers that ran within the last cooldown, are history variables.

### Credentials

`envelopes`, `pointer` and `lock` are the keys of one account in Redis, `audit`
the table.  An operation is a process:

    Start (audit) -> AcquireLock -> ReadCurrent -> WriteVersion -> Verify -> Activate | Delete
      -> Succeeded | Fail (audit) -> ReleaseLock

Every call succeeds, fails, or takes effect with its answer lost; a context may
end, a process die, and `Expire` takes the lock away at any time.  Operation
ids stand for the random lock tokens and for the plaintext.  `Status` reads the
pointer and then the envelope, without a lock.  `MaxTry` is the bound of 1000
candidate versions.

### NavBook and VersionedBook

`navs` and `recons` are the tables; an operation reads (`RebuildContext`,
`ReconcileRead`, `ReviewRead`, `ReviewDecide`) and writes (`UpsertNAV`,
`RebuildReconciliation`, `ReconcileWrite`, `ReviewWrite`, `ReviewStatus`) in
separate steps, because no transaction joins the statements and no lock the
processes.  `ImportStatement` is relayctl's import of a broker statement, whose
version the statement itself numbers.  What the calculation finds is an input
of the request: the status before it looks for a gap, whether the cumulative
NAV is positive, the formula version, whether the day is the confirmed
inception, the size of a residual.  So is whether the trading calendar answers;
without an answer `Gap` is false, as in `previousNAVContext`.  The refinement
mapping takes a day to the statuses of its versions; `base` of a row is the NAV
its cumulative return continues.

### TradeMatching, Attribution and CostLedger

The two views match a day's rows in the same way: `TradeMatching` has
`dedupeContributionFills`, the redemptions taken from transfers, the links of
component sales, the groups of purchases and redemptions, and the fee of a
bucket.  `Attribution` puts a broker beside it: an order trades in full, the
ledger sees the part that was reported, and `Calculate` values what the ledger
sees.  A day has one fund that delivers one component; `Iopv`, fees and prices
depend on the order, so that sums that agree do so for a reason.  `CostLedger`
has three days with a split in between; a calculation reads everything, then
writes its rows one at a time.  A calculation is told something by the
world, a member of `Markets`: whether the calendar, the fee rules and the
component transfers can be read, and the securities with a previous close and a
close.  Each of these fails the way the code handles it: open for the calendar
(no gap) and the transfers (none), with an estimate for the rules, with a
blocked row for the prices.  `lacks` of a row is history: whether a fee
or a day is missing in it.  `TrueCost` is the
reference: the replay of all fills since inception.  Decimals are integers.

### EconomicNav

`cash`, `pos` and `flows` are the broker's books, `book` what was observed of a
day, `entries` the cash ledger.  `Nav(d, readable)` is what
`CalculateEconomicNAV` answers for a closed day in the current state.  A day is
`before` its open snapshot, `open`, then `closed`; trading is for the open day,
but deposits, income and settlements move the cash in all three, and `External`
sums the confirmed entries of the date whatever their time, as the code does.
Entries are made by operators from `Forms`, right or wrong, with the stage that
was typed in; `odd` counts what is not as it should be (a wrong form, a second
entry, a void, a missed snapshot, a movement outside the market, missing prices
or fees).  Reverse repo is lent within the cash or out of it; `readable` says
whether its accruals could be read, and a failed read is a day without repo.
Settlements are paid whole or in two parts.  The reconcile snapshot of a past
day comes from an audit by hand, with what the broker owes, or from
`relayctl`'s broker funds audit, which enters nothing owed and finds a deposit
by comparing the opening with the statement.

`Gained` is the truth the results are compared with.  It is taken from the
broker's books alone (`cash`, `pos`, what was lent and what is owed); no entry
and no rule of the code is part of it.

## 3. Runs

| Run | Bounds | Shows |
|---|---|---|
| `order_write` | 2 handlers; 3 single submissions from 4 that clash, or 3 of 2 batches, their children and a clashing client id, or 2 singles and a change of the day, or calls for an account without a route; one XADD is sent twice | each order is published in one message; rows before publication; no silent orphan; a replay is only for the payload that was sent; refinement of `SubmitOnce` |
| `order_cancel` | 2 handlers of one process, 3 requests, one cancel key for two cancels, every XADD may be sent twice | an accepted cancel is never published again; every request is answered |
| `event_stream` | 1 client of one of 2 accounts, every kind of start cursor, 3 changes (the second of the other account), 2 API processes, 1 lost session, window 2, channel 1, 1 reconnect | nothing is skipped silently, order is kept, every client is eventually told or gives up after its last connection broke |
| `order_row` | order of 2 lots, every combination of 9 words and of quantities | rows meet the CHECKs, the columns agree, a filled order is whole, finished orders stay finished |
| `ledger_sync` | 1 order of 2 lots in 9 scenarios (drafted or not, complete or incomplete events, a redemption; order, fill, fee and cancel pages and unusable messages), 3 faults (crash, failed statement, lost or unread checkpoint, replay) of plain orders, 1 or 2 beside other messages, batches of 2 | checkpoints cover what was booked; every lot is booked once; orders and fees agree with the gateway; the worker catches up |
| `close_capture` | 1 symbol, a gateway clock 5 behind, 1 trade, 1 query of another client, 2 incidents, batches of 3 | the last query leaves exactly what the gateway held; a reported capture was answered, has the final asset and is whole |
| `credentials` | 4 operations in 2 plans (rotations with 2 keys, disables, a refused one), 2 at a time, 1 fault beside any number of expiries, 1 status request | the pointer names a verified version and never an older one, moves only from what its mover read, the audit is true, every operation ends |
| `auto_refresh` | 2 accounts, any number of requests, 4 timers at a time, debounce 1, cooldown 3 | at most two runs per cooldown; every request is followed by a run unless requests put it off for ever |
| `nav_book` | a rebuild of day 1 and any 3 of 10 requests, or a chain of 3 days with another formula, a NAV of zero, an imported statement or a silent calendar | one current version, confirmations within the warning, refinement of `VersionedBook` |
| `attribution` | up to 5 orders from 13 kinds, 1 lost report, 2 openings, 5 states of fees, market data and settlement | the view adds up; no share twice |
| `economic_nav` | 2 days, 3 movements, 3 entries, 1 oddity, accruals readable or not | accepted results add up to the gain in the broker's books; right inputs are not blocked where the snapshots bridge the day |
| `cost_ledger` | 3 days, 2 orders from 4, 1 late report, 2 calculations by 2 jobs, a split known or not, 3 inceptions, 3 states of what can be read | rows are the replayed cost; the chain goes on |

Why the bounds are enough: two handlers already reach every interleaving of a
preflight, an insert and a publication of one order; a third request is the
retry after both.  The request sets hold every kind of clash (same gateway id
under two keys, same key for two ids, same key for two payloads, same client
id, absent key and date, a batch child sent alone).  For the stream, the
channel and the window overflow within the bounds, a cursor may be current,
expired, of another process or garbage, and subscribers do not interact with
each other, so one client is the general case.  Orders do not interact in the
ledger, so one order is the general case for the worker; two lots give a
partial fill, two crashes a crash during the repetition, a batch of 2 a batch
that ends inside the two entries of one fill.  Every scenario of `ledger_sync`
has messages that write the same columns.  A `CONSTRAINT` of `order_write`
keeps the four clashing single submissions apart from the batches to bound the
run: the group of the batches has single submissions of its own that clash with
the children of a batch by id, by key and by client id.  Another lets one
command be sent twice, with at most one further request, the retry;
`order_cancel` has no such bound.  Positions of different
symbols meet only in the freshness check (section 6); for the rest one symbol
is the general case.  Five units of clock are more than the time between two
queries, two incidents are a crash or a failure beside someone else's query or
a retry, and a batch of 3 holds entries of two queries, so a crash repeats an
older page after a newer one.  In `credentials` two operations at a time give every overlap of a holder whose
lock expired with the next holder, and two more follow the overlap.  In
`nav_book` four operations give two that overlap, the version they found and
one that follows.  In `attribution` five orders are two purchases, a redemption
and two sales of what it delivered; two days of `economic_nav` are a settlement
and its payment; three days of `cost_ledger` are a chain with a hole.  One
error is the limit of what the checks of these programs promise: two errors may
cancel, in the code as in the model.  The systems are made finite by
`MaxCalls`, `MaxSends`, `MaxDay`, `Changes`, `MaxEpoch`, `MaxDrops`, `MaxReconnects`,
`Scenarios`, `MaxTrades`, `MaxOthers`, `MaxIncidents`, `MaxFaults`,
`MaxRunning`, `MaxTimers`, `Plans`, `MaxOrders`, `MaxLost`, `MaxMoves`,
`MaxOdd`, `MaxLate` and `MaxRuns`; a run that has used them up may stop,
so deadlock is not checked.

Fairness: a handler goroutine keeps running (weak fairness of its steps) and
`sync.Mutex` hands the lock to a waiter that has starved (strong fairness of
`CancelLock`).  For the stream: the worker's callback, the listener's retry
loop and the client's read loop keep running; for the worker: the loop of
`RunLedgerSyncLoop` goes on after every error, and its supervisor starts a
stopped worker again.  For the scheduler: the runtime starts due timers, runs
goroutines, and time passes.  For credentials: while operations run one of them
goes on, and Redis expires a lock.  Failures, crashes, restarts of the API,
gateway steps and commits have no fairness.

## 4. Properties and hazards

The hazards are listed in `PROJECT.json`, each at its line with the properties
that cover it.  Every property has a mutant: a plausible bug of the mapped code
under which TLC refutes the property.

The types are a conjunct (`TypeOK`) of the first invariant of most modules
(`OneCurrent`, `CheckpointCovers`, `CurrentIsVerified` and so on), and are
proved with it where section 5 says so.

`EventuallyTold` excludes two kinds of change on purpose, and says so in
terms of the variables `failed` and `unheard`: a notification that could not be
sent or decoded is only logged by the code, and a notification sent before the
first LISTEN of an API process reaches nobody, although a client may have
reconnected and reconciled before that.  No document promises otherwise; both
are limits of the design a reader should know.

`LastQueryExact` speaks of a query that was issued after the times on all other
position pages.  Overlapping queries, or a gateway whose clock is ahead, stamp
rows later than the cut-off of the next query; a sold position then survives it
and goes with the query after.  `CapturedAssetFinal` excludes worker crashes:
the asset upsert has no age guard, so an older page that is applied again
stands until the newer one follows, and the snapshot may be taken in between.

`CaughtUpAgrees` excludes order pages, and `FeesSettled` excludes them for the
column of the order: a page overrides the row whatever its age (section 6).
Both, and `FillsBookedOnce`, speak of a ledger in which nothing failed that was
not repeated since.  The status of a live order is asserted only if no replay
and no repetition of old events was cut short before it came to the newest one
(`upset`); quantities and final states need no such exception.
`AtMostTwoPerCooldown` says two and not one because a fired timer and its
replacement both run.  `EveryRequestServed` excepts requests that put the
refresh off without end (`PutOff`), and is checked with requests that never
end.  `SubmitOncePerOrder` speaks of messages: the entry of one message may be
on the stream twice (section 6).  `ConfirmedWithinWarning` looks at the tables
at the moment of the write, at the status of the NAV, that of its record and
the residual, and excludes a review that was overtaken by a write between its
read and its own.

`ResultsAddUp` compares with the broker's books.  `Shown` names three errors
that no residual can show; `Accepted` asks for at most one movement that was
entered wrongly or lies outside the snapshots, and for none on a repo day,
because two may cancel.  `NoFalseAlarm` is asserted for days that the snapshots
bridge (`Bridged`): what happened outside them is not in their difference, and
the code blocks such a day.  `CostIsReplayed` excepts rows that lack a fee or a day, `ChainContinues` the days without a price, which the
code blocks.  `AttributionCloses` and these name their exceptions where they
are defined; each is a limit of the code that section 6 lists.

## 5. Proofs

TLC checks the instances of section 3; the theorems hold for every value of the
constants that satisfies the assumptions of the modules.  Each rests on an
inductive invariant `IndInv`, which TLC checked on those instances before it was
proved, and which says what the property does not: why the next step cannot
break it.

| Module | Theorem | Property |
|---|---|---|
| `OrderFlowProofs` | `TypeCorrect`, `PublishedWasReserved`, `PublishedOnce` | `TypeOK`, `ReservedBeforePublished`, `SubmitOncePerOrder` |
| | `Refinement` | `ImplementsSubmitOnce` |
| | `OrphansAreTold`, `ReplaysAreOriginal`, `AcceptedCancelIsFinal` | `NoSilentOrphan`, `ReplayMatchesOriginal`, `CancelReceiptFinal` |
| `OrderRowProofs` | `TypeCorrect`, `ColumnsAgree`, `FilledWhole`, `LiveWritesKeepTerminal` | `TypeOK`, `StatusColumnsAgree`, `FilledIsWhole`, `TerminalSticks` |
| `EventStreamProofs` | `HubSkipsNothing`, `HubKeepsOrder` | `NothingSkipped`, `QueuedInOrder` |
| `LedgerSyncProofs` | `CheckpointsCover`, `EveryLotBookedOnce`, `FeesAreSettled`, `LedgerAgrees` | `CheckpointCovers`, `FillsBookedOnce`, `FeesSettled`, `CaughtUpAgrees` |
| `CloseCaptureProofs` | `QueryLeavesExact`, `ReadyIsAnswered`, `CapturedIsFinal`, `CapturedWhole` | `LastQueryExact`, `ReadyWasAnswered`, `CapturedAssetFinal`, `CaptureIsWhole` |
| `CredentialsProofs` | `CurrentVerified`, `AuditIsFaithful`, `NoReactivation`, `NoStaleMoves` | `CurrentIsVerified`, `AuditFaithful`, `NeverReactivated`, `NoStaleMove` |
| `NavBookProofs` | `OneCurrentNAV`, `ReviewedWithinWarning` | `OneCurrent`, `ConfirmedWithinWarning` |
| | `Refinement` | `ImplementsBook` |
| `AutoRefreshProofs` | `LoadBound` | `AtMostTwoPerCooldown` |

### OrderFlowProofs

For any sets of handlers, processes, accounts and requests that satisfy
`RequestAssumption` and `ProcessAssumption`.  `SubmitOncePerOrder` is about the
stream, but what makes it true is elsewhere, so the invariant adds:

* `HandlerInv`: a running handler has a well-formed call and a current child;
* `StreamMsgs`, `OwnedMsgs`: message ids come from a generator; two entries of
  one id are the same command, and handlers between their first insert and their publication
  own different, unpublished ids;
* `PublishedFirst`: a handler that archives has published, so what the Redis
  client sends again is on the stream already;
* `RowsUnique`: no two rows share an identity (this is what the unique indexes
  give `CreateOrder`);
* `HandlersReserve`: a handler that inserts has reserved the children before
  the current one, a handler that publishes all of them.

Then two published orders of one identity are reserved by the same row, hence
by the same message, hence are copies of one entry and the same child.  Most
steps are `Calm` (they neither insert nor publish) and are handled by one
lemma; `CreateOrder`, `PublishCommand`, `ResendCommand` and `SyncOrder` have
their own.  The
refinement maps an insert to `Reserve`, a publication to `Send`, and everything
else, rewriting of rows and copies on the stream included, to a stuttering step.

Two further invariants are inductive beside `IndInv`.  `ReplayInv` follows a row
from its insert: until its command is on the stream a handler owns it or a
client was told, and a handler that is about to replay compared its payload with
a row that carried the published one or with what a report left of it.
`ReplaysAreOriginal` therefore assumes `ClientPayloads`, that no client sends the
very payload a gateway report leaves in a row: the comparison could not tell the
two apart, in the code as in the model.  `CancelInv` says that a handler between
the look at the archive and the archiving of its cancel holds the mutex of its
process; `AcceptedCancelIsFinal` assumes `SingleProcess`, because `cancelMu` is a
mutex of one process, and is false without it.

### OrderRowProofs

For every order quantity and every set of reports over any words the gateway
may write, contradictory reports included (`QtyAssumption`, `RowAssumption`).
The inductive invariant says that the row, if there is one, is `Good`: typed,
its three finished-columns agree (`Agree`), filled means whole (`Whole`).  The
parts need each other: a merge takes the status columns from one side or the
other by `is_terminal` alone, so they stay in agreement only if both sides were,
and a filled row stays whole only if whatever is merged into it either is kept
out by the terminal guard or is whole itself.  The lemmas follow the data:
`ExecutionState` (what `NormalizeOrderExecutionState` returns for any words and
quantities), `Parsed` (what parsing and normalisation make of any report), and
`EventMerged`, `ReplyMerged`, `StatusMerged` (each SQL statement keeps `Good`).

### EventStreamProofs

For any number of clients, accounts, changes, processes and lost sessions, and
any capacity of the window and of the channels.  `LogInv`: the replay window is
the end of the numbered log.  `QueueInv`: what is queued is of this process, and
a client whose cursor is not of this process has a queue that begins at its
subscription.  `CoverInv`, the core: an event a client still needs is in its
queue, or a gap that covers it is.  A full channel is drained and a gap put in
its place, an expired or foreign cursor is answered by a gap, and a cursor within
the window by `Selected`; each case hands the covered events from one witness to
another.  `OrderInv` adds the order across the seam of prelude and channel.
What the loop of `Selected` returns is an induction over the window: the set of
rounds at which it fails has no least element (`LeastNumber`), which is how an
induction is put to provers that cannot instantiate an induction theorem.

### LedgerSyncProofs

For any orders, order quantities, batch sizes and scenarios, that is any number
of messages, failed statements, crashes, lost checkpoints and replays
(`SyncAssumption`, `ScenarioAssumption`).  `CheckpointCovers` speaks of
checkpoints alone, which move once per batch; what makes them true is what the
worker has done since:

* `EntryOK`, `StreamInv`: what the gateway may have written; an entry that is not
  refused has a first statement, and only pages and lists of fills have more
  than one item;
* `TablesInv`: the tables have their types; a row that a report leaves meets the
  CHECK constraints or the statement fails, and archived entries are in the
  streams;
* `PlaceInv`: a process within an entry is at a statement of that kind of entry,
  the entry is archived, and the lots of the items before the current one are
  booked;
* `BatchInv`, `CoverInv`: the entries the worker has *worked off* - those before
  a checkpoint, before a cursor, before its place in the batch, or in the batch
  while it reports - are archived and booked, or skipped.

No step takes back what is archived or booked (`Grows`), so a step has to show
only where it leaves its own process (`OneMoves`) and what it adds to the
entries worked off: nothing, unless it ends an entry (`WorkerGoes`, `EntryEnds`).
A restart takes the worker back to checkpoints and an unreadable checkpoint to
the start of the stream; both only shrink what counts as worked off.

The other theorems compare the ledger with the gateway and need to know what it
has said.  `KnownInv`: every report is of a state its order has been in, and
of the last one if it is final; every lot that traded is told by some entry of
the event stream, and the newest state of an order by a report.  The gateway
takes nothing back, so each of its steps has to show what it adds (`MovesOn`,
`KnownStays`).

* `FillInv`: only lots that traded are booked (`LotsTraded`), and a summary fill
  is of an order that traded whole and has all its fills beside it only as long
  as an entry with a fill of that order is still *ahead* of every process
  (`SummaryLeft`).  The worker synthesises the summary from a filled order and
  removes it with the next fill; the entry that is ahead is the one the process
  is at, or one that was skipped or not reached.  Once everything is applied no
  entry is ahead (`AllDone`), so all fills are there and no summary is;
* `FeeInv`: a fee record is a page of its order, no page that was worked off
  could replace it (`Replaces` is transitive where `Effective` needs it,
  `EffectiveStands`), and the column `orders.fee` of a drafted order shows it
  in every state, because an event keeps the fee of a row that is `marked` and
  only order pages remove the mark;
* `RowInv`, for `CaughtUpAgrees`: as long as no order page was queried, a row
  *follows* its order - it has traded no more, and if it is finished it shows
  how the order finished - and *has* at least what every report that was worked
  off says, and what the report says that a process is just appending
  (`Written`).  Merging keeps both (`OrderFollows`): the quantity only grows,
  and a live report neither reopens a finished row nor finishes a live one.
  Worked off is worked off by anyone, so repetitions and replays cannot hurt.
  With the newest report among those worked off this gives the quantity of
  every order and the outcome of a finished one;
* `AgreeInv`, for the status of a live order, which old reports do take back: an
  acceptance that is repeated over a partial fill makes the row `Stale`.
  `StaleInv`: while a row is stale and nothing was cut short (`upset`), a report
  of a partial fill of that order is still to come (`ToCome`) - it is ahead of
  the worker, among the rows of the replay, or was skipped - and no process is
  past its write.  This rests on the order of things: an order is accepted
  before it trades (`ToldInOrder`), so behind a repeated acceptance the worker
  still meets the fill; and what a replay is at is followed, in its query, by
  all that was archived later (`ReplayInv`), which is later in the stream if
  the archive is in order.  A crash may send the worker back only to a
  checkpoint at or before its cursor, or else sets `upset`.

`upset` excuses no more than it must: without any one of its four causes TLC
finds `CaughtUpAgrees` violated.

### CloseCaptureProofs

For any symbols, refresh steps, batch sizes, numbers of trades, of queries of
other clients and of incidents, and any skews of the gateway's clock that the
time from the close to the start of the job outweighs
(`CaptureAssumption`; the job is started minutes after the close, `FreshSlack` is
two seconds).  The parts of the invariant:

* `StreamInv`: queries are issued and answered one after the other, and only the
  last page of an answer completes it;
* `WorkerInv`: where the worker is between checkpoint and end of the batch;
* `RowsInv`: a position is of `Init` or of a page of the stream;
* `LastInv`: of a query issued after the time on every other page, what was
  applied stands, and nothing older outlives its last page.  A crash takes the
  worker back, so this speaks of what was applied since the checkpoint: pages
  that are applied again are again older than the query and lose against it;
* `JobInv`: the job and the handler wait for each other, and a verdict
  `completed` is backed by a completed reply in the archive;
* `WholeInv`: what the handler has read and no longer has to write is written;
* `AssetInv`: whatever is dated after the start of the job shows the close; once
  such an asset is in the ledger, only such assets follow, as long as nothing is
  applied again; and the handler reads that asset and not the one an earlier
  capture left.

The rows of the asset and of the archive need each other only through the job:
`AssetFresh` and `CompletedWasAnswered` are what a round has seen, and both
survive until the handler reads.

### CredentialsProofs

For any number of operations, keys, expiries and faults.  `VersionsInv`: versions
are numbered without a hole and one operation writes one version, so the first
free number above what an operation read is the next one.  `LockInv`: an
operation that still holds the lock still sees the pointer it read, and its
candidate is above every version that was ever current; an operation whose lock
expired may go on, but `SetIfLockOwner` refuses it.  `VerifiedInv` and `AuditInv`
carry the read-back and the audit from step to step.

### NavBookProofs

For any plan of rebuilds, statement imports, reconciliations and reviews, any
number of days and any set of formula versions.
`NumberingInv`: the versions of a day are numbered without a hole, the newest is
current, and a rebuild between its read and its write has read a number that was
given; the unique index then makes an overtaken rebuild fail, while a statement
numbers its own row.  `ReviewInv`: a review nobody overtook still has the NAV
status and the record it decided on, so neither is blocked nor the residual over
the warning when it writes.  The refinement maps every statement to a step of
`VersionedBook` or to none.

### AutoRefreshProofs

For any number of accounts, requests and timers.  A timer is its account's own or an
*orphan*: one that had fired when it was replaced, or whose entry such a timer
deleted.  `TimersInv`: there is at most one orphan of an account, it runs before
the cooldown is over, and the account's own timer respects the cooldown.
`RunsInv`: after two runs every live timer waits until the first has left the
cooldown.  `LoadBound` assumes `Debounce < Cooldown` (section 6).

### Only model-checked

The liveness properties `EveryCallAnswered`, `EventuallyTold`,
`EventuallyCaughtUp`, `OperationsEnd` and `EveryRequestServed`, because TLAPS does not prove
liveness under fairness; and the invariants of `Attribution`, `EconomicNav` and
`CostLedger`, which compare what a fold or a recursion over the day's rows
computes with a reference, for which the provers lack induction over data.

## 6. Met while modelling

None of these is the subject of a run of its own; the properties are stated so
that they hold beside them, with exceptions by name where they would not.

Orders and streams:

* A submission whose publication failed is answered as a replay by its retry,
  with the id of a message that does not exist (`service.go:244`), while
  docs/CHRONOS_R2C_WRITE_RECEIPT_ACCEPTANCE_20260914.md:18 has a replay restore
  the first published ids.
* An order page that is applied again, after a lost or unreadable checkpoint or
  by a replay, takes an order back to an older state, a finished order
  included: a page overrides the row whatever its age
  (`ledger_sync_loop.go:122`, `ledger_sync.go:345`; docs/ARCHITECTURE.md:191
  calls repeated consumption idempotent).
* An XADD whose answer is lost is repeated by the Redis client
  (`command.go:53` leaves go-redis its default retries, `command.go:90` sends no
  entry id), so the very same entry, message id included, may be on the stream
  twice; nothing on the side of the API drops it.
* Every request re-arms the debounce of the refresh (`auto_refresh.go:81-97`):
  requests that keep coming closer together than it put the refresh off for ever.
* The SDK reconciles at most once per connection: a second gap is passed without
  reconciliation (`client.py:1727`; sdk/python/README.md:149).
* The closing capture may be of positions from before its own query, or of a
  part of its answer: the reply is archived, and the command so completed,
  before its rows are written, and one recent row makes all positions fresh
  (`ledger_sync.go:200`, `common.py:1236`; docs/DATA_MODEL.md:172).
* An order page replaces `adapter_context` and drops the `fee_record_id` in it,
  after which the next event sets `orders.fee` to 0 (`sql.go:145`,
  `sql.go:225`); a fee page that precedes the first row of an order leaves the
  row without the fee.
* A fee page whose statement failed is not repeated before a newer, incomplete
  page of the order is booked; if a repetition comes to it later, the older
  complete record does not replace the newer incomplete one, and the order
  shows no fee although the gateway reported it (`fees.go:397`).
* After a lost or unread checkpoint the loop repeats old events under
  checkpoints that are ahead of it; if it stops half-way it goes on from those
  checkpoints, and the status of a live order stays that of the old event until
  the next one (`ledger_sync_loop.go:122`).
* A replay deletes a summary fill that stood for fills that were never archived,
  and synthesises none; it does not repeat rejections, cancel outcomes and fees;
  it goes by the time of the last archival, so that a replay after a repetition,
  beside the worker or cut short may leave an order in an older state.
* The outcome of a cancel that is written last stands, and one incomplete item
  makes a whole page unusable.
* A batch idempotency key is not compared with anything: two different batches
  under one key are both published (`service.go:336`; only child keys bind).
* A cancel whose archiving failed is published again by its retry, since the
  archive is what recognises replays (`service.go:546`).
* A query page that reopens a rejected order leaves its reject code: the CASEs of
  `reject_code` and `reject_message` lack the `relay_reply_status` branch of the
  status columns (`sql.go:173`), while docs/REDIS_LEDGER_SYNC.md:146 has query
  pages correct stale reject fields.
* A completed last page deletes the positions of a first page whose statements
  failed: the deletion goes by time, not by what the query returned
  (`ledger_sync.go:332`).
* A worker crash archives the replies of a recovered query again, one by one,
  and for a moment the completion precedes the interruption: the verdict is
  `invalid`, on which the job gives up the account (`repository.go:2360`,
  `common.py:1007`).
* A failed capture of an account is a warning of a completed response; only the
  pipeline script, not the job's own status, leaves the account out
  (`server.go:4324`).
* A terminal report assigns `cum_filled_qty` outright and may lower it
  (`sql.go:123`).
* The cursor and the checkpoint pass entries whose statements failed
  (`ledger_sync_loop.go:170`), those that could not be archived included; and
  the first real fill removes a summary fill even when the summary stood for
  more (`repository.go:1511`), so after a failed fill entry a filled order may
  be left with fewer fills than lots.
* With a debounce that is not shorter than the cooldown the two refreshes of an
  account per cooldown become more: every request of a burst may then replace a
  timer that has just fired.  The configuration accepts such values
  (`config.go:383`); the defaults are 2 and 20 seconds.
* Two refreshes of an account may run within one cooldown, and a timer whose
  entry the fired one deleted is not stopped by `Stop`, only silenced
  (`auto_refresh.go:130`).

Performance:

* A review reads the NAV and its record, decides, and writes both; a
  reconciliation in between is overwritten, so that a blocked or over-threshold
  record may be confirmed without force (`service.go:895`;
  docs/PERFORMANCE_ANALYSIS_DESIGN.md:649).
* The look for a missing day trusts the calendar: without one, or when it does
  not answer, no gap is reported, and a NAV (`service.go:1635`) or a cost row
  (`cost_ledger.go:614`) continues an older day over the missing one and is not
  blocked, while docs/BROKER_PREOPEN_RECOVERY_20260921.md:54 and
  docs/PERFORMANCE_ANALYSIS_DESIGN.md:828 have it blocked.  `NavBook` and
  `CostLedger` do so when `calendar` is false.
* The entries of a day are summed whatever their time (`service.go:499`).  A
  deposit before the open snapshot is in the opening already and is deducted
  from the gain of the day again; its residual blocks the day, although
  docs/PERFORMANCE_ANALYSIS_DESIGN.md:571 says that it is not.  Deposits and
  income after the close capture likewise leave a residual on the day they are
  entered under and one on the next.  `EconomicNav` does so; `ResultsAddUp`
  covers such days, `NoFalseAlarm` excepts them (`Bridged`).
* Three errors leave no residual (`Shown` in `EconomicNav`): income or a
  settlement outside the snapshots that is forgotten or entered twice, a
  settlement entered as a general adjustment, a part of a settlement that
  releases the whole estimate.
* If the reverse repo accruals cannot be read, the day is valued as one without
  repo and its status does not say so (`service.go:1569`).
* A cost row without a fee rule is an estimate, but the day after continues it
  as calculated (`cost_ledger.go:222`).  A day without a Meridian close or, at
  the inception, without a previous close is blocked, and the chain with it
  (`cost_ledger.go:436`, `cost_ledger.go:596`).
* The inference of the repo principal leaves out the ETF estimate and receipts
  after the close, which can block a day for no reason as long as there is no
  broker statement; a forgotten movement of the size of the principal is taken
  for the principal (`service.go:1505`).
* A forgotten or doubled receipt after the close is not noticed on the day; with
  a broker statement an unrecorded deposit only raises the residual flag.
* Two missing reports that cancel out are not noticed by the cost ledger; a flat
  day without rows makes the next day a gap
  (docs/PERFORMANCE_ANALYSIS_DESIGN.md:828); a fund that was held overnight and
  redeemed has no defined cost afterwards.
* `t0ActualExecutionFee` counts the fee of an order in each group its sale
  serves, and of several fills with fees only the first
  (`contributions.go:1199`); a lost sale of a component that was also held can
  hide behind a linked one.

## 7. Not modelled, and the plan

The other snapshot types and the daily jobs that drive them one after the other;
migrations (a loop at the start of the program, one transaction per file).  Every
safety property of the runs that compares no folds is proved.

Left out for good: rendering, configuration parsing, the portal, the request
wrappers of the SDK, the market data client, stream observability and the
statistics of trade quality.  They keep no state and order no effects; what they
may fail to deliver is an input of the modules above.  Decimal arithmetic and
rounding are left out everywhere: amounts are integers.
