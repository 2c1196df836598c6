# TLA+ models of MeraIPO's back end

MeraIPO tracks Indian IPOs.  A FastAPI service and Celery workers share a PostgreSQL
database and a Redis server; a Next.js site reads the API.  The worker fetches from the
exchanges (prices, financial results, IPO data), publishes what it has validated, and sends
mail through Amazon SES.  The hard part of the program is not what any one of these steps
computes but what they do to each other: two Celery workers, beat, a command line, several
API processes, SES and administrators change the same few rows, with crashes, time limits,
redelivered messages and lost answers in between, and nothing but leases, row locks,
conditional updates and short-lived Redis keys to keep them apart.  That is what these
modules are about.

All paths below are relative to `src/`.

## 1. The system

| Component | State it keeps | Operations | Hard because | Correct when | Module |
|---|---|---|---|---|---|
| **Market job queue** (`apps/worker/market.py`, `exchange_pipeline.py`, `tasks.py`, `scheduling.py`; `apps/api/job_routes.py`, `result_routes.py`) | `data_import_runs`, the lease row `market-writer` of `job_locks`, Celery messages | minute tick, weekly history, admin dispatch and CLI insert runs; deliver, wait, claim, finish, cancel, recover; admin publication of a filing | at-least-once messages, publications without an answer, chains, lease by clock, time limits, check and claim in separate transactions | one writer; runs start once, in order; outcomes stand; nothing queued for ever | `MarketQueue` |
| **Schedules** (`packages/shared/job_schedules.py`, `apps/worker/scheduling.py`; `apps/api/market_routes.py`, `job_routes.py`, `result_routes.py`) | controls, sources of results, claimed slots | save, pause, enable, claim, next slot | one schedule in two rows; the label is a search, the decision a comparison | the label is the next minute claimed; the two pages agree | `Scheduler` |
| **Staging and publication** (`apps/worker/exchange_pipeline.py`, `market.py`; `apps/api/main.py`) with **IPO lifecycle** (`packages/shared/ipo_lifecycle.py`) | staged rows, IPO records, snapshots and summaries of demand, closes | collect, publish in batches, reject, retry, link, select a provider, reconcile the lifecycle | several providers about one issue, rows published late, in batches and again | newer replaces older only, listed stays listed, summaries are of their source, staged issues and demand are decided | `StagePublish` |
| **Daily closing prices** (`apps/worker/bhavcopy.py`, `packages/providers/bhavcopy.py`, `apps/api/bhavcopy_routes.py`) | originals on disk and their rows, closes, revisions, summaries | preview, import, correct, summarise, clean up | disk and database are not one transaction; order of days and exchanges; two processes in one directory | originals stay seven days; the summary is the latest close of its exchange; no price is lost | `DailyCloses` |
| **Financial results** (`apps/worker/results.py`, `bse_results.py`, `company_results.py`; `apps/api/result_routes.py`) | filings, attachments, revisions | discover, register, select, download, parse, publish, review, map, upload | a commit after each original; statuses written from an old load; revisions in any order; a batch by age | the latest announcement is current; what is published is kept; what waits is processed, but for named exceptions | `FilingPublication` |
| **Sign-up** (`apps/api/email_routes.py`) | subscribers, staged profiles, confirmations, row locks | subscribe, confirm, unsubscribe, SES events | opposite lock orders; read, then insert; links that stay in the mailbox | one usable confirmation; no change but by a link | `Subscription` |
| **Opening-day digests** (`packages/shared/email_digest.py`, `email_preferences.py`) | campaigns of a day, their members, their deliveries | snapshot, batch of 200, change of preference, cancellation | batches, crashes and changes of preference between them | one mail a day, nobody starved | `EmailDigest` |
| **Email outbox** (`apps/worker/email_alerts.py`; `apps/api/email_routes.py`, `email_admin.py`; `packages/shared/email_alerts.py`, `email_policy.py`) | `email_deliveries`, `email_controls`, consent | tick: lock, maintain, prepare, select, send each; SES events; switches, tests, retries | `send-email` is not idempotent and its answers get lost; switches and consent are read before the request | never sent twice; stops obeyed; feedback never overwritten; nothing stuck | `EmailOutbox` |
| **Public cache** (`apps/api/cache.py`, `apps/worker/tasks.py`) | Redis: generation, dirty marker, writer lock, entries | read through; commit with invalidation | commit and invalidation are not atomic; the lock expires; readers are slow | what was promised is what every later read shows; staleness is bounded | `CacheCoordination` |
| Curated records (`apps/api/services.py`, `main.py`) | companies, quarters, GMP | single-transaction upserts | provenance | curated values survive providers | part of `StagePublish` |
| Feedback, read side, sessions and feature switches, schema, templates, web front end | none, or single reads and writes | | | | not modelled: section 8 |

How they meet: the scheduler decides *when* a job is due, the queue that it runs once, in order and
alone; the jobs it runs (closing prices, results, staging and publication) commit through the public
cache's protocol; publication makes IPOs open, which makes digests, which are deliveries of the
outbox; sign-up inserts confirmations into the same outbox, and SES events come back to subscribers.
Leases (`job_locks`, `email_controls`, the Redis lock `cache:writer`) are the only mutual exclusion
between processes that lasts longer than a transaction, and all of them expire.

The modules compose by promises: `DailyCloses`, `FilingPublication` and `StagePublish` take one job at a
time for granted, which is `SingleWriter` of `MarketQueue`, and leave what administrators do beside the
lease in; `EmailDigest` takes one dispatcher for granted, which is `OneDispatcher` of `EmailOutbox`; and
`EmailOutbox` takes a sign-up for one step, which is what `Subscription` shows lock by lock.

`PROJECT.json` lists the hazards that follow from this, each at its line, with the
properties that watch it.

## 2. Modules

| Module | What it is |
|---|---|
| `MarketQueue`, `MarketQueueInvariant`, `MarketQueueProofs` | the queue, its inductive invariant `IInv`, proofs for every number of runs, batches, workers and CLI processes |
| `SerialWriter`, `MarketQueueRefinement` | what the queue promises (a sequence of runs, started in order, one at a time) and the refinement mapping, whose proof is in `MarketQueueProofs` |
| `Scheduler`, `EmailDigest`, `TickProofs` | what ticks claim: schedules, slots and labels; the digests of a day.  Proofs for every calendar and every number of subscribers |
| `StagePublish`, `StagePublishProofs` | staged rows and the public tables they become; proofs for every number of issues, providers and rows |
| `DailyCloses`, `DailyClosesProofs` | originals, closes and what is derived from them; proofs |
| `FilingPublication`, `FilingPublicationProofs` | filings, originals and revisions of one company and period; proofs |
| `RevisionHistory` | what readers of a period are promised: a history that grows at its end; `FilingPublication` holds the mapping, `FilingPublicationProofs` the proof |
| `Subscription`, `SubscriptionProofs` | double opt-in with PostgreSQL's row locks; proofs |
| `EmailOutbox`, `EmailOutboxInvariant`, `EmailOutboxProofs` | deliveries, dispatchers, SES, subscribers, administrators; proofs |
| `CacheCoordination`, `CacheCoordinationInvariant`, `CacheCoordinationProofs` | readers, writers, Redis and time; proofs |
| `MC...` | the small instances of a module for TLC |

A definition whose comment begins with "Faulty:" is not used by any specification.  Each is the form
that a plausible slip would give the definition after it; with it in place, the property named in
`PROJECT.json` fails.  They document that the properties can tell the code from its near misses.

## 3. How state and actions correspond to the code

One action is one database transaction, one call of Redis, or the part of a transaction between two
statements whose order with other processes' transactions matters.  Where time decides, it is
discrete: `Tick` advances every age, and ages saturate where no comparison can tell them apart any
more.  `PROJECT.json` ("map") gives the lines of every definition.

**MarketQueue.**  A run is a row of `data_import_runs`; its identifier is its place in the
order `(created_at, id)`, which is also the order of the inserts.  `Via` says who inserts it:
`claim_due` commits all due slots of a minute in one transaction, `results_history`, the
by-date requests and the dispatch endpoint commit run by run, so the rows of two producers
interleave.  `Head` is the Celery chain a run belongs to; the next message of a chain is sent
by the task before it, and only when that task succeeds (`Forward`).  A publication that raises
(`PublishFails`) says nothing of the message: the broker may have taken it.  The producer's handler
then writes FAILED (`Disown`), over whatever the rows say by then: a worker may have claimed, finished or failed
them in between.  `Deliver` is
`market_job` reading the row, `WaitForEarlier`/`TakeTurn` the FIFO check, `Claim` the
transaction with `acquire` and the `QUEUED -> RUNNING` update, `ClaimRefused`, `WaitForLease`
and `Skip` its early returns, `Finish` the final commit.  `leaseAge` is counted from
`lease_now`, the *start* of the transaction that took the lease, which is why `LeaseFree` has
the caller's own age in it.  Kinds: "scheduled" (the five primary jobs), "pipeline" (the other
jobs of `run_pipeline`) and "legacy" (`run_job`'s own, which set RUNNING unconditionally; no run has
one, the theorems do).  Abstracted: which job it is and what it imports, the admission checks of the
admin API, the 15 seconds between retries, copies of a message (a set of messages stands for the broker).

**Scheduler.**  A time is a number of minutes in a calendar with as many days, hours and minutes as the
constants say.  `control` is the row of `scheduler_controls` that `SaveSchedule` and `Pause` write,
`parent` the pause of the combined job, which a job without a row of its own inherits, `source` the
`result_sources` row of an exchange, written by `Configure` and entered by a scan's first run
(`EnterSource`).  `State` is `schedule_state`, `IsDue` and `NextSlot` the two computations of
`job_schedules.py`, translated separately.  `Claim` inserts the runs of a minute (ON CONFLICT DO
NOTHING), and `Minute` passes with or without a tick, because a slot is claimed at the minute the task
executes.

**StagePublish.**  One issue, seen by several providers that may disagree about which company it is:
a company is named by who created it, and `link` is the identifier table.  `Collect` is a run's
fetching transaction: it stages what the provider says unless the same content is staged already.
`PublishJob` is `publish_pipeline`: it selects the oldest rows of its kinds up to the batch, publishes each
in its savepoint (`Published`: rejections, fallbacks, conflicts, curated values), then reconciles every
lifecycle.  A batch is a set taken in the order of creation and published in another (`Turn`): kind by kind, NSE's
rows before BSE's, so that NSE stands when both report a day (`Replaces`) and BSE's row is a fallback.  A collection whose publication never happens is a `Collect` alone.  The daily job
publishes what is staged of issues and demand (`IssueKinds`); staged prices are published by an administrator, since the
scheduled price jobs import daily files instead.  An observation has an `Authority`: an exchange, or a feed whose prices are
licensed or unofficial.  `RetryRejected`, `Link` and `SelectProvider` are the administrator's.  Abstracted: a value of each field is a number, the bidding
window is the same for everyone, demand is one total.  Events, quotes and exclusions are left out.

**DailyCloses.**  `parse` and `preview` are translated as operators over a set of rows, with the
code's rules (a security on two rows, an invalid one included, has no price; a row that two companies
match has none), and `Content` is what any file can amount to; the inputs of an import are all of them.
An import is four steps: the row is chosen, the file fetched, its original written to disk (which no
rollback undoes), the database transaction committed.  `Killed` may come between any two.  The
clean-up, run by jobs and by previews, is two: unlink, then commit; when the second is lost, the next clean-up finds the row again.  `aged` are files more than seven days old.

**FilingPublication.**  One company, one period.  `way` says how a filing comes to be found: announced by its exchange, in
BSE's history of a company or list of a day, on the company's own page, or registered by an administrator, as a link of the
exchange or of that page.  It decides whether there is a date (`Announced` is 0 on a company's page and in BSE's history) and
which run processes it.  `created` is the order of `created_at`, `docs` what is behind a filing's links.  `store_filing` is `Store`; a run
selects (`Select`), skipping what may not be retried yet and what comes from a company's page (`Skipped`), and for each filing
handles the originals one by one: `NextOriginal` commits the one that arrived together with what the previous one (`content`)
did to the results, which is where the code commits.  Links of a company's page are processed by the run that finds them
(`DiscoverOfficial`, `RetryOfficial`).  An original may not arrive (`DownloadFails`; a denial ends a run of BSE, at once and
again whenever it reaches a filing that keeps the error: `denied`), arrive and be refused (`Refused`), or take up the time for
attachments (`TimeIsUp`).  `stored` are the originals kept, with the link each came from: an upload may be any body, and stands
for the link only of a row that was registered with one.  `seen` is the status as the run loaded it
(`expire_on_commit=False`): SQLAlchemy writes a status only when it differs from the loaded one, which
is `Write`, and administrators map, upload and publish in between.  `Published` is `publish`, with
`Publishable` its three refusals.

**Subscription.**  Each request is a transaction that takes its row locks one by one; what it writes is
visible with its last step.  `Step` is a statement that can proceed; a deadlock is found by PostgreSQL and
aborts one of the waiters (a step of its own), `Killed` drops a connection and its locks.  A link request locks the
mail's row and then the subscriber, `subscribe` the subscriber and then the row of a mail it has found.  `old` is
the 24-hour window.  Profiles are model values; the encryption of a staged one is left out.

**EmailDigest.**  The state is that of one day, since rows of other days play no part in a query of
this one; `NextDay` empties it.  `TakeSnapshot` writes the campaigns of every band in one transaction, `FillBatch`
one band's members and rows inside the batch transaction, which `CommitBatch` ends and `LoseTick` rolls
back.  `Send` hides the outbox: what it does with a row is its own module's concern.  `Confirm` and `Leave` are
the changes of preference with their cancellations, `PrepareAlert` the older listing alerts.

**EmailOutbox.**  A row is an `email_deliveries` row of kind TEST, VERIFY or ALERT with a fixed
recipient.  `Lock` to `FinishTick` are the transactions of one `email_tick`; between `PassGate`
and the recording of an answer each read the code makes (switches, row, subscriber) is a step
of its own, because everything it has read can change before the next.  `Request` and
`SesAnswers` are separate: SES may accept a mail whose answer is then lost (`RecordUnknown`),
or after its sender has died (`lingering`, `LateAcceptance`).  `TickFails` is an exception or
the soft time limit, `Killed` the hard one.  `Ingest` delivers any SES event for a row, any
number of times.  A tick takes as many rows as SES leaves of
its quota, none when readiness could not be established (`Select`, `Take`).  Eligibility of an alert (schedule, digest content,
GMP band) is a choice (`Withhold`, `Defer`), as is everything `production_checks` looks at besides the two switches.
`late` counts the requests that begin after a stop came into force, and exists for
`StopIsPrompt` only.

**CacheCoordination.**  The catalogue is the number of commits it shows.  A reader is a call
of `cached`, a writer a call of `commit_with_invalidation` or a `meraipo.refresh` task, which
follows the same protocol; each call of Redis is a step and may fail (`Fault`), with or without
having had its effect, which is what sends a reader to the database and leaves the marker to
expire.  A writer may take longer than its lock and its marker live
(`CommitLimit`), so that two overlap, and one deletes the marker of the other.  `published` is the version that readers are
promised: a commit is promised at once when there is a marker that no other writer is about to delete (`Covered`), else by the
increment of its writer (`Increment`); `floor` is what was promised when a read began.  `CommitFiling`
is the commit that `process_filing` makes in the middle of a run, without the protocol.  One key stands
for the catalogue of a day; a read of several queries shows its oldest state.  Not modelled:
a Redis server that loses its data.

## 4. Runs

| Run | Instance | States | Shows |
|---|---|---|---|
| `queue_order` | a history chain with a tick's run created between its members, two workers, any two faults of seven kinds | 848,737 | one writer; a live run's row says RUNNING or what its producer reported; runs start once and in the order of their creation, although messages arrive in another; outcomes stand but for that report; implements `SerialWriter` |
| `queue_live` | a tick's run, a manual run and the command line's combined job, one worker loss or late failure | 49,154 | every run leaves the queue, every started run ends; one writer beside a command line that outlives its lease |
| `queue_chain` | two runs of a tick and a manual one, no fault but the time limit | (violation) | section 7 |
| `outbox` | one test mail, two processes, two attempts, two faults | 34,520 | one dispatcher; accepted at most once; the queue holds only unsent mail; feedback stands; sends are reconciled, tests are decided if the quota comes back |
| `outbox_stops` | an alert and a confirmation to one subscriber in one batch, one fault | 625,824 | after a stop at most one more mail |
| `cache_fresh` | two readers, two writers that may outlive their lock, one fault, two commits | 5,794,486 | fresh reads, commits that overlap only past a lock's life, the marker covers old entries, bounded staleness |
| `subscription` | two connections, one address, two mails, two profiles | 199,985 | one usable confirmation; nothing but a link activates |
| `digest` | two subscribers, two bands, batches of one, one lost tick | 282,892 | one mail a day; everyone who waits is served |
| `closes` | one company on two exchanges, two days, two prices, two originals | 397,196 | what rows say of the disk is true, summaries are the latest close, history is kept |
| `filing` | three filings at a time, of six, batches of two, one interruption or crash | 120,804 | revisions ascend, what is published is kept, filings are tried but for three exceptions; implements `RevisionHistory` |
| `stage` | five providers, observations of every kind about one issue, three staged rows, batches of one | 199,490 | a listing and NSE's close stand, terms are replaced by newer ones, summaries are of their source, issues and demand are decided |
| `scheduler` | a scan and a price job, five schedules, weeks of two days of four minutes | 81,514 | the label is the next claim, two pages agree |

*Bounds.*  The durations that decide the properties are scaled, with the code's inequality kept
at its tightest: task limit 300 s ≤ lease 6 min and recovery 10 min become 2 ≤ 2 ≤ 2; the tick's
240 s ≤ 5 min ≤ 15 min become 1 ≤ 1 ≤ 1; `cache_ttl` 60 s plus a load ≤ 300 s become
1 + 1 ≤ 2, and 120 s ≤ 300 s become 2 ≤ 2; a refresh, which may take 300 s, takes up to 2 as well, so that the lock of
a writer at work expires.  Equality is the case without slack.  Two processes are enough for what expires under a first one to be taken by a second;
three runs are what order needs (one running, one waiting, one arriving); a third reader or
writer repeats what two do.  No sign-up transaction locks rows of two subscribers, so one address has
every conflict that two connections can have.  Batches of one or two put the boundary of a batch (200 subscribers, 15 filings,
1,000 rows) between the members of each instance that has one: two bands and subscribers, three filings of BSE, three staged rows.  Two days and two exchanges give an import before, after and
beside another; two originals a clean-up beside an import.  Of the six filings three exist at a time, in one of three ways: two of NSE and one of BSE that was
registered, which are a revision and a confirmation or a conflict, with an original that is a PDF and one that is
refused; a link found on the company's page, one of it that was registered and a filing without links, to which administrators
upload; and three of BSE, one more than a batch.  Three staged rows are an old one, a new one and one behind both, and the
observations hold, for each rule of `publish_pipeline`, one that it accepts and one it does not.  The calendar is small, but has an
hour, a day and a week to carry over, and `Saved` has each frequency, several times, and a time at each end of the day.
Faults are bounded because each can be repeated for ever; two let
one recovery be interrupted by the next failure.  Every bound is a constant of its module
(`MaxFaults`, `MaxLost`, `MaxVersion`, `MaxTries`, `MaxNow`, `MaxRows`, `StatementLimit`), and the theorems of section 6 hold
for every value of those in their modules (`Scheduler`'s for every calendar).

The instances were chosen so that the interesting cases occur: `PROJECT.json` ("mutants") gives
for each property of each run a slip in the code that makes the run fail.  The history chain is
there for the FIFO check: within one tick's chain, Celery alone keeps the order.

*Deadlock* is checked in the runs of the queue, the outbox, the cache, the scheduler and `stage` (where its bound on
time leaves the administrator's steps).  `subscription`, `digest`, `closes` and `filing` switch it off, because
they really may stop: all mails used and every subscriber left; every identifier of an original used; every filing
published and no administrator about.  In `digest` and `filing` a liveness property says what must not stop.

## 5. Fairness

*Queue* (`FairSpec`): beat runs the recovery every minute; a producer that has committed its
rows sends; a transaction ends.  Strong fairness for the passing of time, because tasks retry
again and again but 15 seconds apart; for the delivery of a message, because the broker is a
list and overtakes nothing for ever; and for the claim, because PostgreSQL queues those who
wait for a row lock.  `queue_live` has none of the faults that lose a message: with a failed
publication of a retry, a lost producer or a chain broken by a time limit a run does stay
QUEUED, and later scheduled runs wait for it (section 7).

*Outbox*: beat starts a tick every minute (strong fairness of `Lock` by some process, and of
time); a dispatcher at work goes on; retry times come; administrators do not move a retry
into the future for ever.  `SendsAreReconciled` needs no more.  `TestsAreDecided` needs an assumption about SES that no code
can give, `QuotaReturns`: the daily quota is not used up and readiness not missing for ever, so that a row which is due at tick after tick
is among those taken by one.  Nothing is assumed of answers, events, subscribers or switches.

*Digests*: a tick starts every minute and, unless it is killed, finishes its batch.  `MaxLost` ticks may be
killed.  Nothing is assumed of the outbox beyond that, or of administrators.

*Results*: the runs of an exchange are enabled and scheduled every day, in its own slot, and a run that is
not broken off goes on (weak fairness of `Run`).  Strong fairness of each exchange's `Select`, because a company's tracking may
change between two runs, and because BSE, which limits its clients, does not limit every run before it takes its filings; of `RetryOfficial` for
the same reasons, and because a page that lists a link goes on listing it.  Weak fairness of `Due`: retry times
pass.  Nothing is assumed of downloads (a source may be down, or deny an original, for ever), uploads or mappings.  `Killed` is bounded, and
so is `TimeIsUp` unless a filing ahead is being downloaded again and again, whose source may take up the time of every run.  What
can keep a filing waiting all the same is named in `FilingsAreTried`: a batch full of earlier ones (`BatchIsTaken`), one ahead
that is retried for ever in a run that it breaks off or delays (`Delayed`), and a link of the company's page that an
administrator registered, which is taken by no run (`Unreached`).

*Staging*: the daily job publishes issues and demand again and again while its batch has a row to decide (`Scheduled`, weak fairness
with ENABLED written out).  Nothing is assumed of staged prices, which no schedule publishes (section 7).

The sign-up, the cache, the closing prices and the scheduler have no liveness property.  PostgreSQL grants
row locks and ends deadlocks; the rest of theirs does not wait for anything.

## 6. Proofs

TLAPS checks the following for every value of the constants that the named assumptions allow.

| Theorem | Module | Needs |
|---|---|---|
| `Invariant`, `TypeCorrect`, `WriterIsSingle`, `LiveRunKept`, `RunsStartInOrder`, `RunsStartOnce`, `OutcomesStand` | `MarketQueueProofs` | `TimeAssumption`: the task limit is at most the lease and the recovery time |
| `QueueIsSerialWriter` | `MarketQueueProofs` | `Limited`: no legacy job, no CLI process |
| `Invariant`, `TypeCorrect`, `DispatcherIsSingle`, `AcceptanceIsSingle`, `QueueIsUnsent`, `StopsArePrompt`, `FeedbackKept` | `EmailOutboxProofs` | `LimitAssumption`: the tick's limit is at most the lease and the stale age |
| `BaseInvariant`, `TypeCorrect`, `StalenessBounded`, `Invariant`, `ReadsAreFresh`, `CommitsAreSerial`, `MarkerCoversOldEntries` | `CacheCoordinationProofs` | `LifeAssumption`: the marker outlives an entry and its loading, and the lock; nothing of how long a writer takes |
| `Invariant`, `ConfirmationIsSingle`, `LinksAloneActivate` | `SubscriptionProofs` | nothing but that None is none of the values |
| `Invariant`, `OriginalsAreKept`, `SummariesAreLatest`, `PricesAreKept` | `DailyClosesProofs` | the same, and at least one day |
| `Invariant`, `RevisionsInOrder`, `PublishedStands`, `PeriodIsRevisionHistory` | `FilingPublicationProofs` | the types of its constants |
| `Invariant`, `SchedulesAgree`, `LabelIsNextDue` | `TickProofs` | `CalendarAssumption`: a day, an hour and a week have at least one part |
| `DigestInvariant`, `OneMail` | `TickProofs` | the types of its constants |
| `StageInvariant`, `StageTypes`, `DaysAreOfSource`, `NseStandsForItsDay`, `ListedStays`, `TermsAreNewer` | `StagePublishProofs` | the types of its constants, and a window that opens before it closes |

*Queue.*  That one worker writes cannot be shown from the lease alone: the lease says who took
it, not who is alive.  `LeaseInv` ties the two together: while a worker writes, the owner is its
run and the lease is exactly as old as the task, so it cannot have expired for anyone before
the task limit kills the worker.  `RowInv` says the same of `updated_at` and the recovery, and that the only other thing a live run's row
can say is FAILED, by its own producer (`Reported`): a report comes once, after the publication that raised, and never of a history
chain, whose producer has no handler.
Order needs `TurnInv` (once a run has its turn nothing before it can be QUEUED again) and
single starts `BeganInv` (no message brings a started run back to QUEUED); both rest on `SentInv`,
that nothing is inserted into a batch once the broker was asked to take its message, whatever it answered.  The refinement maps a run to
"active" only while a live worker writes it, so an abandoned RUNNING row is over already and its
recovery is a stutter.

*Outbox.*  "At most one acceptance" is a statement about three places where a request can be:
with a live dispatcher, with nobody (`lingering`), or over.  `ClaimInv` says that a row that is
claimed was in none of them before, `RowInv` that a row in one of them has a status that is never
sent again; both need the single dispatcher (`LeaseInv`).  `StopInv` counts: after a stop, the
only dispatcher that can still send is one already past the read that would have noticed.

*Cache.*  `FenceInv` is unconditional: a live marker outlives every entry and every entry that a
reader who saw no marker may still store, since that reader is younger than `LoadLimit`.  `SinceInv`
bounds the age of everything loaded or stored by the time that has passed since the commits it
lacks; expiry keeps the sum constant.  `CurrentInv` says that whenever readers
trust the cache — no marker, or the generation has just changed — the current generation has
nothing older than what is promised, now or later; `NotOlder` includes what a slow reader will
store.  That it survives writers who overlap rests on what a promise is: whoever commits without a marker that stays
promises nothing before the increment, after which every entry of the new generation is loaded anew.  `FloorInv`
carries the promise through one read, call by call, and `LockInv` that only time takes the lock from a writer.

*Sign-up.*  `OneOutstanding` is not inductive: an insert could add a second confirmation.  `Working` says what
the request that is about to insert knows: it holds the subscriber's lock since before it looked, and it
found none.  `KnowledgeKept` shows that no other request can make that untrue without the lock.  That links
alone activate then follows step by step, because the only step that activates is a confirmation that
consumes the mail whose lock it holds.

*Closing prices.*  Two processes share a directory: `Working` says that the name of the original each holds is
its own and not yet in the database, so that the other's clean-up, which goes by rows, leaves it.  A row whose original is gone
is one that a clean-up has in hand, has recorded, or will select again, since a rollback leaves it expired.  The
summary needs that a set of days has a last one (`Largest`, from well-founded induction), because the code takes it by
ordering.  History is an action property, proved from the types of what is written.

*Results.*  A run reads an original one commit after it has stored it (`InHand`), and decides on a status it
loaded long before.  What keeps "published" from being said of a filing that nothing names is that the run writes only what it
changes (`WriteEffect`); what keeps the order is that nothing without a date is published (`Dated`) and that the way a filing was
found never changes (`WaysStay`).  `Kept` says where originals come from: a filing's links or its uploads.  Every step is shown
to leave four things true (`ResultsStand`, `OriginalsStay`, `WaysStay`, `PublishedAreNoted`), and `ResultsPreserved` derives the
invariant from them once.  For the refinement a step publishes one original
or nothing (`NextPublishesOne`), and by the invariant the only current revision is the last, so that publishing confirms it or
follows it.

*Scheduler.*  `TimesAgree` needs `ConfiguredIsEntered`: a scan that has times of its own has an exchange with a
row, so that a first run cannot enter one with another time later.

*Labels.*  `NextRunIsNextDue` is a fact about one state and needs no strengthening, but the whole of the calendar:
the code looks for the next slot a day at a time, eight days far, and `IsDue` asks a minute what it is.  `NextOfDays` shows that eight
days suffice (a weekday returns within seven: `WeekdayComes`) and that the first day with a later time has the least one;
`Compose` and `Divide` say what a minute's day, hour and weekday are, which Z3 does not find by itself.

*Digests.*  A mail is delivered once a day although the batch is filled before it is committed.  `RowsAreNew` says
that the rows in hand are of nobody who has one today, `MailsAreRows` that a mail of today is a row of today: the row is what
excludes the second mail, whichever tick was lost in between.

*Staging.*  A publication is not one step to reason about but a sequence over a batch, each row from what the last one left
(`After`, a recursive function).  What one row cannot undo is `RowKeeps`; that a batch then cannot is `BatchKeeps`, for the least row of a
batch that undoes it would have a predecessor that does not, and `AfterIsDefined` shows once that the recursion is one.
`ListedStaysListed` is not inductive, since the lifecycle is computed anew in every publication: `ListedIsProved` adds that a
listed issue which has a source has a reason that the computation will find again.  `NewerReplaces` composes the rows' steps
(`Follows` is transitive).

One premise about the cache is not enforced by the code, `LoadLimit`: a reader is done within 240 s (the marker's
300 less the entry's 60) of its first call.  Redis calls end after a second; the queries of the
catalogue take far less than that, but nothing cuts them off.

*Only model-checked.*  The liveness properties (`QueuedRunsLeaveTheQueue`, `StartedRunsEnd`,
`SendsAreReconciled`, `TestsAreDecided`, `EveryoneIsServed`, `FilingsAreTried`, `StagedIsDecided`), which
TLAPS cannot prove under fairness.  Every invariant and every action property of the runs is proved.

## 7. Where code and documentation disagree

`queue_chain` shows one: `docs/job-operations.md:32` says that a run starts when its turn arrives and that a
failed predecessor does not block, but a task that is ended by its time limit sends no next message of its
chain (`apps/worker/tasks.py:146`); its successors stay QUEUED, and everything later waits behind them until an administrator
cancels the runs left behind.

Others were met while modelling and have no run of their own:

* `docs/job-operations.md:36`, an atomic transition prevents a cancelled run being executed: legacy jobs set RUNNING
  whatever the row says by then (`apps/worker/market.py:550`).  `OutcomeStands` excludes them.
* `docs/job-operations.md:29`, the lease prevents concurrent publication: the command line is not limited and does not
  renew its lease (`apps/worker/bhavcopy_cli.py:93`).  `SingleWriter` is about the workers; the theorems show that theirs
  survives a command line that overruns.
* `docs/job-operations.md:38`: the weekly history task has no handler around its publication
  (`apps/worker/tasks.py:244`), so a broker failure leaves its runs QUEUED instead of FAILED; `Disowned` has it.
* `packages/shared/job_diagnostics.py:27`, of a run that is FAILED with QUEUE_UNAVAILABLE, "The request was not delivered": a publication
  that raises may have been delivered, and the producer overwrites the row of a run that a worker has begun or ended
  (`apps/worker/tasks.py:148`, `apps/api/market_routes.py:122`).  `OutcomeStands` and `LiveRunIsRunning` allow that one report.
* `docs/email-alerts.md:54`, disabling pauses queued mail but for a request in progress: the switch is last read before the
  claim (`apps/worker/email_alerts.py:268`), and the mail in hand is still requested.  `StopIsPrompt` is what holds.
* `apps/api/cache.py:43`, commits and invalidations are serialized: the lock expires after 120 s without renewal
  (`apps/api/cache.py:51`), while a refresh may hold it for up to 300 s (`apps/worker/tasks.py:103`).  `SerialCommits` says that
  two overlap only then, and `FreshReads` what is left: a commit of a writer whose marker was deleted by another, or has
  expired, is seen from its increment on, and until then what is cached may be served.
* Each filing of a results run is committed without an invalidation (`apps/worker/results.py:242`), which only the run's
  final commit makes up for; `CommitFiling` has it, and `StaleIsBounded` says for how long.
* `docs/financial-results.md:50`: a filing that is being retried and has nothing but PDFs keeps its status
  (`Outcome`), instead of being put up for review as on its first attempt.
* `docs/exchange-pipeline.md:24`: the summary of a day is the latest snapshot of its own provider, not the latest demand of
  all providers; `DayIsOfItsSource` says so.
* `docs/market-data.md:69`: when a later filing reports the facts of the current revision it is only noted; the revision keeps the
  announcement it had, which `RevisionsAscend` compares with.
* `docs/bhavcopy.md:4`, originals older than seven days are cleaned: the clean-up goes by rows, so a file whose transaction was rolled
  back stays on disk for ever.  `OriginalsExist` is about the files that rows name.
* `docs/market-data.md:64` offers licensed and unofficial price feeds: what they stage waits for an administrator, because the scheduled
  price jobs import daily files (`apps/worker/exchange_pipeline.py:741`); a close of theirs that says the same as NSE's and is as new may stand in its place.
  `StagedIsDecided` leaves staged prices out, `NseCloseStands` names the case.
* `docs/market-data.md:105`: what is staged is compared with what was staged before by content, not by time, so that a value that
  comes back after another one is not staged again.

What the modules name as exceptions, because the code has them: fifteen filings that wait for a retry keep
later ones from being selected, even before their retry is due (`BatchIsTaken` of `FilingPublication`); an original that BSE denies for
ever ends every run before the filings behind it (`Delayed`); a link of a company's page that an administrator registered is
skipped by every run (`Unreached`); two hundred subscribers whose digest of
the day was cancelled keep the rest of their band from one (`BatchIsTaken` of `EmailDigest`); and a profile staged into a mail
that is confirmed at the same moment is lost, without an error (`Restage`).

## 8. What is not modelled, and why

* *Read side* (`repository.py`, `analytics_routes.py`, `screener.py`, `calculations.py`): queries and
  formatting over committed data, without state of their own.
* *Administrator sessions, feature switches, CLI of the API*: single reads and writes; the email switch is part of
  `EmailOutbox`.
* *Feedback*: moderation states set one at a time by one administrator, and counters of Redis.
* *Providers*: HTTP clients and parsers of exchanges, GA4, SES and storage; what they return is an input
  of the jobs.  The rules of `parse` that decide which price a company gets are in `DailyCloses`; XBRL's arithmetic is not.
* *Schema, seeds, configuration*: declarations; the constraints that carry behaviour are guards above.
* *Templates, advertising images, web front end*: presentation.
* *Within modelled components*: the admission checks of the admin API; the back-off of a closing-price file that is not published yet
  and requests that span several days (each is a run of the queue); throttled and disabled sources of results and the length of their waits,
  several periods of one company; events, quotes, exclusions and NSE's list totals
  of the pipeline, a run that dies in the middle of staging one page, and two rows staged at the same time; the retention of SES events, the statistics of the outbox and the retirement of its `ipo_opening` rows;
  `add_quarter`, `add_gmp` and the legacy ingestion.

## 9. Plan

1. `EmailDigest` as an implementation of an abstract specification (a set of digests that are owed).
2. The back-off and the day ranges of the closing prices, and sources of results that are throttled or disabled.
3. Several companies in `StagePublish`, with the linking of two that turn out to be one.
