# Argos Career in TLA+

Argos collects job postings from several boards, removes duplicates, scores what
is left against a profile with a language model, and sends a digest to a Telegram
chat. It is one NestJS process (scheduler, REST and MCP) over one SQLite file,
plus CLI commands that open the same file from processes of their own, plus
collectors that run elsewhere and push what they found. This directory holds the
TLA+ specifications of the parts where that arrangement is hard to test: delivery
that must neither lose nor repeat a message, claims shared by processes that may
die, locks in memory and made of files, retries around a shared circuit breaker,
concurrent model calls with a cache, collection that must not lose a posting to an
outage, alerts about one's own silence, and the long chains of rules that decide
what a posting is worth.

Paths below are relative to the repository.

## 1. Inventory

| Component | State it keeps | Operations | What is hard | What makes it correct |
|---|---|---|---|---|
| Delivery operations (`src/persistence/infrastructure/delivery-operations-repository.ts`) | one row per digest (status, owner, lease) and one per chunk | prepare, claim, startChunk, confirmChunk, failChunk, markChunkUncertain, complete, release, reconcile | crashes between the send and its record; an answer that is lost; a lease that runs out; an operator in the middle; snapshots that are stale when used | nothing is lost; a chunk is not repeated without the operator; claims do not stay behind |
| Telegram notifier (`src/delivery/infrastructure/telegram-notifier.ts`) | one attempt's plan | notify, sendText, retry and classification of answers | every answer is one of "proven", "refused", "unknown" | unknown is never treated as either of the others |
| Digest (`src/delivery/domain`) | none | compose, render | a posting held back for several reasons; message-length budget | a section says what is so |
| Deliver pipeline (`executeDeliver`, `src/cli/main.ts`) | the run's local batch | claim, filter, rank, budget, score loop, ceiling, deliver, mark, release, finish | overlapping runs, stale claims, cancellation, partial failure at every write | one run per posting; a posting is retired only for a reason; a row that is opened is closed |
| Postings (`postings-repository.ts`) | postings with claim, failure count, notified and discarded marks | claim, release, recordFailure, markNotified, rescore, discard, upsert, markSeen | the columns are changed by runs, CLI and API independently | claims exclude, and are returned; a fact once learnt stays |
| Run rows (`runs-repository.ts`) | one row per run | start, finish, reads that steer later runs | rows left "running": nothing closes them | counters reconcile; an open row means a run or a death |
| Scoring batch (`api-scorer.ts`, `stage-a-extractor.ts`, `stage-b-matcher.ts`) | caches of extractions, partial and complete matches | two stages, a worker pool | workers left behind by a throw; resuming after a crash | no requirement is paid for twice but when it was lost or left to workers of an earlier run; only complete results are published |
| Scoring rules (`src/scoring/domain`, `src/profile/domain`) | none; the answers they judge are cached | check evidence, score, cap, gate, recommend | the same answers judged again in a later semester, with another profile | credit rests on the profile of that day; a better answer never hurts |
| Circuit breaker and retry loop (`circuit-breaker.ts`, `llm-output.ts`, `openrouter-client.ts`) | breaker state; two budgets per call | admit, answer, cool down | answers from before the circuit opened; a trial that ends oddly | never stuck half-open; bounded attempts |
| Pre-filter and ranking (`src/prefilter`) | none; what it judges changes under it | screen, rank, cap by origin | re-sightings, several sources, dates that are missing or implausible | an answer turns only for a reason of the rules; the budget goes to the best |
| Run lock (`run-lock.ts`) and scheduler (`scheduler.service.ts`), `RunsService` | locks by kind, cancel flags, cron jobs, the alert queue | tick, request, cancel, redeliver, back up | cancel racing the end of a run; two cycles redelivering at once; errors that leave a tick | locks match their holders; a cancel never reaches the next run; no alert is dropped unsent |
| Alerts (`scheduling/domain/alerts.ts`) | none: read from rows and timestamps | evaluate after each collection and delivery | skipped ticks, restarts, midnight, limits met exactly | silence of the alerts means that nothing is wrong |
| Collect and ingest (`executeCollect`, `executeIngestExternal`) | postings, run rows | query, screen, store, record, finish; ingest a pushed batch | cut-short answers, throws between two writes, overlapping runs, windows that depend on earlier rows | no posting is lost to an outage, counted or reported twice |
| Shadow dedup (`dedup-similar-postings.ts`) | duplicate flags of an older version | group, sort, window, compare | a window that only moves forward over rows stored out of order | no close pair is missed unsaid |
| Source collectors (`src/posting/infrastructure`) | one query's pages and cards | page, open details, retry, stop | caps that cut a page, pages that repeat, failing details | what a board showed is returned or counted; a query ends |
| Catho collector (`collectors/catho`) | a lock file, a takeover mutex file, a state file | acquire, refresh, release, open pages, checkpoint, post, requeue | one file-system call at a time, processes that sleep or die anywhere; answers to a post that are lost | one owner; an abandoned lock goes; nothing is marked ingested before it arrived |
| Indeed collector, MCP tools, feedback, market analysis, configuration, scripts | none, or single statements | HTTP and text | text | tested as pure functions |

How they interact: the scheduler and the API take the run lock and call
`executeCollect`, `executeDedup` and `executeDeliver`; the CLI calls them without
the lock. `executeCollect` asks the source collectors and stores what they return;
external collectors push to `executeIngestExternal`. `executeDeliver` claims
postings in SQLite, screens and ranks them, calls the scorer for each (which calls
the model through the retry loop, the client and the breaker, and judges the
answers by the scoring rules), hands the digest to the notifier (which works
through the delivery operation), marks what was delivered and closes its run row.
The alerts read what all of these leave in rows. Nothing but SQLite is shared
between processes, and every interleaving is between statements or transactions,
or, within a process, between awaits.

`PROJECT.json` lists the components with what is and is not modelled, and the
hazards with the line at which each bites.

## 2. Modules

| Module | Models | Its counterpart |
|---|---|---|
| `DeliveryCheckpoint` | notifier + delivery rows + operator + chat | implements `DigestDelivery`; theorems in `DeliveryCheckpointProofs` |
| `DeliverRun` | `executeDeliver` over the posting columns and the run row | `DeliverRunProofs` |
| `ServerRuns` | the run lock, the handlers of scheduler and API, the alert queue | `ServerRunsProofs` |
| `Watchdog` | the schedule, the rows runs leave, and the alerts derived from them | `CollectorsProofs` |
| `Collect` | `executeCollect`, `executeIngestExternal`, upsert and run rows | `CollectProofs` |
| `SourceCollectors` | the seven board collectors over `fetchWithDeadline` | `CollectorsProofs` |
| `ShadowDedup` | the pass over similar titles | `CollectorsProofs` |
| `CathoLock` | `acquireLock`, `refreshLock`, `releaseLock` of the Catho collector | implements `StateLease`; `CollectorsProofs` |
| `CathoOutbox` | its state file, checkpoints and the post of the pending batch | `CathoOutboxProofs` |
| `ModelTransport` | the retry loop, the client's report to the breaker, the breaker | `ScoringProofs` |
| `ScoreBatch` | `ApiScorer`, Stage A, Stage B with `runBounded`, the caches | `ScoreBatchProofs` |
| `Screening` | the pre-filter, the ranking, the international budget | `ScoringProofs` |
| `Verdict` | evidence, cached answers, score, gate, section of the digest | `ScoringProofs` |
| `MC*` | the instances TLC checks | |

An `MC` module may hold several machines that share no variable. A variable
`machine` is chosen at the start and only that machine moves, so the states of a
run are the sum and not the product of theirs, and a property of one is vacuous
while another runs. What one machine takes for granted of another is stated where
they meet: `ScoreBatch` lets a call end well, badly or fatally, which
`ModelTransport` promises (`EveryCallReturns`); `CathoOutbox` uses of the lock
what `StateLease` says; `Collect` allows any batch at any time, which covers what
an outbox sends again; `ServerRuns` lets a section end in any way `DeliverRun` and
`Collect` do.

### DeliveryCheckpoint

One digest, any number of calls of `notify()` ("attempts"), in any process.
`chunk`, `op`, `claimedBy` and `leaseLeft` are the columns of the two tables;
`pc` and `todo` are an attempt's local state, `todo` being the chunks `prepare()`
returned as not confirmed; `wire` is the request that has left the process and
may still arrive after the attempt gave up or died. `copies`, `authorised` and
`vouched` are history: what reached the chat, and what the operator said.

An action is one statement or transaction: `failChunk`, `markChunkUncertain` and
`startChunk` update the chunk and the operation in two statements and are two
actions each. An answer is proof of delivery (`Acknowledged`), proof of the
opposite (`Refused`) or neither (`Ambiguous`); the notifier's own retry of a 429
is part of the request. Time is `Tick`, the lease counts down in ticks.

Three constants say how hostile the surroundings are, because the code gives
different guarantees in different ones: `Preemptible` (another process acts
between `prepare()` and `claim()`), `Suspendable` (an attempt outlives its lease
of thirty minutes, for instance with the host asleep) and `HastyOperator`
(reconciliation while an attempt runs). With `Preemptible` alone and four attempts
even `SingleSender` fails, since reconciling drops a claim that a stale snapshot
does not know of; this is why the exclusion properties are claimed for calm
surroundings only.

### DeliverRun

Any number of calls of `executeDeliver`. `claimRun`, `notified`, `discarded` and
`failures` are columns of `postings`; `row` and `tally` are the run row; the rest
is local to a run and dies with it. A verdict is one of `shown`, `dropped` or
`gated`; the pre-filter and the budget may accept any subset. A run reads its
postings once, in `Claim`, and works on that list to the end, as the code does:
`hand` is what it claimed and later what passed the filter, `deferred` and `passed`
are what `deferredCount` and `filteredCount` count, which the code sets at
different moments (`Screen`, `Admit`). `Throw` stands for any write or call inside
the `try` that throws, and leads through the `catch`, which works with the counters
as they are by then. A write of the `catch` may throw as well (`ThrowInCatch`): the
run is over, the row stays open, and the process lives on (`abandoned`).

Two variables are history. `disturbed` are the postings whose exclusion the design
itself gives up (a live run was older than the four hours a claim lasts when another
took the posting; the operator rescored it under a live run); the exclusion
properties speak of the others. `unmarked` counts the digests that carried a
verdict to the chat, or may have, and whose run then failed or died before it
marked the posting (`LeaveUnmarked`: a later chunk was refused, an answer was lost,
a write threw, the process died). Each of them is reported again.

### CathoLock

One action per file-system call of `collectors/catho/state.ts`: exclusive create,
stat, remove, utimes. A file is its owner's token and whether its modification
time is within the stale limit. The `finally` blocks are `DropMutex`. The code
computes "now" once at the start of a call and the model looks at the age when it
stats the file: a file judged old by the model may be judged fresh by the code
(older "now"), after which the code refuses, which the model allows as well since
ageing is a free step.

### CathoOutbox

`file` is the state file, `copy` what each collector has in memory: a collector
loads it, opens the pages of what needs one in the order of the sitemap, applies the
outcome of each to its copy (`OpenPage`), writes the whole copy back after every
`CHECKPOINT_EVERY` pages in a step of its own (`Checkpoint`), then posts everything
that is pending and writes what the answer confirmed. A sitemap may list a posting
several times: `discoverCandidates` keeps every `<loc>` and the list is filtered once,
so the page is opened twice in a run and the second outcome replaces the first
(`OpenedAgain`), the one way for a payload on disk to go before it has arrived, and
for a posting to be counted past its retries. A post may arrive and its answer be lost, be refused, or be
cut by a crash after the server stored it. Of the lock only the contract is used:
one owner, who may be taken over when dead or silent, and learns it from the next
heartbeat; `usurped` is history and says that a live owner was. `Requeue` is the
operator's script. `clean` is history: the last run to end had no complaint.

### Collect

Rows of `runs` are the runs; `cutoff`, `attempted`, `failed` and the counters are
the local variables of `executeCollect` and end up in the row. Between two awaits
a run is one step, `Query`: the answer of one collector, whole or cut short by an
error, is normalised, screened by age, stored in one transaction and its events
recorded. `BreakStoring` and `BreakRecording` are the same step broken off by a
throw or a death before and after the transaction. `Succeeded` is what
`findLastSuccessfulSourceCollectAt` finds, and `WindowDays` what the next run makes
of it. `heard` and `dropped` are history.

### SourceCollectors

One query of one of seven boards. Three APIs list whole postings; four scrapers
list cards and open a page for each. A posting is its place on the board. Whether a
request fails, a page repeats page one, or an item is kept, malformed or unwanted
is open; when to ask for a further page, when to stop, and what the
`CollectionResult` says is the code of each collector.

### ShadowDedup

Stored postings with company, title and city, compared by Dice similarity of
bigrams within a window of days, newest comparisons first up to a limit. Bigrams
across two words of a title are left out, which changes a similarity by the share
of word borders; a title's bigrams are counted, as the code does, by numbering the
copies of each. Postings are stored, and flags of the older version taken back,
while a pass runs.

### ServerRuns

`job` is a handler of the process: a cron tick or a request, with what it holds and
what it still has to redeliver. What happens inside a section is how it may end: it
returns, throws, with its row closed or left open because the closing write failed
too, or is cancelled; in either case the row plays no part in who holds a lock. An error that leaves a
tick is an unhandled rejection and ends the process, as `Exit` does. `queue` is the
table of pending alerts in order of first queueing; a redelivery works on the list
it made, with the ids it read.

### Watchdog

Time is in hours and jumps between the hours at which something is scheduled.
Collections and deliveries may take any time, ticks find the process down or the
lock taken, external pushes open rows of their own, and a cycle that ends evaluates
every rule of `alerts.ts` from rows and timestamps. `written` is what the
formatter writes for the hour after midnight, 0 or 24, which differs between builds.

### Screening

A posting's row is what the sources stated of it so far. Runs screen it again and
again by `applyPreFilter`, in the order of its rules, judging by the instant the run
began at while a sweep may see the posting later. A title is a set of words, whole
word matching is membership. The batch is what passed, in the order of
`rankForScoring`, cut by the budget for postings from abroad.

### Verdict

A model answers each requirement with a status and a quote of the profile; the
quote counts when the evidence catalogue of that profile and semester has it and it
applies to the requirement. Answers are cached under the profile's hash and reused
while the semesters pass and the candidate learns. Score, caps, confidence, verdict,
period gate, recommended variant and section follow by the rules of the source.
Weights are small numbers and a score is counted in parts of a point, so that
coverages are whole. Two lines of evidence with the same text are one.

### ModelTransport

Any number of concurrent calls of `parseModelOutputWithRetries` on one client.
Asking the breaker and starting the request is one step (no await in between), as
is the answer, the report to the breaker and the decision about the next attempt.
An answer is `Good`, `Garbled`, `Down`, `Odd` or `Refused` by what
`isBreakerTrippingFailure` and the loop make of it. `trial` and `downs` are
history.

An answer to a request from before the circuit opened may close or re-open the
circuit while a trial is out, and further calls then pass beside the trial: the
comment at `src/scoring/infrastructure/circuit-breaker.ts:76` describes only the
trial. What the breaker is for still holds and is what is checked and proved.

### ScoreBatch

The scoring loop over a batch, one model call per step. `saved` is the table of
partial answers, `published` the complete results, `flight` the requirements
being asked, `cursor`, `live` and `halted` the variables of `runBounded`. When a
write throws in a worker, `Promise.all` rejects and the batch ends while the other
workers still run: they are part of the model (`Take`, `PoolOk`, ... when `stage` is
no longer `"pool"`). The claims go back at once (`src/src/cli/main.ts:1616`), so the
next run may start a batch beside them: `StartBatch` moves them to `behind`, where
they go on (`StragglerTakes`, `StragglerOk`, ...). A match that reads the saved
answers before theirs are there asks for the same again, and both are paid:
`raced` records exactly those requirements, and `PaidOnce` is that there are no
others but those whose answer could not be saved.

Two live batches at one posting are not modelled here: a run that does not outlive
its claims has its postings for itself (`DeliverRun`). Every posting has a description (one without is
scored without a model call).

## 3. Runs

| Run | Machines | Question | Bounds | States |
|---|---|---|---|---|
| `DeliveryHostile` | `DeliveryCheckpoint` | Is anything lost, does a claim stay behind, does every attempt end, in any surroundings? | 2 attempts, 2 chunks, lease 0, no authorised retry | 88 k |
| `DeliveryCalm` | the same | Does the delivery implement `DigestDelivery`, with one sender, and is ambiguity left to the operator? | 3 attempts, 2 chunks, lease 1, 1 retry | 77 k |
| `DeliverRunOverlap` | `DeliverRun` | Do claims keep overlapping runs apart, and is every exit clean? | 2 runs, 2 postings, 1 failure allowed, long runs, rescoring; symmetric in runs and postings | 2.3 M |
| `DeliverRunLiveness` | the same | Is a posting retired only for a reason, and does every row close? | 2 runs, 1 posting, 2 failures, rescoring and discarding; no run outlives its claims | 38 k |
| `Locks` | `ServerRuns`, `CathoLock` | Do locks match their holders and come free, does a cancel reach only its run, is every alert kept in its place and sent, does an abandoned lock file go? | 2 handlers, 3 alert keys, a queue of 2, 1 redelivery per cycle, 1 exit; 2 collectors that die anywhere | 337 k |
| `Collect` | `Collect`, `CathoOutbox` | Is a posting lost to an outage, forgotten, counted or reported twice; does the outbox keep what has not arrived? | 2 runs, 2 postings, 4 sources, 3 days, backfill of 2 days; 2 collectors, 2 ids, sitemaps of 1 and of 4 entries, 2 attempts, 3 pages, checkpoint every 2 pages, 1 crash or takeover; symmetric in runs and collectors | 1.6 M |
| `Collectors` | `CathoLock`, `SourceCollectors`, `ShadowDedup`, `Watchdog` | Is the lock file a lease; is what a board shows accounted for, asked for sparingly, and done in the end; is a close pair missed; does silence mean that nothing is wrong? | 4 processes, 2 of them suspendable; boards of up to 7 postings, pages of 2, caps 1, 3 and 7; 4 stored postings over 2 days, 1 comparison; 2 days, 4 hours a day, 3 windows, 1 unplanned event | 801 k |
| `Scoring` | `ScoreBatch`, `ModelTransport`, `Screening`, `Verdict` | Are results complete, and when are they paid for twice; is the breaker sound and every call bounded; are screening answers stable and the budget well spent; is credit earned, do better answers help, does a section say what is so? | 1 posting, 4 requirements, 2 workers, 3 runs; 3 calls, threshold 2, budgets 2 and 2; 3 postings, 3 sets of criteria, 4 half-days, 2 runs, 2 re-sightings; 5 vacancies, 5 semesters | 281 k |
| `DeliveryDuplicate` | | expected violation, finding 1 | 2 attempts, 2 chunks | |
| `DeliverRunRescore` | | expected violation, finding 2 | 2 runs, 1 posting | |
| `CathoLockTakeover` | | expected violation, finding 3 | 3 processes | |
| `ScoreBatchThrow` | | expected violation, finding 4 | 2 postings, 2 requirements | |

Why the bounds are enough. Two attempts suffice for every pairwise race in the
delivery, and the third in `DeliveryCalm` is the one that inherits from two. Two
chunks are a first and a later one. A lease of 0 or 1 ticks expires between any
two steps of a suspended owner and never under a running one otherwise; what is
counted is only whether it ran out. Two runs are the pair that may collide and two
postings are one held and one not. The takeover race of the Catho lock needs three
contenders and the safety run has four. Three calls are one before the circuit
opened, one trial and one refused. Four requirements are one warmed, two in flight
with two workers and one after a failure. Two handlers are the tick and what meets
it, and a queue of two is full with one alert left over. Three days with a backfill
of two make an outage that is, and one that is not, past the limit, and the queries
of one run list a source twice, one without a collector and one that can fail
alone. A sitemap that lists two postings twice, with 3 pages a run and a checkpoint
every 2, has a posting opened again after a checkpoint, a page left out by the budget,
and two pages lost at once. Caps of 1, 3 and 7 over pages of 2 and boards of up to 7 are below, amid and
at the end of a page, and past the page cap of 3. One comparison is the limit that
cuts, with four postings to cut from. Two days have a first miss, a repeated one
and a midnight between, with three windows of which one is at midnight together
with a collection, one between two collections and one after the last. Four half-days with an age limit of two are fresh, at
the limit, rescued and beyond. The five semesters are before the course, in it,
around the boundary of the period asked for, and past it.

Every run fires every action of its machines, and every property has a mutant of
the code (`PROJECT.json`, "mutants") that TLC finds violated under the run's own
configuration.

The type invariants are theorems or parts of the inductive invariants of section 5
rather than invariants of runs, but for that of `SourceCollectors`, which is a
conjunct of `ResultIsHonest`. Of the
sub-properties, those that speak of one hazard together are checked under one name:
`CachesSound` (complete results only, nothing paid for twice without one of two reasons), `BreakerSound` (never
stuck half-open, shut only on evidence), `PoolDisciplined` (warm before fanning
out, nothing after a failure), `AccountsAddUp` (reported once, counters
reconcile), `NothingForgotten` (what was heard is kept, facts survive),
`OutboxKeeps` (marked only when arrived, kept until then, a clean run drains),
`CrashCostsLittle` (no page twice, loss bounded), `AlertsKept` (order, bound, sent
once), `NothingWaitsForEver` (locks come free, the backlog drains).

Deadlock is not checked in these runs because the systems do stop: a digest is
delivered, the runs of the bound are over, the processes are idle.

Fairness. `DeliveryCheckpoint`: a running attempt goes on and the clock goes on
(awaits have timeouts); nothing says a message arrives or an operator acts.
`DeliverRun`: a run that started goes on, as every await below it is bounded; that
anything throws is not fair.
`CathoLock`: calls are synchronous, the timer starts a new run, an owner refreshes
or ends; crashes are not fair and the liveness property is about what follows the
last. `ModelTransport`: an asked call goes on (request timeout, timer); the
breaker's cooldown is not fair, so calls return even against one that never cools.
`ServerRuns`: a handler goes on, weakly fair one by one (its awaits are bounded
below it), and the cron keeps starting collections, strongly fair since a tick may
find the lock taken; nothing is fair about requests, cancels, exits or the chat, so
that the backlog drains only if the chat stays up. `SourceCollectors`: a request
is answered or fails (`fetchWithDeadline` aborts every attempt, the reading of the
body included). In a run of several machines the fairness of each is guarded by
its being the one explored.

## 4. What the runs found

1. `DeliveryDuplicate`. `notify()` decides what to send from what `prepare()` read
   before the claim was won. A process that prepared, lost the processor while
   another delivered a chunk and failed on the next, and then claims, sends the
   first chunk again. ADR 048 says a confirmed chunk is never sent again.
2. `DeliverRunRescore`. `rescore` clears the failure count and the claim of a
   posting a live run has in hand as exhausted; the run marks it notified, with a
   failure count of zero, and it can no longer be rescored.
3. `CathoLockTakeover`. A process dies inside the takeover mutex and its file gets
   old. It is then removed by name: a second contender that found it old too removes
   the file the first has just created, and both take the lock over, against the
   comment that the removal races are harmless. Here nobody is held up; if the
   holder of the mutex can be (`"heldUp"`), an owner that wakes up in the middle of
   `releaseLock` removes a lock taken over in the meantime, which leads to the same.
4. `ScoreBatchThrow`. A throw while one posting is scored is reported as a
   permanent failure, which ends the batch, against the comment that every other
   posting is still scored.

Seen while modelling, and not run as violations of their own: most contradict no
line of the repository, some lie outside what is modelled, and where a comment is
cited the point is an exception the properties above already state:

* Delivery. An answer that comes after the operator has reconciled overwrites the
  reconciled row. A discard during a run is not seen by that run's digest. A digest
  of which a part reached the chat before the rest failed is a failed digest: all
  its verdicts are sent again by the next run, whose digest is a new text to the
  delivery operation. A run that throws while it records its deferrals
  (`main.ts:1401`) is closed with what the budget deferred and with nothing that
  passed the filter, and a run whose `catch` block throws leaves its row open in a
  process that lives on; `CountsReconcile` and `RunCloses` have these as exceptions.
* Collection. A run that throws while it stores a source's answer is closed with
  that source attempted and not failed, and so counts as a success of it
  (`main.ts:464`); `WindowCoversGap` has it as its exception. `argos collect` with
  `--job-name` is a success of that source for the scheduled queries too. A
  fingerprint that two sources share moves `lastSeenAt` of one row, so freshness by
  source is approximate.
* Dedup. `executeDedup` writes its events and closes its row after its `try`
  (`main.ts:953`): a write that throws there leaves the row open, which the comment
  at `main.ts:944` means to exclude.
* Server. Rows left open by a death are closed by nothing, so `restoreDatabase`
  keeps refusing with "Stop the app first". An error that leaves a tick is an
  unhandled rejection and ends the process. Two redeliveries that overlap may send
  an alert twice.
* Catho. The pending batch is always sent whole, against a body limit of 10 MB
  (`src/http-config.ts:16`): past it, every later run is refused. A failing sitemap
  delays the pending batch.
* Boards. NerdIn, Vagas.com and 99jobs take a short last page for the end also when
  the cap cut it, NerdIn and 99jobs stop at their page cap, and InfoJobs has no
  second page, all without `truncated` (`LeftUnsaid`). Vagas.com and InfoJobs count
  cards as received that they never fetched.
* Screening. `rank-for-scoring.ts:20` says it falls back as `isTooOld` does, but
  trusts a publication date that `isTooOld` holds implausible. A sighting after the
  run began is no rescue for a posting that is too old.
* Verdict. A posting that could not be scored and has no link lands in
  "unreachable", which does not show the reason; the comment at
  `render-digest.ts:22` means every failure to be shown with one.
* Alerts. A delivery window after the last collection tick of its day is asked about
  by nobody, though `alerts.ts:206` promises the first miss. A pushed batch hides
  an empty, failed or missed streak of pulled collections, and so does a row left
  open. A delivery still running past its window is reported as missing. The
  collection cron has no time zone while the delivery cron has one. A formatter that
  writes 24 for the hour after midnight makes a digest of that hour count for the
  whole day, and an alert raised in that hour names the last window of the day that
  has just begun instead of the one at midnight (`Named`).

## 5. Proofs

All theorems hold for every value of the constants allowed by the named
assumptions in the modules (non-empty chunk list, non-negative lease, `None`
distinct, positive budgets, limits and threshold, finitely many postings). The
properties were checked with TLC before they were proved.

`DeliveryCheckpointProofs`

* `TypeInvariant`: `TypeOK` is inductive.
* `NothingIsLost`: `NothingLost` is not inductive, since it does not say why an
  attempt with nothing left to send may complete. `Ledger` adds it: a chunk an
  attempt does not list as open is accounted for (it was confirmed when the
  attempt looked, and confirmed chunks are accounted for; or its arrival was
  proven since); a request that has arrived counts in the chat for the chunk it
  carries, the least open one; an attempt that reports success lists none. No
  property of claims or leases is used, which is why it holds in any
  surroundings.
* The other four assume `Calm`: nothing runs between a `prepare()` and the first
  `claim()`, a running attempt keeps its lease, the operator waits until nobody is
  running. Finding 1 shows that the first part is needed. `Claims`: whoever is
  between its claim and its last write of a chunk is alone and has the claim, unless
  another found everything confirmed and closed the digest. `Snapshot`: what an
  attempt read in `prepare()` is still so, but for its own answers, and the chunk it
  works on is the only one open. Neither is inductive without the other: the claim
  is lost only to somebody with a newer snapshot, and the snapshot goes stale only
  by a second sender. They give `SendersExclude` and `AmbiguityWaits`. `Permits`
  counts the requests for a chunk that may still arrive, those of dead attempts
  included, against what was allowed; it gives `OncePerPermit` and, with `Ledger`,
  the refinement `DeliveryKeepsItsPromise`.

`DeliverRunProofs`. One inductive invariant carries all but the counters. `Lists`
says where a posting may be in a run's own lists: what has an outcome passed the
filter, was not deferred and waits no longer. `Held`: unless the posting is
disturbed, the claim on everything a run has in hand names that run (hence
`OneRunPerPosting`). `Returned`: a claim on something unnotified is that of a run
still at work or of a dead one (hence `ClaimsReturned`). `Believed`: what a run
concluded about a posting (fit to be shown, exhausted, not notified) is still what
the row says; it needs `Held`, since only the holder of the claim changes those
columns. `Sent`: a verdict that reached the chat in more digests than were left
unmarked stands on a clean failure count, and its posting is notified or is just
being marked by the run that holds it, so no later run can claim it
(`ReportedOnce`, `FailureCeiling`, `NotifiedForAReason`). `CountsReconcile` has an
invariant of its own, `Tallied`, and is an argument about cardinalities: the
outcomes partition what passed the filter.

`CollectorsProofs` proves about the four machines of the run `Collectors`, with the
lemmas about sequences that put a finite set in order which two of them need.

* The lock. All five theorems assume `MutexFaults = {}`: nobody dies or is held up
  between taking the takeover mutex and dropping it. Run `CathoLockTakeover`
  (finding 3) shows that the assumption is needed. Processes may die, sleep and
  miss heartbeats everywhere else. `MutexHeld`: whoever is in the mutex has its
  file, and no contender finds it old. `LockHeld`: what a process concluded about
  the lock file still holds when it acts on it, which is where the mutex is used,
  and an owner that keeps its heartbeat has the file, fresh. `LockIsALease` maps the
  file to the holder of `StateLease` and takes each action to a step of the lease
  or to a stutter.
* The boards. `ResultIsHonest` speaks of a finished query and says nothing of how it
  came about. `BoardRead` does: while a query is listing (`WhileListing`) it has
  taken every page in full, so that its cards are the first `page * PageSize` of the
  board, each once, and fewer than the cap (InfoJobs has no second page, and its
  listings may overlap); an API has judged each of them, a scraper none. While it opens details (`WhileDetails`) it is never past the cap,
  returns nothing it has not opened, and the listing is already honest about what it
  leaves out. That a card is returned or counted, and once, is an argument about
  cardinalities (`LaidOutBehind`, `WithCountsAll`). `BoardsAreSpared` is what
  `AsksLittleAndEnds` says of requests, without its liveness.
* The pass over titles. `GroupUnderWay`: the rows compared and the queue are the
  company's rows in order, split in two, and what `from` has passed is out of the
  window of everything still to come. The code takes this for granted when it moves
  the window only forward; it holds because the rows are sorted by the instants
  whose distance the window bounds (`WindowMovesOn`). `ReportSoFar`: of each pair
  whose candidate was looked at, either it is reported, or an older one is, or it was
  cut by the bound and that is told. Rows stored while the pass runs change no
  comparison between rows it has read (`RowsStayAsTheyAre`).
* The watch. `SilenceIsAnnounced` looks back over what cycles saw; `Watched` keeps it
  for every window and source at every step. `WindowsWatched` uses of the rule in
  `alerts.ts` that within a window's span that window is the one asked about
  (`WindowAskedAbout`); `SourcesWatched` and `CollectionWatched` that what a cycle
  raised stands until the source, or the collection, is heard of.

`ScoringProofs` proves about three of the machines of the run `Scoring`.

* Model calls. `TrialAlwaysOut`: half-open implies that the trial is in flight. `Inv`
  adds only the types of the stages: any answer to any call leaves the breaker
  closed or open, and it becomes half-open only in the step that puts the trial in
  flight. `ShutOnlyOnEvidence`: `Evidence` bounds the breaker's own count by the
  signs of an outage while the circuit is closed. It cannot exceed them, because
  whatever clears the signs clears the count too. `AttemptsAreBounded`: `Budgeted`
  relates the three counters of a call by its stage: an attempt in flight is the
  only one not yet counted in a budget, and a call that goes on has used neither
  budget up. `BreakerIsSound` and `TypeInvariant` follow.
* Screening. `ScreenTyped` keeps for every posting why its last decision was what it
  was: the row it was taken on, which the present row grew out of (`Became`), and
  what the rules said of it then (`Judged`). Two decisions are then compared rule by
  rule, in the order of the rules, and differ only where `Follows` says
  (`DecisionsFollow`). The budget is an argument about sequences: what the ranking
  puts first is counted prefix by prefix (`PrefixCount`), and who is deferred had
  the budget used up before it (`BudgetIsSpent`).
* Verdict. `Settled`: a verdict is that of some answers each of which is supported by
  a line the profile showed at that instant, whether they were new or cached, and a
  cached answer is kept under what it was asked with. The score is whole in its
  units and every part of it grows with the answers: the divisions, the caps and the
  least of them (`CoverageGrows`, `PointsGrow`, `ScoreGrows`), from which
  `BetterAnswersDoNotHurt`. Assumed of `criteria.yaml` is what
  `CriteriaSchema` demands (weights that add up to 100, thresholds and caps within
  0..100, apply above review) and that its numbers are whole, track weights in
  tenths, as the committed ones are. The schema does not put a cap below the
  threshold it is there to enforce, so `SectionsAreHonest` says what a cap does
  where it is. Evidence of competencies and the enrolment line have different names.

`ScoreBatchProofs`. Three records of the same answers must agree: the rows of
partial answers, the cursor of `runBounded` and the results of the match. `Books`
says that an answer saved was paid for, and one paid for is saved, published or
could not be saved. `AtWork` is the agreement while a worker of the match is left,
a left-behind one included: what is in flight is before the cursor and not
served, what it may still ask unsaved or excused, what is beyond it unanswered, and a failure has halted the pool. `Apart` is that
what a crew left behind by an earlier batch asks or may still ask is unpaid, and in
the reach of no other crew and not of the match, unless it is excused. `Warming`
and `Warmed` say that the first call is alone and came back before the workers
start. `CachesAreSound` and `WorkersKeepTogether` follow.

`ServerRunsProofs`. `Held` ties the lock's set to the handlers one to one, with
`Stations` (where a handler holds nothing, and where it can hold only a delivery),
so that no path out of a section keeps a lock or frees another's
(`LockIsTheHolders`). `Requests` is that a cancel flag is set only for a delivery
under way whose operator asked (`CancelIsForThisRun`). `AlertsAreKept` needs
`NoRepeats` (a key waits once) and `InOneHand`: as long as the watched alert has
been in one hand at a time, every listing of it is live and it is queued, and after
it was sent once nobody has it listed.

`CathoOutboxProofs`. `Truthful`: what the file or any copy says is ingested has
arrived. `Alone`: unless a live owner was taken over, whoever is at work is the
owner. `Close`, under the same condition: a copy differs from the file in what its run has
opened only, in no more entries than pages since the last checkpoint (`pages % Every`,
or the whole interval while a checkpoint is due; by cardinality), and lacks of what
the file has pending only what was opened again. `Paging` says that what is still to
be opened needs it or was opened by this run before, and with `Fit` bounds pages and
attempts.

`CollectProofs`. `Justified(s, c)` says why nothing published before the cutoff `c`
can be missing from source `s`: `c` is past a backfill limit, or a run that is over
heard `s` at or after `c`, or threw. `Windowed` shows it of every window that
`computeRecencyWindowDays` can compute (the rows have a latest success, by
well-founded induction on days), `Ledger` keeps it for every cutoff a run has
computed, and `Losses` for everything dropped. `Sound` is what a row may say:
a source that was attempted and did not fail was answered, unless the run threw,
and the counters balance, which is an argument about cardinalities (`Balanced`), or
in a row that threw leave at most part of one answer unexplained (`CutShort`,
`BrokenOff`).
`Grown` is what any of the three writes leaves of a posting, from which the rest
follows.

What the attempts at these proofs corrected. The reasons for which an answer of the
pre-filter may turn (`Follows`) lacked two: a deadline that is a date alone is
earlier than an instant of that day and closes later, and titles of one fingerprint
may differ in their punctuation, so that a word of the criteria is found in one and
not in the other. `SilenceIsAnnounced` was false of a window at midnight where the
formatter writes 24, a case the run had no window for; it has one now. TLC shows
each of these when it is taken out again.

Only model-checked: what is live. Fairness and `ENABLED` are out of the prover's
reach, so `EveryAttemptEnds`, `DeadClaimExpires`, `RunCloses`, `NothingWaitsForEver`,
`StaleLockGoes`, `EveryCallReturns` and the second half of `AsksLittleAndEnds` (a
query ends) stay with TLC. Every other property of a run is stated by a theorem.
The theorems are about one machine each, under its own specification; that a run
explores several in turn does not concern them.

## 6. Not modelled, and why

Text and wording: rendering, prompts, JSON extraction, HTML parsing and the
normalizers (a document is what is made of it: kept, malformed, unwanted; an answer
is valid, malformed or a set of answers). The HTTP surface: authentication,
validation, throttling; MCP tools and feedback events are single statements. The
accounting of the OpenRouter client (budget checks before, usage after a call), its
prompt caching and price tables. The market analysis (read-only). The copying and
verification of backup files, and restore. The Indeed collector and the n8n
workflow (stateless producers of the ingest endpoint). Loading and validation of
configuration, but for the consistency rules of the criteria that `Screening` uses.
Migrations, scripts and fixtures. Order and wording inside a section of the digest.

Within what is modelled: `Collect` counts the URL check of a pushed batch as a
rejection; the cache keys of the scoring batch are one key per posting and
requirement; the 99jobs token and session steps are part of a request; which items
of a pushed batch the server rejects does not matter to `CathoOutbox`.

## 7. Plan

Done: every module of section 2 and the proofs of section 5. Left, in this order:

1. OpenRouter accounting: the budget check before and the usage after concurrent
   calls.
2. Backup and restore as steps on files, composed with `ServerRuns` and `DeliverRun`.
3. The token and session steps of 99jobs.
