# AJAS: TLA+ models and proofs

AJAS is an assistant for job seekers: it crawls job boards, ranks postings
against a resume, lets the user approve or reject matches, learns from the
decisions, and applies to the approved jobs. The backend (`src/backend/app`) is
a set of Azure Functions over Cosmos DB and storage queues.

This directory holds TLA+ models of the backend's stateful core, the TLC
configurations that check them on small instances, and proofs that the TLA+ proof
system (TLAPS) checks for every instance. Source paths below are relative to
`src/backend/app`.

## 1. Inventory

All domains are built the same way. A blueprint in `features/*.py` receives HTTP
requests, timers and queue messages, and calls a `service.py`; the service calls a
store and a queue. A store is either `memory.py`, the rules on Python dictionaries,
or `cosmos_store.py`, which for each call hydrates every row into a fresh
in-memory store, runs the same rule there and, if it wrote, upserts every row back,
with no etag. A queue is either in-memory, and then the caller runs the worker's
code itself, or an Azure storage queue, which delivers at least once and in any
order. There are three deployments: in memory, Cosmos with the in-memory queue, and
Cosmos with the Azure queue. Handlers run on threads of one or more host instances and
interleave at every store call; no store takes a lock.

| Component | State | Operations | Hard behaviour | What makes it correct |
|---|---|---|---|---|
| Auto-Apply (`auto_apply/`) | attempts, packages, submit requests, callbacks, request queue | create, cancel, manual submit, webhook, worker (package or submit), retry, poison | duplicate and redelivered messages, lost vendor answers, crash between steps, cancel races, overlapping Cosmos calls | at most one application per attempt; one in-flight attempt per posting; nothing submitted without approval and a locked package; terminal states are final; every queued attempt is picked up |
| Review (`review/`) | matches, decision events, locks, idempotency keys, audit | list, decide, overwrite, reopen, upsert scored match with its merge of rows, claim | replayed keys, overwrite window, etags, a scoring beside a decision, two scorings at once | one current decision per match, a supersedes chain without gaps, replays change nothing, one row per pairing and a decision that stands |
| Learning (`learning/`) | recommendations, decisions, parameters, tuning runs | log decision, ingest event, tune, roll back, delete user data | every event arrives twice (queue and direct call), out of order | the recorded decision is the latest one; tuning stays within bounds |
| Settings (`settings/`) | user settings, mailbox connections, consent sessions | patch, connect, callback, disconnect, token refresh, expiry | a handler that read a connection before a disconnect writes it back after; a PATCH retried under a version; late threshold messages | after disconnect no token is on file; the preference is the threshold set last |
| Job sources (`job_sources/`) | boards, schedules, runs, cursors, raw postings, canonical jobs, rate limits | connect, schedule, crawl page by page, fetch, file, count, close, delete a board | counts that many workers add to, redelivery of both queues, deletion in the middle of a run, a listing resumed half-way, whole rows written back over newer ones | every run ends, a success has fetched everything, errors show, a removed board shows nothing |
| Matching (`matching/`) | runs, scores, preferences, asynchronous operations | compute, rank, worker, cancel, preferences | the record of an operation lives in one process, counted without a lock; messages given out twice; cancel beside a worker; preferences written back by every store call | an operation ends once, with every pair; scoring uses the preference until Learning has personalized parameters, and their threshold from then on |
| Mail (`mail/`) | messages, threads, subscription, delta cursor, drafts, scans | subscribe, renew, notify, poll, file, reply | the cursor moves before the mails are filed; two ingestions of one conversation; a mailbox that is disconnected meanwhile | no mail behind the cursor is missing; mail arrives while the mailbox is connected |
| Resumes (`resumes/`) | resumes, versions, selections of runs, parse jobs | upload, parse, retry, patch, select, activate, delete | whole rows written over newer ones; a parse beside a delete; a request that dies between the row and the message | every parse ends and frees its place; no run applies with a deleted resume; one active resume |
| Integrations (`integrations/`) | adapters, schedules | refresh, ingest, search | mostly third-party I/O | |
| Storage (`storage/`) | containers, schema versions, stored procedures, retention | bootstrap, migrate, back up, purge | restart of a migration, purge races | migrations are applied once, in order |
| Platform utilities (`sessions.py`, `ratelimit*.py`, `idempotency_v2.py`, `dlq.py`, ...) | process-wide tables | check, take, record | limits at the boundary | limits are never exceeded |
| Sprint toolkits (`sprint12/` to `sprint20/`) | small in-memory tables | admin helpers | none | |
| Frontend (`src/frontend`) | page state | HTTP calls | none the backend relies on | |

Components call each other as follows. Settings sends a new threshold to Matching
(by a message and by a direct call); a crawl hands its postings to Matching; Matching upserts scored matches into
Review; Review logs every decision to Learning, once by a queue message and once by a
direct call; Learning's parameters change the threshold that Matching scores with; Auto-Apply
asks Settings whether it is enabled and Resumes for the profile; Mail takes its access
tokens from Settings. The hazards of each component, at the lines where they bite,
are in `PROJECT.json`.

## 2. Modules

| Module | What it is | Code |
|---|---|---|
| `AutoApplyRules` | The store's rules as operators on a database value: for each call a condition (`CanX`) and a result | `auto_apply/memory.py`, `constants.py`, the write-back of `cosmos_store.py` |
| `AutoApplyStore` | The store's contract: callers make any call at any time, and each is one rule applied to the whole database | `auto_apply/store.py`, `memory.py` |
| `AutoApply` | The service: HTTP handlers and worker as threads, the queue, the vendor, crashes | `auto_apply/service.py`, `queues.py`, `submitters.py`, `cosmos_store.py`, `features/auto_apply.py` |
| `ReviewRules`, `LearningRules` | The rules of the two stores, in the same form | `review/memory.py`, `learning/memory.py`, the write-back of both `cosmos_store.py` |
| `Feedback` | Review and Learning together: users who decide and reopen, the learning queue and its workers, crashes | `review/service.py`, `learning/service.py`, `features/review_decision.py`, `features/learning_loop.py` |
| `JobFeed` | What crawling promises the Job Feed: postings of a connected board come and go, a removed board shows none | `job_sources/feed.py`, `service.py` |
| `JobCrawl` | Crawling: boards, runs, the listing page by page, both queues and their workers, counting, closing, deaths | `job_sources/service.py`, `memory.py`, `features/source_ingestion.py` |
| `JobOverlap` | `JobCrawl` over the Cosmos store with store calls that overlap: a call reads every row, and writes every row back later | `job_sources/cosmos_store.py` |
| `Mailbox` | The mailbox connection and the mail that arrives through it | `settings/service.py`, `settings/memory.py`, `mail/service.py`, `mail/graph.py` |
| `Threshold` | The match threshold of the settings, its queue, and the preference of Matching | `settings/service.py`, `settings/cosmos_store.py`, `matching/service.py` |
| `MatchOps` | An asynchronous match operation, its messages and its workers | `matching/service.py`, `matching/memory.py`, `matching/cosmos_store.py` |
| `Resumes` | Uploading, parsing, editing, deleting and choosing resumes | `resumes/service.py`, `memory.py`, `cosmos_store.py` |
| `Pairings` | The review rows of one posting and resume: scorings that create, update and merge them beside a user who decides and reopens | `review/service.py`, `memory.py`, `cosmos_store.py` |
| `Conversation` | One conversation: replies under an idempotency key, and the posting it is linked to by the user or when a mail is filed | `mail/service.py`, `mail/cosmos_store.py`, `mail/linking.py` |
| `Tuning` | The parameters of Learning: the user's mode and strictness, the count of decisions, the tuning queue, and the push to Matching | `learning/service.py`, `learning/cosmos_store.py` |
| `Workspace` | The seven from `Mailbox` on in one process, with what they share | |
| `MCAutoApply`, `MCFeedback`, `MCJobCrawl`, `MCJobOverlap`, `MCWorkspace` | Values of the constants and symmetry sets for TLC | |
| `AutoApplyProofs` | Type correctness of `AutoApply`, the refinement of `AutoApplyStore`, the anatomy of a step, and the safety theorems | |
| `FeedbackProofs` | Type correctness of `Feedback`, the trail of decisions, what Learning holds and when both agree | |
| `JobCrawlProofs` | Type correctness of `JobCrawl`, the refinement of `JobFeed`, when a run ends and what its results say | |
| `PairingsProofs` | Type correctness and the safety of `Pairings` | |
| `ConversationProofs` | Type correctness of `Conversation`, its replies and its link | |
| `TuningProofs` | The user's choice, the threshold in use and the floor, of `Tuning` | |
| `MailboxProofs` | No mail behind the cursor is lost, and disconnecting holds, of `Mailbox` | |
| `WorkspaceProofs` | What is proved of a component, carried over to `Workspace`; and the thresholds, the match operation and the resumes | |

`Workspace` INSTANCEs its seven components and renames their handler and budget variables;
`AutoApply` EXTENDS its store and `Feedback` the two rule modules; `JobCrawl` INSTANCEs `JobFeed`.
`JobOverlap` EXTENDS `JobCrawl` and INSTANCEs it once more, on the working copy of a store call.

### AutoApply

*State.* `db` is the store: attempt rows, package rows, submit rows and callbacks.
Columns of an attempt that are written once (posting, mode, whether a required answer
is blank) are in `form`. `th[t]` is the handler a thread runs: its next call `pc`,
its attempt, the dequeue count and message it was started with, and the submit row and
vendor answer it holds in local variables. `queue` is the Azure queue with the
host's dequeue counts; `apps[a]` is how many applications the vendor holds for `a`;
`told` are the attempts whose user was answered "cancelled".

*Actions.* A handler is cut at each call that leaves the process, one action per
call, named after it: `CreateAttempt`, `PutArtifacts`, `PutPackage`, `Approve`, `Queue`
and `Enqueue` are `create_request`; `CancelRead`, `CancelMove`, `CancelMark` are
`cancel`; `Deliver`, `Read`, `Requeue` are `process_request`; `WorkerPackage`,
`LockPackage`, `NeedsReview` are `_package_manual`; `Start` to `MarkSucceeded` are
`_submit_programmatic`. A store call is either one atomic step (`Isolated`), or
`Hydrate` followed by the action that writes the whole working copy back (`Overlay`).
`Die` ends a handler at any point; the host then makes its message visible again.

*Abstractions.* One user, one vendor. Application ids are the pairs (attempt,
ordinal); the vendor never hands out one id for two attempts. `_persist_working`
writes its rows in one step, where the code writes them one by one, so the overlap
runs show fewer interleavings than there are, and every one of theirs is real. Blob
writes, the audit trail and the texts are left out. The reads inside a handler that decide nothing
are left out as well.

*Unique keys.* Cosmos refuses a second submit row of an attempt with one idempotency key, and a second callback with one
dedupe key (`storage/catalog.py`). A `create_submit_request` whose key is new to its copy and not to the container therefore
raises, after it has written the attempts and packages of its copy back (`CreateSubmit`, `Interrupted`); a callback
that the container has is kept (`Overlay`).

*Contract of the store.* `AutoApplyStore` has the variables `db` and `form` of
`AutoApply` and one action per call of the store protocol (plus `NoteCancel`: the service
writes the error column of the in-memory store by itself). `AutoApply` EXTENDS it, so
the refinement mapping is the identity, and "the service implements the store" is the
property `StoreSpec`. It holds when `Isolated`; with overlapping calls it does not,
as `AutoApply_doubleSubmit.cfg` shows.

### Feedback

*State.* `rev` is the Review store: per match its status, the id of its latest decision and its
etag, and the append-only rows of decisions. `learn` is the Learning store: per match (a
recommendation has the id of its match) the status of the recommendation and the
decision log, and the index of idempotency keys. `th[t]` is the handler of a thread, with what it
was sent (etag, choice, overwrite flag, key) and what it has read; `hydrated[t]` is what a
Cosmos call has read and not yet written; `queue` is `learning-decisions`. Two
variables are not in the code: `shown` remembers which decision each etag of a match stood for, and
`lost` that a handler died with a decision no queue holds.

*Actions.* `Request` is a POST to `/decision`, with the etag of any earlier page and a key
that may have been used before; `GetMatch`, `Replay`, `Expire`, `Decide` are the calls
of `decide` in their order, `ReopenGet`, `ReopenList`, `Reopen` those of `reopen`, and `Send` starts
`_log_learning_decision`, which enqueues the event and then calls `ingest_event` itself.
`Recommend`, `Duplicate`, `Find`, `PutLog`, `Mark` are the store calls of
`ingest_event`, for the direct call and for a worker alike; `Deliver` hands a copy from the queue
to a worker. `Age` lets `review_overwrite_hours` pass for a decision, which is also the life of
its idempotency key. `Rescore` is `upsert_scored_match` on a pending row. `Hydrate` and
`Persisted` split a Cosmos call as in `AutoApply`.

*Abstractions.* One owner; matches are given (`Pairings` is about how rows come and go). Claim
locks (they change an etag as `Rescore` does), discards, the audit trail (with Cosmos one more write-back of every row per
`record_audit`, so overlapping runs show fewer interleavings than there are), tuning,
parameters and texts are left out. `Rescore` is one step even when calls overlap. A recommendation
has one log row, in the model as in Cosmos, where `decision_log` has a unique key on `/recommendation_id`: of two overlapping
first ingestions the second one gets a conflict and raises. The model lets it write its row over the first instead; raising would
only bring the event back from the queue.

### JobCrawl

*State.* `tenants`, `cursor`, `open` and `runs` are the rows of the store: boards with their schedules,
the page each listing has reached, the postings whose raw row is current, and the runs. Of the
timestamps of a run two facts are kept that the code derives from them: `since`, the postings
filed since it started, and `after`, the runs that finished after it. `msg[r]` is the crawl message
of a run with the number of its deliveries, `crawl[r]` the handler of that message with what it
holds in local variables, `fetch` counts the copies of every job-fetch message at each stage (waiting, about
to file, about to count, about to finish the run), and `adding` is the handler of
`create_tenant`. `deaths`, `fallen` (those of the handlers of one fetch) and `outrun` are histories for the properties.

*Actions.* `AddBoard`, the three `Preflight` actions, `CrawlNew` and `AddEnds` are `create_tenant`; `Refresh`,
`Schedule` and `DeleteBoard` are the other requests and the timer; `Send` and `SendFails` put a
message into the queue or fail to. `CrawlStart` to `CrawlEnds` are `process_crawl_run`, one
action per store call or page: `ListPage` reads a page, whatever the board lists by then; `ListFails`, `ListMissing`
(404, with the one restart from the first page) and `ListRaises` are its ways out; `SavePage` saves the
cursor, where Lever goes by `skip` and Greenhouse by the cursor, and `MaxPages` ends a listing; `SetCounts` stores what is expected;
`Prune` and `Close` are `_deactivate_missing`. `FetchAnswer` to `FetchFinishes` are
`process_job_fetch`; a handler may also die after its last call and before its message is deleted (`Settle`), and then what it did is done once more. `CrawlDies` and `FetchDies` end a handler anywhere; the host gives its message out
again, `MaxDeliver` times in all, and then gives it up. Both handlers have a branch for poisoned messages that would
count the fetch, but it waits for an eleventh delivery (`crawl_poison_dequeue`), and the host makes five.

*Contract.* `JobFeed` has only the boards and the postings shown. The mapping takes the status of
a tenant for its board and the current rows for what is shown. It has no runs, queues or retries, so `FeedSpec` says
that none of them brings a posting of a removed board back, or takes one away in a way that is not
a retirement or a removal.

*Abstractions.* Which postings the pages list, which of them the filters of the board let through, and which answers fetches get, is
arbitrary. A page and all its enqueues are one step. Limits of
rate, content versions, canonical rows and the ranking after a run are left out.

*Store calls.* In `JobCrawl` every store call is one step, which is the contract of `JobSourceStore`. The in-memory store keeps it; the Cosmos store,
the only one beside the Azure queues, keeps it as long as no two calls overlap in time, and nothing in the code sees to that. What `jobs_crawl` and
`JobCrawlProofs` say of crawling is therefore said of executions without such an overlap. `JobOverlap` is about the others.

### JobOverlap

*State.* To that of `JobCrawl` it adds `calling`, the handler whose store call has hydrated and not yet written back, its working copy
(`ctenants`, `ccursor`, `copen`, `cruns`), and `dropping`, the boards that `delete_tenant` has written back and not yet deleted. `refused`
is a history: the runs that had a request refused.

*Actions.* `Hydrate` takes the copy. `Persist` applies the rule of the call to the copy (the actions of `JobCrawl` themselves, INSTANCEd on
the copy) and puts its rows over the stored ones: a board that was deleted is created again, a closed posting is current again, and a run gets its
old counts, errors and status back; rows that the copy does not know stay. `Meanwhile` is everybody else's step. `DeleteCloses` and
`DeleteDrops` are the two halves of `delete_tenant`.

*Left out.* There are fewer interleavings than in the code: one call of a queue handler spans steps of others at a time, and its
handler does not die in it; the calls of requests and timers, other than `delete_tenant`, are single steps; and the rows of one call are
written together, where the code writes them one by one. `Spanning` names the calls of a run that may span steps of others, because
all of them at once are too many states. So the violations are real, and what passes is shown for the overlaps that are there.

*What is left of the promises.* That a success has fetched everything but for a posting per death (`SuccessIsComplete`): a lost count
keeps a run open, and never ends it early. The others are lost: `jobs_overlap_returns` shows a removed board that comes back, and three
configurations to be run by hand (below) a run that hangs, a posting of a removed board, and a failed request that does not show.

### Workspace and its components

The seven components have the same shape: `work[h]` is a handler with the
call it is about to make (`at`) and what it has read; requests, timers and messages start handlers, and each
later action is one store call, one call to Microsoft or one send. Where the Cosmos store reads rows
and writes whole rows back, reading and writing are two steps, and anything may come between. The
in-memory store is the case in which nothing does, so one model serves both. Handlers are
interchangeable: the first that is free takes what comes.

*Mailbox.* `conns` are the connection rows and `age` their rank by last update, 0 for the newest (`_graph_connection` takes the
newest usable one), `sessions` the open consent pages, `sub` and `hooked` the subscription as the code
and as Microsoft have it, `cursor` and `junk` the delta token, `filed` and `thread` what is stored, and
`notes` the ingest messages. `Connect` to `Refreshes` are `settings/service.py`; `Renew` to
`Stores` are `ensure_graph_subscription`; `Poll` to `FileClashes` are `process_ingest`, by the
timer and by notification. Microsoft, the clock and the mails are external actions. `wanted`,
`tainted` and `torn` are histories: a consent since the last disconnect, a write-back by a handler that
overlapped it, and mails that a poll held when it died or met a conflict. The calls of the mail store are
taken as atomic. `Revokes` revokes in one step the rows that the code lists and then revokes one by one. Of the readers that write what they
read back, which in Cosmos are all of them (`settings/cosmos_store.py:65-86`), those that only show connections are left out: they could put an old row back
as the modelled write-backs do, an overlap that `tainted` stands for.

*Threshold.* `settings` is the row the user edits with its version, `prefs` the preference of Matching, `posts` the messages
between. Scoring uses the preference until Learning has personalized the user's parameters, and their threshold from then on (`_options`:
`ThresholdUsed` of `MatchOps`, `Overlay` of `Workspace`). `Patch` to `Puts` are `update_settings` with its
retries under a version, which reads the settings once more after its last conflict; `Sends`, `Take` and `Applies` pass the threshold on, once by a direct call and once
by the queue.

*Conversation.* `used` are the idempotency rows, `replies` how many replies are stored as sent under each key,
`link` the posting of the thread; `mails` is what Graph sent out. `Reply` to `Remembers` are `reply`: it looks
for a live key, posts, stores the message and then the key, each a step of its own. `Pick` to `Picks` are
`link` and `unlink`, `Arrive` to `Files` the filing of a mail, with `decide_link` on the thread that was read
before. A mail with another conversation id, but the subject and participants of this one, is judged without its thread, and its
link is then written to it (`Judged`). Every call that writes is `Hydrates` and a write-back of the key and the link it read; it upserts the rows of its copy and
deletes none, so that a key stored meanwhile stays and only the old row of a renewed key can come back (`Upserted`). Three things
follow from the code that its callers might not expect: `send_reply` stores as sent what Graph refused; a
second request that starts before the first one has stored its key sends a second mail; and the copy of a sent
mail comes back by notification and is filed once more, since `reply` made up the ids. `pardoned` counts the
reasons for a further mail under a key, `refused` what Graph refused, `strayed` (`unseen` in `Workspace`) that a
link was replaced by who had not seen it: a late write, a filing that had read the thread before, or that of a mail with another conversation id, for which it
takes no race. How a text is matched to a posting is left open.

*Tuning.* `params` is the row of the user's parameters, `decided` when the decision on each recommendation was
last updated, `week` the scores of last week's recommendations, `tasks` the messages of `tuning-tasks`.
`Choose` and `Chooses` are `update_prefs`, `Decide` to `Keeps` the count after a decision or by the daily timer,
`Take` to `Settles` a tuning with its reset, its rollback and `_respect_shown_floor`, and `Pushes` the push to
Matching. Weights, metrics and the share of approvals are left open: a tuning may move the threshold
up, down or not at all by the step. Two turns of the code are kept as they are: with exactly `min_samples`
decisions every overwrite of one of them asks for a tuning, and a tuning with too few samples resets the
threshold. A row is "personalized" once it was tuned or set by hand, and "global" after a reset or a rollback. `chosen`, `crossed` and `apart` are histories: what the user set last, a row written that changed
what it had not read, and a push that failed, was late, or was overtaken by another component.

*MatchOps.* `op` is the record in the memory of the process, whose fields are read and
written without a lock; `msgs` are the messages of its pairs. `Starts` to `Closes` are
`process_compute` with the read and the write of `processed` apart; `Redeliver` gives a message out while
its worker is still at it, `Restart` loses the record and keeps the messages. Every store call on the way
writes back the preferences it read: Threshold and MatchOps share the variable `prefs`.

*Resumes.* `rows` have status, deletion and the active flag, `chosen` the resume of each run, `jobs` the
parse messages. A store call is `Hydrates` and the action that persists the row it read.

*Pairings.* `matches` are the rows of one posting and one resume, each with the id of the matching
run that was scored. `Score` to `MissesExtra` are `upsert_scored_match` with the update, the creation and
the merge; `Decide`, `Reopen` and `View` the user's side, each with the audit that writes every
row back.

*Composition.* The seven run in one process. `load` says how many events (requests, failures, deaths) each meets in a
behaviour: three for one of them alone (four for the conversation, two for the resumes and the tuning), one each for the threshold and a match
operation together, and one each for the threshold and a tuning, since these share the preferences. `TuneFrame`,
`LimitFrame` and `MatchFrame` say what the change of one means to the others. The other components share no state, so more of
them at once would only multiply the states; a component without load starts empty and does nothing (`Loaded`).

### Bounds

| Constant | Value | Why it is enough |
|---|---|---|
| `Attempts` | 2 (1 in `overlap` and `live`) | two attempts compete for one posting; the other properties are about one attempt |
| `Submits` | 2 | a first post and a retry, or two posts that must not both happen |
| `Threads` | 2 | two workers, a worker and a user, a worker and the vendor's callback |
| `Messages` | 2 | an original and its duplicate, or a retry beside the message that caused it |
| `PoisonLimit`, `MaxDequeue` | 2, 3 (5 and 5 in the code) | at 2 there is one retry and the limit is reached; one more delivery reaches the poison branch |
| `MaxApps` | 2 | one application more than allowed |
| `MaxRequestDeaths`, `MaxWorkerDeaths` | 1 each in `atomic` | a crash at every point of every handler |

`Feedback` has one match (nothing relates two), two decisions, two keys and four etags: a
decision, an overwrite and a reopen, or a replay of either key on any of the pages before; the
guard `Room` stops requests that would need more. Two users race in `trail` and `lost_update`; one
user and one worker, with three etags, are enough for what concerns the queue. One handler dies, at any
point; redelivery is unlimited in the model, and the host's limit (5) is above one death.

`JobCrawl` has a Greenhouse and a Lever board, of which one is in use and the other removed (runs of different boards meet nowhere but in
the workers they share), two postings on two pages, two runs (the one before the crawl, or two that
overlap), one fetch worker at a time and two deliveries of every message, so that one death leaves a delivery and two give a fetch up (five in the code), and listings of at
most two pages (100 in the code); two events are enough for a deletion in
the middle of a run, a second run beside the first, or a death and what follows it. `JobOverlap` has one Greenhouse board in use, both postings on one page, two workers
and two runs: a call and what it overlaps. In `Workspace` there are two handlers (two that
race), two connection rows (one revoked, one new), two mails of one conversation, two
thresholds to choose, a conversation with one key and two postings, a tuning with
two recommendations and two weeks of scores (one in which the floor stops a tuning), a match operation of two pairs, two resumes under a limit of one parse at a time, and two review rows. The
deliveries are 2 (3 for parses, whose last but one is the one that gives up), in the code 5.

Deadlock is not checked: when attempts, messages and deaths are used up the system
rests, as it may.

### Runs

| Run | Deployments | What it shows |
|---|---|---|
| `autoapply_atomic` | all three, atomic store calls | the safety properties below, with crashes, duplicates and lost answers |
| `autoapply_overlap` | Azure queue, overlapping store calls, 5xx answers for accepted posts | what survives lost updates: the store never shows an application the vendor does not hold (`VendorTruth`), and the vendor never holds more of them than there are submit rows (`ApplicationsRecorded`); together `SurvivesOverlap` |
| `autoapply_live` | Azure queue | every queued attempt leaves the queue |
| `autoapply_cancel_race` | in memory | finding: "cancelled" is answered for an attempt that is then submitted |
| `autoapply_retry_clash` | Azure queue | finding: a rate-limited post is never retried, its attempt stays in "submitting" |
| `feedback_trail` | all three, store calls that do not overlap | the trail of decisions, what a decision replaces, what Learning holds |
| `feedback_arrives` | in memory and Azure, overlapping store calls | every decision reaches Learning |
| `feedback_late_copy` | Azure | finding: the late queue copy of an ingested event sets the recommendation back to pending |
| `feedback_lost_update` | Cosmos, overlapping store calls | finding: two decisions under one If-Match are both accepted |
| `jobs_crawl` | one board, store calls in any order that do not overlap, deaths, redelivery | what the feed shows, when a run may hang, that it ends otherwise, what a successful run has done |
| `jobs_overlap_returns` | Cosmos, store calls of fetches that overlap those of others | finding: a removed board is created again by a late write |
| `workspace_day` | one process, any interleaving of store calls, failures, deaths, redelivery | what late writes, lost messages and second deliveries can and cannot do to the mailbox, the threshold, a match operation, the conversation, the tuning, the resumes and the review rows |

Further configurations, to be run by hand (`tlc -config X.cfg M`). They are not among the runs of `PROJECT.json`; each but the last two ends
in a counterexample:

| Configuration | Module | What it shows |
|---|---|---|
| `AutoApply_doubleSubmit.cfg` | `MCAutoApply` | Azure queue, overlapping store calls: the creation of a second attempt writes the first one back as queued, which a worker has submitted meanwhile; the answer was lost, and the redelivery, whose dequeue count and so key is another one, submits it again (`OneApplication`) |
| `JobCrawl_listed.cfg` | `MCJobCrawl` | a worker dies behind the first page of a listing; the redelivered crawl resumes at the saved cursor and closes postings of the first page, which the board lists and whose fetches still wait (`ListedStays`). `docs/prd/job-source-integration.md:54` says "Deactivation: if a job was seen previously but not present in two consecutive successful crawls" |
| `Workspace_scoring.cfg` | `MCWorkspace` | the user sets a strictness in Learning and then another threshold in the settings: the preference follows the settings, and scoring uses the strictness (`PreferenceGoverns`). `docs/prd/matching-ranking.md:139` copies the threshold from the preference, `docs/prd/learning-loop.md:26` takes it from Learning |
| `JobOverlap_counts.cfg` | `MCJobOverlap` | a fetch counts on a copy from before the expected number was stored, and puts that back to zero: the run hangs (`OnlyOutrunHangs`) |
| `JobOverlap_deleted.cfg` | `MCJobOverlap` | a posting is filed between the two halves of a deletion and stays current (`OnlyLiveShow`) |
| `JobOverlap_failures.cfg` | `MCJobOverlap` | a fetch that counts on an old copy puts `error_count` back, and a run with a failed request ends as a plain success (`FailuresShow`) |
| `JobOverlap_fetches.cfg`, `JobOverlap_crawl.cfg` | `MCJobOverlap` | no error: when the calls of fetches, or those of a crawl, overlap the steps of others, a success has still fetched everything but for a posting per death (`SuccessIsComplete`) |

The safety properties of `autoapply_atomic`: no two in-flight attempts for one
posting (`InFlightUnique`); at most one application per attempt (`OneApplication`, with
the argument for it in `SubmissionInv`); an attempt in the queue or beyond was approved and its package is
locked (`Gated`), and a locked package never changes (`PackageImmutable`); a
success is backed by a submit row and an application (`SuccessIsReal`,
`VendorTruth`); terminal states are final (`TerminalIsFinal`); a retry is scheduled
unless the retries ran out (`RetryScheduled`); an attempt stranded in "submitting" can be told from
its submit row (`StrandedIsVisible`); and before submission an idle attempt can be cancelled
(`Cancellable`).

Those of `feedback_trail`: the latest decision of a match and its status agree, and the latest is
the newest (`LatestFits`), versions have no gap and a superseding decision follows
the one it supersedes (`TrailIsALine`; both are `TrailFits`); a decision replaces exactly what its user had on the screen
(`ReplacesWhatWasSeen`), although `decide` reads the match three times before it writes; Learning holds nothing
that Review does not back, in whatever order copies arrive (`LearntFromReview`); and without the queue, for
a user who waits for each answer as the page makes them, the two stores agree whenever nothing runs (`FeedbackAgrees`). With
the queue they need not (`feedback_late_copy`), and without waiting the direct calls of two
handlers can overtake each other. If a handler dies between storing a decision and logging it, Learning
never hears of it: `lost` excludes this case, for which the code has no repair. In memory the
same holds for a death during the direct call.

Those of `jobs_crawl`: only boards in use show postings (`OnlyLiveShow`), and crawling implements the feed
(`FeedSpec`); a run that nothing will touch again has ended, unless its message was lost or given up, the host gave up one of its fetches, or its
fetches were all counted before the expected number was stored (`OnlyOutrunHangs`: the code compares the two
only when a fetch is counted, so such a run stays "running" and its board is never
scheduled again); a successful run has nothing left to fetch, but for messages whose worker died after
counting (`SuccessIsComplete`); and a run with a failed request does not read as a plain success when all is
over and no fetch was given up (`ErrorsShow`; both are `ResultsAreTrue`). And a run that waits for counted fetches ends, unless its board is deleted or
a fetch given up (`CountedRunEnds`).

Those of `workspace_day`. After disconnect no token is on file until the next consent, unless a handler
that had read the connection before wrote it back (`DisconnectHolds`). Every mail behind the cursor is
filed or held, or was on a page whose poll died or met a conflict (`OnlyTornMailIsLost`), and mail arrives in the end
(`MailArrives`), unless the first poll ever failed: the code then saves the time of day for a
token. The settings and the preference agree when the settings are quiet, but for the reasons given at `Strays`; and when the tuning is quiet too, scoring uses that
threshold, whether Learning has personalized the parameters or not, unless these parted from the preference before (`ThresholdAgrees`). That scoring follows the preference wherever it
agrees with the settings, as the documents say, is false (`Workspace_scoring.cfg`). A completed operation has scored every pair and a cancelled one stays failed
(`OperationIsHonest`), and operations end (`OperationEnds`), except for the races that the histories `slipped`, `torn`, `twice` and
`cut` name. A run is never left with a deleted resume and one resume is active at most (`SelectionsHold`); every
parse ends (`ParseEnds`). A decision stands until it is reopened and a pairing has one row (`PairingHolds`).
A key that is refused has its reply in the conversation, replies shown there were sent or refused by Graph, and one
key sends one mail but for the reasons counted in `pardoned` (`RepliesHold`). A conversation stays with the posting that the user
linked (`LinkHolds`), however many of its mails are filed, unless a link is replaced by who had not seen it: a filing that read the thread before, a write-back, or a mail with another
conversation id. The
user's choice of a mode and of a strictness outlives every count and tuning (`ChoiceHolds`), the preference follows the tuned threshold
(`ScoringAgrees`), and a tuning stays within its step and bounds and leaves enough to be shown, or has gone as far as it may
(`FloorHolds`); the three are `TuningHolds`.

Several of these are of the form "P unless H", where H is a history variable. This is how the code
is: no lock and no etag guards these rows. What the property says is that the named
overlap is the *only* way to lose P, in every interleaving; each H is set by the step where the
overlap happens, and a mutant that breaks P without the overlap is caught.

*Fairness of JobCrawl and Workspace.* One weak fairness condition each, on the steps of the host: some handler goes on or some message is
handed out while there is anything to do. Nothing is assumed about which, about users, timers, Microsoft, or
deaths. `Poll` counts as a step of the host because its timer fires every few minutes. The events are bounded, so
"when the requests are over, P in the end" is `<>[]P`.

*Fairness of Feedback* (`arrives` only): handlers that run go on, and idle workers poll the queue. Both are weak: an
idle worker stays able to take a copy while there is one. Users, time and crashes are not fair.

*Fairness of AutoApply* (`live` only). A handler that runs takes its next step (weak fairness for
each thread: Python code between calls terminates, and calls return or raise), and
the host delivers a visible message to an idle thread again and again (strong
fairness of `Deliver`: the host polls the queue forever). Users, callbacks and crashes
are not fair.

## 3. Proofs

Eight modules hold the theorems; `tlapm` checks every leaf. Those of `AutoApplyProofs`
hold for every number of attempts, submit rows, threads and messages, every
limit and every one of the three deployments, under the assumptions of the
modules: the limits are positive and the poison limit is at most the host's
(`CountsAssumption`, `LimitsAssumption`), `None` is not an id (`NoneAssumption`,
`NoneIsNoMessage`), requests name a posting (`BodiesAssumption`) and a deployment is one of
the three (`DeploymentAssumption`). TLC evaluates all of them in every run.

| Theorem | Hypotheses | States |
|---|---|---|
| `TypeCorrect` | none | `TypeInv` |
| `ServiceImplementsStore` | `Isolated` | `StoreSpec` |
| `TerminalStays`, `LockedPackageStays` | `Isolated` | `TerminalIsFinal`, `PackageImmutable` |
| `OneAttemptInFlight`, `OneRowPerKey` | `Isolated` | `InFlightUnique`, `SubmitKeyUnique` |
| `GateHolds` | `Isolated` | `Gated` |
| `TruthHolds`, `OverlapSurvived` | none | `VendorTruth`, `SurvivesOverlap` |
| `SuccessReal`, `StrandedShows` | `Isolated` | `SuccessIsReal`, `StrandedIsVisible` |
| `CancelPossible`, `RetryComes` | `Isolated` | `Cancellable`, `RetryScheduled` |
| `SubmissionCorrect`, `NoDuplicateApplication` | `Isolated`, `~AmbiguousErrors` | `SubmissionInv`, `OneApplication` |
| `FeedbackProofs`: `TypeCorrect`, `TrailStands` | `Sequential` | `TypeInv` and `TrailFits` of `Feedback` |
| `ReplacesStands`, `LearntStands`, `AgreesStands` | `Sequential` | `ReplacesWhatWasSeen`, `LearntFromReview`, `FeedbackAgrees` |
| `JobCrawlProofs`: `TypeCorrect` | none | `TypeInv` of `JobCrawl` |
| `OnlyLiveShown`, `ImplementsFeed` | none (store calls are single steps) | `OnlyLiveShow`, `FeedSpec` |
| `OnlyOutrun`, `ResultsTrue` | none (store calls are single steps) | `OnlyOutrunHangs`, `ResultsAreTrue` |
| `PairingsProofs`: `TypeCorrect`, `PairingsHold` | `PairingBounds` | `TypeInv` and `PairingHolds` of `Pairings` |
| `ConversationProofs`: `TypeCorrect`, `RepliesStand`, `LinksHold` | `ConversationBounds` | `TypeInv`, `RepliesHold` and `LinkHolds` of `Conversation` |
| `TuningProofs`: `ChoiceStands`, `ScoringFollows`; `FloorStands`, `TypeCorrect` | none; `TuningBounds` | `ChoiceHolds` and `ScoringAgrees`; `FloorHolds` and `TypeInv` of `Tuning` |
| `MailboxProofs`: `MailsKept`; `DisconnectStands`, `TypeCorrect` | none; `MailBounds` | `OnlyTornMailIsLost`; `DisconnectHolds` and `TypeInv` of `Mailbox` |
| `WorkspaceProofs`: `PairingsHold`, `RepliesStand`, `LinksHold`, `MailsKept` | none | `PairingHolds`, `RepliesHold`, `LinkHolds` and `OnlyTornMailIsLost` of `Workspace` |
| `DisconnectStands`, `ThresholdStands`, `OperationStands` | none | `DisconnectHolds`, `ThresholdAgrees` and `OperationIsHonest` of `Workspace` |
| `SelectionsStand`, `TuningStands`, `TypeCorrect` | none | `SelectionsHold`, `TuningHolds` and `TypeInv` of `Workspace` |

`Isolated` says that store calls do not overlap: true of the in-memory
store, and of Cosmos while one handler runs at a time. `~AmbiguousErrors` says that a
vendor that answers 5xx did not keep the application. Neither is enforced by the code, and
neither can be dropped: `AutoApply_doubleSubmit.cfg` breaks `OneApplication` without the
first, and a lost 5xx for an accepted post leads to a second post without the second.

`Sequential` says the same of `Feedback`: it runs on the in-memory stores, or on Cosmos stores whose calls happen not to
overlap. It cannot be dropped either: `feedback_lost_update` breaks `ReplacesWhatWasSeen` without it. Users, workers
and messages interleave between the calls as they like, and die where they like.

The theorems of `JobCrawlProofs` need no hypothesis, because `JobCrawl` has store calls as single steps to begin with. They too are about the
in-memory store, or about Cosmos calls that happen not to overlap, and `jobs_overlap_returns` and the configurations of `JobOverlap` show that they fail without that.

*Type correctness.* `TypeInv` is inductive as it stands: it holds the links between
the parts of the state beside their types (a handler in the submission has a submit
row that names its attempt, a handler past `create_attempt` has a row, a snapshot is
a database). The proof has one lemma per group of actions (request, user,
webhook, worker, host).

*Refinement.* `StepImplements`: every step is one call of the contract or leaves `db`
and `form` alone. The four theorems of the second and third group are then proved about
`StoreNext`, ten calls, instead of `Next` and its handlers, and carried over.

*No duplicate application.* `OneApplication` is not inductive: it says nothing of a handler
that is about to post. `SubmissionInv` adds the argument: the transition into
"submitting" lets a single handler in, because the table has no way from
"submitting" to itself; the submit row names its owner; as long as the vendor may hold an
application, no path leads the attempt back to where another handler could start; and manual
attempts never enter. `SubmitsOwned` (a submit row in use has an owner whose
attempt exists) is the strengthening the refinement needs for `complete_submit`.

*The gate.* `Gated` alone is not inductive either: the queueing handler relies on the package
that the handler itself wrote two calls before. `GatedInv` adds what is true at each
program counter (`GateHandler`): at `approve` and `queue` the package exists, and a handler that
requeues a rate-limited attempt found it beyond the draft.

*The anatomy of a step.* The invariants that follow range over every handler and every row, and most steps touch none of them.
Four lemmas say once what a step does, and the proofs go by them instead of by `Next`: `StepFlow` (a handler returns, raises, or goes on along
`Flow`), `StepWrites` (at most one call commits, and what it writes is the handler's view of the store after one rule),
`RowsAfter` and `StatusAfter` (what that leaves of submit rows and statuses when the call is atomic), and `QueueAfter` (the
handler keeps its message, gives it back, or sends new ones).

*The store tells the truth*, in all three deployments. `VendorTruth` is not inductive: a copy that a call works on is written back later over a newer
store. `TruthInv` asks it (`Honest`) of every such copy too, and of a handler at `complete`,
`submitted` or `succeeded` that the vendor holds an application (`Claims`). Since applications only grow, a copy that was honest when
it was read stays so, however old it is when it is written.

*The row precedes the POST*, again in all three. To count the rows is not enough: `RecordedInv` compares the applications with the *spent* rows, those that
no handler is about to post for, and says that two handlers never post for one row. A POST spends one row and adds at most one application.

*A success is real.* `RealInv`: who brings a success home has a row that backs it, and nobody is about to write that row again, because a row
that is being posted or completed is "queued" and belongs to one handler.

*Stranded attempts show.* `PhaseInv` is the half of `SubmissionInv` that needs no word about the vendor: at most one handler submits an attempt. With it,
as long as nobody died, a handler that leaves the submission without an answer leaves an open row (`NoneLost`), and a closed row is found only
with an attempt that landed or with the handler that is about to say so (`RowsFinal`).

*Cancelling stays possible.* Cancelling needs the approval, so what `Cancellable` could lose is a draft whose handler stops before it approves.
`CancelInv`: while no request died, an unapproved draft has a handler on the way to `approve` (`DraftsHandled`); that call cannot be refused, because the
package of an attempt that is not approved is never locked (`LocksGated`), a worker locking only what is approved (`LocksApproved`).

*The retry comes.* `RetryInv`: while nobody died, a rate-limited attempt has a handler that found it so or is about to send its message, a visible message
with deliveries left, or a retrying row that used them up (`Scheduled`). That no handler gives up halfway without such a row
rests on `HeldFits` (a message that is held has one holder) and `RetryRow` (the row that a handler works on is its own, with the count of its message).

*The trail of decisions.* For any number of matches, decisions, keys, users and workers. `ReviewInv` adds to `TrailFits` that an unused row is
blank; with it the next version is the number of decisions and one (`NextIsNext`). Four things happen to the Review store
(`ReviewChange`), and each leaves the decisions that there are and never makes an old one current again (`Lasting`). All else follows
from these two: what an event or a handler says of a decision stays true (`StaysBacked`, `StaysFit`). `RoomInv` is
about the bound: an etag is left for each handler that may still write. `ReplacesStands` needs `ShownInv` besides: the history says of
the current etag what the row says.

*What Learning holds.* `LearntInv`: every event that Learning knows is backed by Review (`Backed`), where an undo is about a decision that is not current
any more, and a log row is what the event it names makes of its decision. It holds of the events in the queue (`QueueInv`) and in the hands of
handlers (`HandlerInv`) too, and by `Lasting` it is never lost, which is why the order of the copies does not matter.

*When both agree.* `DirectInv` says what the one handler that runs knows: which decision is current, that nobody has reported it yet
(`Steady`), and that every other match agrees. A replayed key, a late `Age` and a new score are the cases with an argument: `Age`
changes which key has expired, but not which decision is the newest, since no two decisions of a match have one version (`OneVersion`).

*Crawling.* For any number of boards, postings, pages, runs and workers. `TypeInv` is not inductive: that a saved cursor is a page of the board rests on `PageKept` (a page
that has a next one is not the last), and that a count never goes below zero and a row never loses its board on
`Owned` (a message, handler or fetch belongs to a run that was started, and such a run keeps its
board), which in turn needs `Numbered` (runs are started in the order of their numbers, so that the next one is
always new). `ImplementsFeed` then takes each step to one of the feed or to a stutter. The two cases with an argument are
`FetchFiles`, which looks at the board in the step in which it files, and `Close`, which closes
what is open, so that its board is in use by `OnlyLiveShow`.

*How runs end.* `OnlyOutrunHangs` and `ResultsAreTrue` speak of the messages that are left, and the invariant behind them
counts these. `Copies` turns the counters of a run into a set (a posting, a stage and a number), so that a step adds one element,
removes one or moves one to another stage, and the cardinality follows from the library (`CopyChanges`, `CopyMoves`, `CopiesSent`).
`SoundInv` says of each run that the fetches that are left to count make up what is expected, or is read so far (`Owing`); that
they are no more than that, but for one per handler that died, while its message was delivered once (`Bounded`; the first is said of runs none of whose fetches
was given up, `Worn`, and such a run stays one, `WornStays`); and that a success that
does not show its errors yet has a fetch left that will (`Shown`). `SameSound` covers the runs a step is not about; each
step of a handler is reduced to one of nine kinds (it starts, reads on, counts, closes, raises, ends, hands over, its message moves, a fetch moves).

*Pairings.* For any number of rows and handlers. `DecisionStands` is inductive together with the types: a store call
that writes a decided row writes it as it is, or the row is recorded as overtaken. `OneRow` rests on `Alone`: without a
race and without an overtaken row there is at most one row, and whoever is about to create one is the only
such handler and finds none.

*Conversation.* For any number of keys, postings and handlers. `RepliesHold` is not inductive: it does not see the
handlers that have sent a mail and not stored it. `CountsInv` counts them: the stored replies and the handlers about to store one are no
more than the mails and the refusals, and the mails and the handlers about to post no more than the pardons,
and one more while the key is live or a handler holds it. `HoldingStep` says what one handler's step does to
such a count, and `MovedKeeps` reduces each action to what its own handler owes. `KeysInv` is needed for the write-back, which may put the row of a key back as the copy has it: a copy in which
a key is stored was read after the reply was. `LinkHolds` rests on `Faithful`: who is about to write a link
wants the posting that it saw, or saw none.

*Tuning.* For any thresholds, steps, samples and handlers. `Honest` says what a handler is about to write: the row as it read it, or a tuning that
kept the mode and is forced if the mode is manual. A row so written changes the user's choice only if somebody else wrote
since it was read, which is `crossed`. `PushInv` is the invariant behind `ScoringAgrees`: a threshold that the preference lacks has a handler about to push it.
What `_respect_shown_floor` returns is a recursive function (`Down`). `DownSteps` gives a closed form that satisfies its
equation (the first level below at which the walk stops, which exists because it stops at the least one at the latest), so `Down` does
too; `DownStays` then bounds what it returns, by looking at the lowest start for which it would not (`LeastOf`). `FloorInv` carries
this from the step that computes a threshold to the one that stores it.

*Mailbox.* For any number of connections, mails and handlers. `KeptInv` covers the mails that the cursor has passed and those that it had passed when
a poll read it, since that poll may write the cursor back: each is filed, torn, or held by a poll. A mail that only a notification holds
does not count, because it may still be given back. `WorkKeeps` says that a handler may take up other work if none of the mails it held
is dropped, and each step is reduced to it (`EmptyHandsKeep` for those that hold nothing). The connections
matter only through the steps they refuse.

*Disconnecting.* `SafeInv`: between a disconnect and the next consent there is no usable row, and every handler whose next
write could bring a token back (`Brings`) read its row before the disconnect. Such a write sets `tainted`. What depends on the
ages of the rows, which of them `_graph_connection` takes, does not matter to it.

`WorkspaceProofs` carries the theorems about Pairings, Conversation, Mailbox and Tuning over: the workspace starts and moves their variables as
they do alone, or leaves them as they are. Tuning shares the preference with Threshold and MatchOps: a write of theirs that changes it
sets `apart`, and its other invariants do not look at it (`TunesFramed`). The remaining three are proved in the workspace itself.

*The thresholds.* `LimitInv`: unless something strayed, the preference is the threshold of the settings or that threshold is on its way
(`OnItsWay`), in a message that is not done or with a handler that is about to send or apply it; and a handler that compares the
version before it writes has seen the row in use (`LimitCompared`). What scoring uses follows with `ScoringAgrees` of the tuning: personalized parameters
that did not part from the preference show the same threshold.

*A match operation.* `MatchInv`. `CountInv` is about the unlocked counter: it never exceeds the number of pairs that are scored and that no
worker still has in hand (`MatchCounted`), and neither does what a worker has read of it, so that when it reaches the size every pair is scored.
This needs that a pair has one worker, which `twice` excepts. `CancelInv`: once a cancel is answered nobody works on the operation any more.

*Resumes.* `ShelfInv`. For the selections: a deleted resume that a run still holds is about to be cleared by its deletion, or the deletion
overlapped or died. For the active resume (`ActiveInv`): one activation writes at a time, and what it has written by then is active only if
it is its own resume; when none writes, one resume is active at most.

*The types of the workspace.* No hypothesis beyond the bounds. `TypeInv` is that of the seven components, and it is not inductive.
A count of deliveries stays within `MaxDeliver` because a message that used them up is not visible and so is not given out again (`Fits` and
`Spare` in the mailbox, `MatchFits`, `ShelfFits`). The connections keep their order because the newest row gets a rank that no other row
has (`UpdatedOrder`). The preference, which Threshold, MatchOps and Tuning all write, is a level for each of them because each writes one (`LimitSets`, `TuneSets`);
`SharedInv` puts these together. The proof corrected the models in two places: the settings allow thresholds outside the bounds
of a tuning (`TypeInv` of `Tuning` said otherwise), and 0 among them, which `MatchOps` took for "nothing read". It also needs that a
message may be given out at least once.

Only model-checked: the liveness properties (`CountedRunEnds`, `MailArrives`, `OperationEnds`, `ParseEnds` and those of `autoapply_live` and
`feedback_arrives`), since liveness under fairness and ENABLED are out of the prover's reach. Every invariant and action property of the
passing runs is proved.

## 4. Not modelled, and why

Scoring, parsing, text generation, salary and time-zone normalisation are
functions on data without state; the metrics and weights of Learning and Matching are floating-point
arithmetic over windows of data. Third-party adapters are I/O. The sprint
toolkits and the frontend keep no state that the pipelines rely on. The utilities (sessions, rate limits,
idempotency records, dead letters) and the integration scheduler change their tables in single
steps that nothing interrupts; a unit test covers what a model would. Migrations and retention jobs
are run by hand, and the stored procedures run inside Cosmos.

Of the modelled domains these parts are left out:

- Mail: templates, drafts, attachments, deletions, scans, and the words by which a mail is matched to a posting. `Mailbox` takes the calls of the mail
  store as atomic; `Conversation` has their write-backs, for the two rows that it is about.
- Settings: source toggles and the other preferences (the same row and the same calls as the threshold), the
  audit trail, and deletion of user data.
- Review: claim locks, bulk triage, saved jobs and enrichment messages. Learning: direct feedback, backfill, the weights, and
  the metrics that decide which way a tuning goes.
- Matching: saved runs, explanations, list caches. The poison branch of its queue cannot be reached: the host
  gives a message up at the same count as the code.
- Job sources: rate-limit state, content versions, canonical rows, demo boards, ranking.
- Resumes: contents, versions and templates.

## 5. Plan

Done: `AutoApply`, `Feedback`, `JobCrawl`, `JobOverlap`, `Workspace` with its seven components, and the proofs above.

Next, in this order:

1. Claim locks in `Pairings`.
2. Drafts and scans in `Mailbox`.
3. Contents of postings in `JobOverlap`, to tell two current rows of one posting apart.
