# A TLA+ model of EduBoost SA

EduBoost SA is a learning platform whose backend (`src/app/api`) is organised as
"five pillars": rules (Legislature), workers that act (Executive), a service that
must approve each action (Judiciary), an audit trail (Fourth Estate) and a learner
profile (Ether). What makes it hard is not any single function but what happens
between them: a worker waits for a stamp while consent changes, the judiciary
commits a verdict nobody waits for any more, an agent dies between a commit and an
acknowledgement, two guardians erase the same learner, a task that has already saved
its plan is tried again. This directory models those parts in TLA+, checks them with
TLC and proves theorems about them with TLAPS.

`PROJECT.json` lists, for every definition, the source lines it models, and for
every hazard the line where it bites.

## 1. Inventory

### The parts that keep state

| Part | Source (below `app/api`) | State | Operations | Talks to |
|---|---|---|---|---|
| judiciary-svc | `judiciary/service.py`, `main.py` | `judiciary_stamps`, `constitutional_violations`, `judiciary_stamp_cache` | review an action; get a stamp | rules table, LLM |
| executive workers | `judiciary/base.py`, `client.py`, `services/lesson_service.py`, `study_plan_service.py`, `parent_portal_service.py`, `orchestrator.py` | `lesson_results`, `study_plans`, `reports`; per run: its stamp | `run`: build and check consent, gate, generate, persist | judiciary over HTTP, LLM, fourth estate, `consent_audit` |
| ProviderRouter | `judiciary/provider_router.py` | three circuit breakers | `complete` | LLM providers, audit stream |
| FourthEstate | `fourth_estate.py` | RabbitMQ connection and exchange, buffer, counters | connect, publish, report, close | workers |
| Legislature | `judiciary/agent.py` | `constitutional_rules`, source hashes | refresh a source, active rules | judiciary |
| legacy judiciary, inference gateway | `judiciary/legacy.py`, `services/inference_gateway.py`, `docker/inference_server.py` | an in-process cache of verdicts, the singleton | `review`; a completion from the first attempt that answers | LLM, offline server |
| session lifecycle | `judiciary/state_machine.py` | `session_states`, a Redis key | `get_state`, `transition`, `assert_state_allows` | `audit:actions` |
| audit streams, AuditAgent | `judiciary/streams.py`, `audit_agent.py` | Redis streams and groups, `audit_log`, rows of `consent_audit` | publish; consume loop; reclaim loop; dead-letter | everybody publishes |
| ConsentGate | `judiciary/compliance.py` | `consent_audit` | grant, revoke, `assert_active` | `audit:consent` |
| guardians and erasure | `routers/auth.py`, `routers/parent.py`, `services/popia_deletion_service.py` | `parent_learner_links`, `consent_audit`, the learner's rows | link, record consent, request / execute / status of deletion, export | all tables about a learner |
| accounts and tokens | `routers/auth.py` | `parent_accounts`, tokens, the blacklist in Redis | register, log in, learner session, check a token, log out | every endpoint |
| gamification | `services/gamification_service.py` | `learners.total_xp`, `streak_days`, `learner_badges` | `award_xp`, `update_streak`, badges | lessons, assessments |
| study plans, Celery tasks | `routers/study_plans.py`, `tasks/plan_tasks.py`, `report_tasks.py`, `core/audit_helpers.py` | the task queue, `study_plans`, `reports`, `audit_events` | make and read a plan; refresh, daily and weekly jobs with retries | orchestrator |
| learner records | `routers/learners.py`, `assessments.py`, `lessons.py` | `learners`, `subject_mastery`, attempts, feedback events | create, patch, read, mastery, progress, attempt, lesson, feedback | orchestrator |
| diagnostics | `routers/diagnostic.py`, `services/diagnostic_benchmark_service.py` | `diagnostic_sessions`, `item_bank` | run, start, answer, resume, history, benchmarks | orchestrator |
| IRT engine | `judiciary/engine.py` | item parameters by version, estimates, responses, snapshots | update parameters, score a response, check for drift | object store |
| RLHF export | `services/rlhf_service.py` | `lesson_feedback`, `rlhf_exports` | submit, export | - |
| dummy data | `services/dummy_data_service.py` | a table filled to a target at start-up | `ensure_target_points` | - |
| rate limiter | `main.py` | timestamps per address | every request | - |

Parts without behaviour of their own (configuration, metrics, content tables, the
frontend's presentation, schema and deployment) are in `PROJECT.json` with the
reason they are left out. `services/consent_service.py` cannot be imported.

Wired into the running application are the three services the orchestrator starts,
the routers, the start-up task and the Celery tasks. `SessionOrchestrator`,
`AuditAgent`, `ConsentGate`, `ErasureService`, `RLHFService` and the IRT engine are
library components that the documentation describes and nothing in the app
constructs; they are modelled as they are written. The three services build a router
for each completion, so that in the app a breaker never lives long enough to open;
`ProviderRouter` is modelled as the shared object it is written to be.

### What is hard, and what would make each part correct

* **Judiciary.** Many reviews at once, three commits in a review, a cache that
  outlives the rules. Correct: an approval rests on a review on record, a rejected
  action is never approved, the cache never answers from an expired stamp.
* **Executive.** The client's timeout, consent that changes while a run waits.
  Correct: nothing is written without an approval of that very run.
* **ProviderRouter.** Breakers shared by overlapping calls, an event published inside
  the `try` of the call it is about, open breakers passed by without a trace. Correct:
  who answers in the place of a provider that was tried and failed is announced first.
  (The class promises that of every switch, which does not hold: section 4.)
* **FourthEstate.** An await between the connection and its exchange. Correct: what a
  task publishes after a good connection reaches the broker; it does not once a
  declaration has failed.
* **Legislature.** Rules one transaction each, their source's hash last, a document
  replaced between two reads. Correct: a recorded hash means its rules are there.
* **Legacy judiciary.** A cache entry dated before the model was asked, written after
  it answered. Correct: no answer from a verdict older than the TTL.
* **Session lifecycle.** Read, check and write in separate awaits, a cache that may
  be lost or stale. Correct: rows move along the state machine, suspension holds.
* **Audit.** At-least-once delivery, crashes, two loops on one database session.
  Correct: acknowledged means written, written once, every entry at last.
* **Erasure.** Concurrent erasures, writers beside them, an order of consent rows
  that is given by times taken long before the commit. Correct: what was there is
  gone, access is closed until a new grant, every call returns.
* **Accounts.** A blacklist entry in whole seconds for a token that expires at an
  instant. Correct: a token that was logged out is refused for
  the rest of its life, but for the fraction of a second that is rounded away.
* **Gamification.** Overlapping calls that each compute with an object loaded
  earlier; when what is written is decided by the ORM's flushes. Correct: every badge
  once, exactly when the row has reached it.
* **Study plans.** A flush that is swallowed, a job that fails after its plan is
  committed and is tried again, a worker lost with its job. Correct: a job saves no more
  plans than it has retries and losses to account for, and ends. (That a lost event
  blocks nothing, and that a refresh makes one plan, does not hold: section 4.)
* **Learner records.** Columns whose defaults only the ORM has. Correct: a learner
  whose progress was served goes on being served.
* **Tables filled by several processes** (item parameters, exports, dummy data).
  Select-then-insert. Correct: versions without gaps, no rating in an export that began
  after it was exported, no surplus rows before the floor of persistent ones stands.
* **Rate limiter.** A window pruned only when its address calls. Correct: no minute
  has more than the limit, wherever it begins.

`PROJECT.json` has the full list of hazards.

## 2. Plan

Done, in this order (the most important first):

1. `Judiciary`, `RulesHistory`, `JudiciaryProofs`
2. `StampGate` (abstract), `Executive` (composes `Judiciary`), `ExecutiveProofs`
3. `SessionFSM` (abstract), `SessionLifecycle`, `SessionHistory`, `SessionProofs`
4. `EventLog` (abstract), `AuditStream` (agent and ConsentGate), `AuditProofs`
5. `GuardianErasure`, `ErasureProofs`
6. `Gamification`, `GamificationProofs`
7. `ProviderRouter`, `FourthEstate`, `LegacyReview`, `OutboundProofs`
8. `Accounts`, `StudyPlans`, `Legislature`, `ItemCalibration`, `RLHFExport`,
   `DummyData`, `TablesProofs`
9. `RateLimit`, `LearnerRecords`, `Diagnostics`

To do:

* `ErasureService` of `compliance.py`: today its first DELETE names
  `learner_profiles`, which no migration creates, so every call is rolled back as a
  whole and announced as done all the same. Worth a module once that is settled.
* Orphan detection in `AuditStream`; trimming at MAXLEN.
* `ml/irt_engine.py`: selection and stopping of the adaptive test, once an endpoint
  reaches it; the learner profiler's cache.
* Proofs: type correctness of `LearnerRecords` and `Diagnostics`; what an erasure and a
  logout promise as abstract specifications, and that `GuardianErasure` and `Accounts`
  implement them.

## 3. Modules

Every component has a module (state, actions, specification, properties) and a
`...Proofs` module that extends it, or shares one with components of its kind. One
action is the code of a coroutine between two awaits that reach another process
(PostgreSQL, Redis, RabbitMQ, HTTP, the LLM): that is where other coroutines run.
Operators marked "Seeded fault" are not part of any specification: each is the
definition beside it with a plausible mistake, kept to show that a property notices it.

`MC` modules give TLC its small sets. Three of them, `MCServices`, `MCExecutive` and
`MCComponents`, check several components in one run. These components share no
state, so a variable `part`, chosen at the start, says which of them a behaviour is
of; the others stay as they began, in one initial state each. The states of the
components add up, where the product of their specifications would multiply
them, and nothing is lost: a step of one is a stutter of the others. Components that
do share state are composed in earnest: `Executive` with `Judiciary`, the audit agent
with ConsentGate, the erasure with guardians and a writer.

**`Judiciary`** - one handler for each action (`phase`): `ReviewAction`, the fast path,
the cache lookup, retrieval of the rules, the model's answer, then the commits in
the code's order. Parameters are one bit (does the fast path object?), the cache
key is one value, time is a clock in ticks of which the TTL is a multiple. Rules are
a version number that an external step increases. **`RulesHistory`** adds a history
variable, the time of the newest amendment, for the property that bounds how long an
answer may rest on amended rules.

**`StampGate`** - what the docstring of `WorkerAgent` promises, without the how:
check consent, approve, execute. **`Executive`** extends `Judiciary` with the
workers' coroutines. Worker and handler of its POST are separate processes: the
client may time out while the handler goes on. A worker class is its cache key,
because agent, intent and claimed rules are literals of the class.
`LessonKey`'s actions always carry parameters the fast path objects to, as in the code
(`_LESSON_ALLOWED_KEYS` does not contain what LessonService sends), so
every lesson is rejected.

**`ProviderRouter`** - requests that go through the providers in order, each behind a
breaker all share. `complete` skips an open breaker before `call_async`, the only
place where pybreaker would let a call through again. The fallback event is published
inside the `try` of the provider's call and before the answer is returned: if that
fails, the answer is dropped and the next provider asked (`EmitFails`), although the
entry may be on the stream when only the reply was lost. A provider that was passed by
does not count as tried, so a switch past open breakers alone is not announced.

**`FourthEstate`** - tasks that publish a list of events each through one connection.
Connecting, declaring the exchange and sending are awaits. Counters and buffer are
written before the connection is looked at. `Close` is the only way out of a
connection without exchange; after a close in the ordinary course `_exchange` keeps
its value, so that nobody connects again.

**`Legislature`** - agents that refresh one document on sessions of their own: hash,
read again, then for each rule a SELECT and an INSERT, and the hash last; the file may
be replaced and an agent may stop at any await. A unique key that two agents meet
raises out of the refresh and leaves what was persisted (`InsertRule`). A hash may
belong to a document other than the one whose rules were read (`Torn`), if the file
was replaced between the two reads.

**`LegacyReview`** - reviews of the in-process judiciary with its cache, the
singleton's first `use_llm_review`, and the attempts of the gateway: the offline
server in that mode, Groq twice, Anthropic, Hugging Face.

**`SessionStates`** holds the states and `VALID_TRANSITIONS`; **`SessionFSM`** is
the state machine they describe; **`SessionLifecycle`** is the code: read the cache,
fill it from Postgres, check, upsert, SETEX, emit, each a step of one of several
callers. With one caller and no lost SETEX it implements `SessionFSM`. **`SessionHistory`** adds a history variable, the rows
that were ever committed, so that a property can say of the copy in Redis and of the
stream that they are of something PostgreSQL has held.

**`EventLog`** - what the pipeline promises, without streams, loops, sessions or
faults: a row for each event, never changed, then the consent row, then done.
**`AuditStream`** - entries on streams, what the consumer group knows of each, the
two loops, their one database session, faults (database, Redis, crash), and
ConsentGate both as producer and as the other writer of `consent_audit`. It implements
`EventLog` (`KeepsLog`). Reclaiming
is enabled for any pending entry: it stands for an idle time that has passed.

**`GuardianErasure`** - HTTP calls as transactions at READ COMMITTED, the row lock
on the learner as the guard of `UpdateLearner`, rows with the time of their commit,
and a worker that writes beside an erasure. Times order the rows of `consent_audit`:
a transaction's `now()` is even, `datetime.now()` inside `execute_deletion` is odd.
`audit_id` of `consent_audit` is taken to have the default of `scripts/db_init.sql`;
`record_consent` gives none.

**`Accounts`** - calls that register, log in, present a token and log out. A second
has several ticks: a token expires at a full second, and the blacklist keeps it for
whole seconds, rounded down (`Remaining`). A host whose clock runs in UTC is assumed:
`auth.py:366` takes `utcnow().timestamp()`, which elsewhere is off by the offset. So is
a Redis that keeps a key for its TTL: `docker-compose.yml:203` runs it with
`allkeys-lru`, and a key evicted when memory is short lets its token pass again. A
check that Redis does not answer lets the token pass (`CheckFails`).

**`Gamification`** - `award_xp` and `update_streak` as calls that load the learner,
compute, flush, look at each badge of the catalogue and commit. A call keeps an
object (`mem`) and the set of columns its UPDATE sets (`dirty`), as the ORM does;
the autoflush before the first badge query takes the row, which is the only thing
that keeps two calls apart. The day is a counter that moves at any time, also in the
middle of a call.

**`StudyPlans`** - requests that make a plan, emit an audit event and commit, and the
Celery jobs over a list of learners: the worker's plan is committed first, then the
job's own INSERT fails, and the retry starts over. A message may be delivered again
after a worker is lost. `delivery` counts the tries. A request's `transaction` is
"aborted" after a flush that failed and was swallowed: its commit can only raise.

**`ItemCalibration`** - updates of item parameters (MAX(version) + 1, then INSERT under
the unique key), answers that read and write the learner's estimate, and snapshots.
theta is the set of answers it was computed from.

**`RLHFExport`** - ratings and exports; two SELECTs, the records, one commit that marks
what was selected. `dataset` is what each committed export contains. The model lets a
rating be recorded. Today the flush of one raises: `models/rlhf.py:25` has a `Base` of
its own, where the `lessons.id` of the foreign key in line 39 is no table. So the model
has more behaviours than the code, and what it shows is for the day this is mended.

**`DummyData`** - the start-up tasks of several processes that count, fill, count again
and trim one table. `_GEN_LOCK` is within one process and so not in the model.

**`RateLimit`** - one request is one action, since nothing is awaited in it;
`admitted` is the history of the requests passed on, which the property is about, and
the list of timestamps is the set of their places in it.

**`LearnerRecords`, `Diagnostics`** - each endpoint as one transaction and the status
it answers with; columns may be NULL.

## 4. Runs and bounds

Every `.cfg` says `CHECK_DEADLOCK FALSE`: requests may stop coming, and the counters
are bounded, so a quiet state is no error; that what has begun ends is checked as
liveness.

| Run | Question | Bounds |
|---|---|---|
| `services` | do answers rest on what was committed, do amendments reach the cache within the TTL (`AmendmentsReachHits`), does an expired key stay uncached (`ColdKeysStayCold`), and does every review end? | 2 actions, 2 keys (interchangeable, so the first action has the first): an approval of one action to be stored and found, or refused, for the other; TTL 2 of 3 ticks, so that a stamp expires in time to be asked for; 1 amendment of the rules |
| - accounts | does a logout hold? (`LoggedOutStaysOut`) | 3 calls, 2 tokens, 2 ticks a second, a clock that outlives both tokens |
| - plans | do the plans a job leaves stay within its tries, and does it end? (`SavesBoundedByRetries`, `JobsEnd`) | 1 request, 1 job of any kind, 2 learners, 1 retry, 1 lost worker |
| - audit | does an ACK mean written, once, is it an EventLog, and is every entry logged at last? | 2 streams, 2 ids, 1 fault of any kind, at any step |
| - session | is a session its state machine when calls do not overlap? (`ImplementsFSM`) | 1 caller, all states |
| `executive` | is all that is written approved and on the trail as such, is it a StampGate, does every run end? | 2 runs, 2 learners (interchangeable, so the first run is about the first), 2 classes: one run can be approved from the other's cache row; 1 tick, no amendment, which no property of the workers depends on |
| - session | are rows transitions under overlap, is nothing cached or announced that was never committed, and do calls end? | 2 callers, 3 targets (start, suspend, archive) around suspension; the code compares no third caller |
| `erasure` | do erasures keep apart and erase what was there, is access closed after one, does every call return? | 1 guardian, 2 calls at once, 5 in all (link, grant, erase, link again, and one more, so that the consent check after an erasure is reached), one erased table |
| `components` | does a learner have exactly the badges its row has reached, once? | 2 calls at once, 3 days (so that a streak breaks and a call spans midnight), 3 XP, one badge of each kind |
| - calibration | are versions 1, 2, 3 ... of each item? (`VersionsInSequence`) | 2 updates of one item and 1 of another, 2 answers |
| - export | does no export repeat what one before it has taken? (`ExportedOnce`) | 2 ratings, 2 languages, 2 exports of any format |
| - dummy | does the floor of persistent rows come first? (`FloorBeforeSurplus`) | 2 start-up tasks, a table of 3 with a floor of 2, batches of 2 |
| - limit | does the limit hold in every minute? (`WindowHolds`) | 1 address (they share nothing), 2 requests a minute, more than two minutes |
| - records | is progress, once served, served for good? (`ProgressStaysServed`) | 1 learner, 2 assessments |
| - diagnostics | the endpoints and their answers; see below | 2 sessions, 2 items |
| - legislature | does a recorded hash mean its rules? (`HashMeansRules`) | 2 agents, 2 contents of the file that share a rule, 2 rules, 2 dates |
| - legacy | is no answer older than the TTL? (`CachedVerdictsAreRecent`) | 2 reviews of one prompt, 4 moments, TTL 2 |
| - router | is an answer in the place of a failed provider announced (`UnannouncedOnlyPastOpen`)? does an open breaker stay open? | 3 requests over 3 providers, breakers of 2, 2 and 1 failures: one opens while two calls are in flight |
| - estate | does a half-made connection ever send? | 2 tasks of up to 3 events, a buffer of 2 |

The larger numbers add nothing the code tells apart: handlers share only tables, and
a pair of them already produces every order of two statements.

Three properties say what the code does where one might wish otherwise, because its
callers have to live with it: `BreakersStayOpen` (a breaker that has opened is never
tried again), `HalfConnectedStaysMute` (after a failed declaration nothing is
delivered until `close`) and `ColdKeysStayCold` (a key that has expired is never cached
again). `UnannouncedOnlyPastOpen` is what is left of the promise that the run
`router_switch` refutes, and `SavesBoundedByRetries` of the one `plans_refresh` does.

### Where the code and its documentation disagree

A second group of runs checks one property each, stating what a doc, comment or
message says, and TLC finds a behaviour of the code against it. `PROJECT.json`
("findings") quotes both sides.

| Run | What is said | What happens |
|---|---|---|
| `judiciary_rules` | the latest version of each rule is used | a hit answers from a review of older rules |
| `session_suspended` | only archival is permitted | a transition that read earlier overwrites SUSPENDED |
| `audit_revoked` | revoke revokes | the agent's row for the event is a newer grant |
| `audit_dead` | dead-letter after 5 retries | the count is never stored, the session stays aborted |
| `erasure_revokes` | revokes consent atomically | a grant newer than `executed_at` stands |
| `router_switch` | a provider switch emits an event | the next provider after an open breaker answers unannounced |
| `plans_audit` | a failed audit event blocks nothing | the swallowed flush fails the request's commit: 503, with the plan committed |
| `plans_refresh` | a refresh generates a plan, and says so | it says so when the worker was refused one; and each retry after a plan leaves one more |

`router_switch` needs requests that share a router, for one request meets no breaker
that it opened itself. In the app each completion has a router of its own (section 1),
so there it cannot happen yet. `RefreshMakesOnePlan` has two parts, of a job about a
diagnosed learner: it has a plan when it succeeds, and never two. TLC reports the
shorter behaviour, a success without a plan; without that part it finds the second plan
of a retry.

The models also have behaviours of the code that a reader of its documentation would
not expect and that no run singles out:

* `CacheStore` keeps the first cache row of a key for ever (`ON CONFLICT DO NOTHING`,
  `service.py:323`): once its stamp has expired, the key is never cached again, which
  `ColdKeysStayCold` checks and `ColdKeysAreNeverWarmed` proves. The
  stamp that answers a hit (`service.py:90`) is in no table, so it cannot be
  retrieved by its action.
* Consent that is revoked between `BuildAction` and the write stops neither the
  judiciary, which never reads consent, nor the worker, which has read it.
* A session may be suspended between `assert_state_allows` and the act it allowed;
  a transition whose event cannot be published returns normally.
* An entry whose id another stream has used is acknowledged by that stream's row.
* A guardian linked twice by two simultaneous requests is refused from then on, by
  an exception. A requested deletion is executed by nobody. Rows that a worker writes
  after the erasure went through their table stay.
* Of two overlapping awards of XP one is lost, and an award before `update_streak` on
  a new day moves `last_active_at` (the column's `onupdate`), so the day does not count
  for the streak. Of two overlapping answers one is missing from theta.
* In the legacy judiciary a failure of the model is cached as an approval, and
  `get_judiciary` ignores every `use_llm_review` after its first call.
* A new learner has NULL in `total_xp` and `streak_days` (the INSERT names neither,
  the default is the ORM's), so its progress answers 500 until a PATCH names them.
* A mastery row, an assessment's attempt and a lesson's feedback are never stored;
  mastery, where a row was seeded, answers 500 (`LearnerRecords`).
* `run`, `start` and `respond` of the diagnostics never succeed, because
  `Orchestrator.run` knows no such operation; benchmark metrics raise as soon as there
  is a session to measure (`Diagnostics`).

## 5. Fairness

Fairness is weak, and always of one coroutine that is already running: an awaited
call to PostgreSQL, Redis or the model returns or raises (all have timeouts or break
with the connection), and the event loop runs what is ready. `FairExecutiveSpec`
assumes nothing of the judiciary: the client's timeout alone ends a run.
`FairAuditSpec` also has the agent's loops go on for ever, as `while self._running`
does, and its process restarted after a crash, as its deployment does. In
`FairErasureSpec` PostgreSQL grants a row lock that is free: each waiter is alone in
wanting it for good, because whoever holds it commits without waiting again, so weak
fairness is enough for two calls. No client is assumed to call, no guardian
to grant, no rules to change. In `FairPlansSpec` the broker hands out what is queued,
and a worker goes on with its job: Celery's time limits end a task that hangs. A worker
may be lost all the same, though only `MaxCrashes` times.

`MCServices` and `MCExecutive` state for each part the fairness of its own
specification (`FairSpec`, `FairPlansSpec`, `FairAuditSpec`; `FairExecutiveSpec`,
`FairHistorySpec`), each condition with `part = ...` in its action: in a behaviour of
another part the action is never enabled, and the condition asks nothing.

## 6. Proofs

All theorems hold for every value of the constants under the `ASSUME`s of the modules
(bounds are naturals, sets are related as the code relates them), and TLC evaluates
those in the runs. They are about each component's own specification; the runs with a
`part` check the same formulas.

* **JudiciaryProofs**: `IndInv` adds to the properties where every stamp row comes
  from (`StampsMatchPhase`: its own action's handler, past the writing phases), that
  there is one per action, that a handler past its commit has its row, and that
  cache rows point to approved stamps of their key. `CacheHitsAreFresh` is an action
  property; the transaction's `now()` is the time of the lookup.
  `AmendmentsReachCacheHits` rests on `Dated`: a stamp, and a review on its way to one,
  that is grounded in rules no longer in force is dated no later than the newest
  amendment. (The stamp's date is the begin of the transaction, before the rules are
  read. With a transaction that began after the model's answer it would fail, which is
  the property's mutant.) It is the positive companion of the finding `judiciary_rules`:
  what a hit repeats may be superseded, but not for longer than the TTL.
  `ColdKeysAreNeverWarmed` needs that stamps and cache rows are never removed
  (`TablesOnlyGrow`) and that there is one stamp per action.
* **ExecutiveProofs**: first that every step of the composition is a step of
  `Judiciary` or a stutter, so that `IndInv` carries over; then `ExecInv`, which ties
  a held stamp and every artifact to the body that carried it. `GateRefined` maps
  the runs to `StampGate` and proves the refinement. `TrailFollowsRuns` says which
  events are on the trail of a run in each of its phases, for `ArtifactsAreOnTrail`.
  `NoLessonIsWritten` combines the theorems of both modules: a flagged action is never
  approved, what is written is approved, and every lesson is flagged.
* **SessionProofs**: `RowInv` (a caller about to persist has checked its target
  against what it read) for any number of callers; `SerialInv` (cache, row and what
  the call read agree) for the refinement, under one caller and no lost SETEX; the same
  invariant gives `SerialSuspensionHolds`, the positive companion of the finding
  `session_suspended`. Over `SessionHistory`, `HistoryInv` says that the row, the copy in
  Redis, what a call has read and what it is about to announce were committed; it gives
  `OnlyCommittedIsSeen` and, with the transition table, `OnlySuspendedIsArchived`.
* **AuditProofs**: `Position` says what a loop has written of the entry it stands at;
  `OneStream` that a batch is of one stream, so an id names one entry of it. For
  `LogRefined`, `RefInv` adds that what a loop stands at has been delivered (`Delivered`)
  and that only entries of the consent stream get to the second step (`Consenting`);
  then each step of the agent is a step of `EventLog` or a stutter.
  `NothingIsDeadLettered` says of every behaviour what the finding `audit_dead` shows in
  one.
* **GamificationProofs**: `OneHolder` (one call holds the learner's row), and
  `HolderBadges`: nobody has a badge that the holder is about to give, it has judged
  what it is no longer to look at, and a column that it does not write had its badges
  when it was loaded (`LoadedHeld`). `CommitDeserves` then says what a commit gives,
  for `MilestonesAwarded` and for the action property `BadgesDeserved`. The module
  also proves `ProgressStaysServed` of `LearnerRecords`, which is about the same row, and
  `WindowHolds` of `RateLimit`: `RateInv` adds that no request is from the future and
  that a request whose timestamp was dropped is out of every window still to come
  (`ForgottenIsOld`), so that what the middleware counts is the whole window.
* **ErasureProofs**: `OneHolder` (one erasure holds the learner's row),
  `SeveredThere` (the links it deleted are still there to be deleted), `SeenThere`
  (what it has gone through it has seen), `RevokedOnRecord`, and `Clocked`.
  `OnlyLaterGrantsStand` is the positive companion of the finding `erasure_revokes`. It
  uses `Parity`: the time of an erasure is odd and the time of a grant even, so that the
  two never tie and the newest row is the one or the other.
* **OutboundProofs**: for the router `PassedOpen` (a request that has tried nobody has
  only passed by open breakers, which stay open by `OpenKept`), `Told` (one that has
  tried somebody is answered only with its event on the stream) and `UsedBefore` (the
  first provider tried lies before the one a request stands at, so that an event never
  names one provider twice). They give `UnannouncedOnlyPastOpen`, the positive companion
  of the finding `router_switch`. For
  FourthEstate `SendersHaveExchange`: who is about to send has an exchange, for it is
  never given up, so nobody sends while there is none. For the legacy cache
  `EntriesDated`: an entry is dated when it was asked for, not when it was answered.
* **TablesProofs**: `KeptNearlyToTheEnd` (a blacklist entry falls short of the token's
  life by less than a second, by the lemma `WholeSeconds` on division) gives
  `LoggedOutStaysOut`. For
  the plans `DeliveriesBounded` (a job has been delivered once more than it was retried
  and lost at most, and not that often while it waits in the queue) and `SavesDelivered`
  (what it saved carries the number of a delivery it has had) give
  `SavesBoundedByRetries`. For the
  Legislature `RulesBefore` (what lies before the agent's place is in the table) gives
  `HashMeansRules`. For item versions `OneRowEach` and `WantedWithin` (a call wants one
  of the versions there are, or the next); for exports `DatasetsMarked` and
  `PrecedingApart`; for the dummy data `KnownThere` (no task knows of more persistent
  rows than there are) and `DoomedSurplus` (none is about to delete one), so that
  whoever adds rows above the floor has counted one that stands.

Only model-checked: liveness (`ReviewsEnd`, `RunsEnd`, `CallsEnd`, `JobsEnd`,
`NewEntriesLogged`, `CallsReturn`), because fairness and `ENABLED` are outside what
the prover handles; and the disagreements above, which are counterexamples. Of four of
these six properties the safety half is proved: `HandlersOnlyAdvance`, `RunsOnlyAdvance`
and the two theorems `CallsOnlyAdvance` give each coroutine a measure that all its steps
lower and no step of another raises. What is left to fairness, and to TLC, is that a step
is taken and, for the erasure, that the lock it waits for is granted. The agent's loops have no such measure: they go on for ever. The
type invariants of the judiciary, the workers, the session and the audit pipeline are
proved for all constants and not repeated in the runs.

## 7. What is not modelled

* Wording, prompts, numbers of the ability estimates, layout of exports.
* Authorisation beyond the token: which learner a guardian may ask about is in
  `GuardianErasure` only.
* In `AuditStream`: trimming of streams at MAXLEN, the lag metrics and the orphan
  detection, which reads and publishes but does not change what the properties are about.
* In `GuardianErasure`: contents of caches, of exports and of the pseudonymised
  profile; the audit event of a request.
* In `Gamification`: how much the daily cap lets through, and levels, which are
  arithmetic on the total; other learners; an erasure beside a call.
* `ErasureService`: its calls roll back as a whole (section 2), and what it then
  announces is wrong by inspection, without any interleaving.
* `ml/irt_engine.py`: no endpoint reaches the adaptive test. Its gap probe goes down
  one grade and is then active for the rest of the session (`check_gap_trigger`),
  where `docs/AI_AGENT_SKILLS_MANIFEST.md:83` speaks of a cascade.
* `services.py` beside the legacy judiciary: it repeats the workers of `Executive`.
* The learner profiler, whose cache saves work and nothing depends on; queries of the
  audit log; configuration, metrics, health, content tables; the frontend; schema,
  deployment and scripts, which were read for keys, defaults and constraints.
