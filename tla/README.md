# TLA+ verification of the AI Job Matcher & CV Analyzer

Models, model-checking runs and machine-checked proofs for the backend in
`src/backend` (FastAPI replicas, a durable queue, worker containers, PostgreSQL)
and for the stateful parts of the single-page application in `src/frontend`.

## 1. Inventory of the system

Deployment (`infra/app/containerapps.tf:100-101, 277-278`, `servicebus.tf`): zero to
two API replicas, zero to two workers, one PostgreSQL database (READ COMMITTED, no
explicit locks anywhere), one Service Bus queue (Basic tier: no duplicate detection;
lock one minute; `max_delivery_count = 3`), one blob container.

| Component | State it keeps | Operations | Talks to | Module |
|---|---|---|---|---|
| Run rules (`app/domain/analysis_run.py`, `quota.py`, `run_outcomes.py`) | none | transition relation, active/terminal sets, quota decision, terminal status, failure message | used by all below | `RunDomain` |
| Orchestrator (`app/services/analysis_orchestrator.py`, `routes/runs.py`) | rows `analysis_run` | start run: check CV, decide quota, insert and commit, publish; read run, list, results | database, queue | `AnalysisRuns`, reads in `Spa` |
| Job queue (`app/adapters/azure/service_bus_queue.py`; local: RabbitMQ, in-process) | messages, locks, delivery counts | publish, receive under lock, complete; broker: lock expiry, redelivery, dead-letter | API, workers | `JobQueue` |
| Worker (`worker/main.py`, `worker/handlers/analysis_run.py`) | one session per message | receive, transition guard, catch-all, SIGTERM, settle | queue, pipeline | `AnalysisRuns` |
| Pipeline (`worker/pipeline.py`) | run row, `job_match_result` rows | claim, load CV text, fetch sources, start scoring, score, finalize, notify | sources, scoring, database, mail | `AnalysisRuns`, `RunExecution`, `ExecutionInRun` |
| Scoring (`app/services/scoring_service.py`, `openai_client.py`, `domain/finops.py`) | call budget per run, token totals | score run, attempt with one retry | LLM | `ScoringRun` |
| Job Sources (`app/job_sources/*.py`) | attempt counter per fetch | fetch with retries and backoff, normalise | HTTP APIs | `JobSourceFetch` |
| CV service, title suggestions (`routes/cvs.py`, `cv_service.py`, `pdf_parser.py`, `cv_repository.py`, `title_suggestion_service.py`) | rows `cv`, blobs, parser thread, audit rows | upload (parse with timeout, blob, then row), soft delete (blob, then row and text), suggest (LLM call, then audit) | blob store, database, LLM; the pipeline reads the text | `CvLibrary` |
| Sessions (`app/auth/session.py`, `api/deps.py`) | session rows | create, rotate, resolve with idle refresh, invalidate | every request | `Sessions` in `SignIn` |
| Magic links, Google OAuth (`app/auth/magic_link.py`, `google_oauth.py`, `routes/auth.py`) | token rows, account rows, state cookie | issue, verify once, match, link or create the account, sign out | sessions, rate limiter, mail | `Accounts` in `SignIn` |
| Rate limiting (`app/auth/rate_limit.py`, `api/middleware/rate_limit.py`) | counter per bucket and window | increment and compare | database | `RateLimit` in `SignIn` |
| Admin (`routes/admin.py`, `user_repository.py`, `audit_log_repository.py`, `scripts/seed_admin.py`) | unlimited flag, audit rows | toggle, then append audit entry; seed the operator | quota decision | `SignIn` |
| Frontend (`hooks/useRunPolling.ts`, `useApiWarmup.ts`, `auth/AuthProvider.tsx`, `pages/*.tsx`, `components/*.tsx`) | session context, page, watched run, wizard step, timers | probe, poll until terminal, retry, cancel on unmount, upload, suggest, start | API | `Spa` |
| Notification, secrets, configuration | none worth a model | one call each | HTTP | hand-over in `AnalysisRuns` |

Behaviours that are hard, and what makes each component correct:

* **Runs.** Several requests, workers and the broker act on one row without locks. The
  quota decision is stale by the time of the insert; commit and publish are two steps; a
  run takes minutes and its message lock one minute, so redelivery *while the run is being
  executed* is the normal case; SIGTERM arrives mid-run. Correct means: one active run per
  account, quota kept, no run executed twice, a row whose columns agree, results with the
  terminal status in one commit, at most one e-mail, no forgotten run, every run ends.
* **Scoring and sources.** Retries share one budget with listings; some exceptions are not
  isolated. Correct: the cap is never exceeded, totals count what was paid, a source
  failure stays that source's.
* **CVs.** Two stores written in sequence; the parser's thread outlives its timeout.
  Correct: what was deleted is gone from both, for good; without deaths half-way no row
  lacks its file and no file its row; every request is answered.
* **Sign-in.** Check-then-write on tokens and accounts across replicas; the Google exchange
  is an `await` in the middle; expiry is refreshed by every request, in a thread pool.
  Correct: a link signs in once and only as the address it was mailed to, one account per
  address and subject, no session outlives its absolute expiry, every sign-in is audited.
* **Rate limits.** Fixed windows, a request that crosses one. Correct: never more links per
  address and window than the limit.
* **Admin.** Correct: the audit trail tells the flag an account has.
* **The tab.** Answers arrive late or for another page, run or CV. Correct: what appears is
  about what is on screen now, one poll at a time, polling ends exactly when the run has.

`PROJECT.json` lists the components with their status and, under `hazards`, every such
spot at its line.

## 2. Plan

In order of importance. Modules marked ✔ exist.

1. ✔ `RunDomain` (pure rules), ✔ `JobQueue` (broker), ✔ `AnalysisRuns` (API + queue +
   database + workers, extends both), ✔ `RunLifecycle` (abstract promise to the owner,
   implemented by `AnalysisRuns`), ✔ `MCAnalysisRuns` and five runs.
2. ✔ `JobSourceFetch` (attempts, classification, merge), ✔ `ScoringRun` (budget,
   per-listing retry, FinOps), ✔ `RunExecution` (one execution of a run composed of the
   two, with the stored outcome and the failure message), ✔ `ExecutionInRun` (such an
   execution takes the pipeline steps of `AnalysisRuns`), ✔ `MCRunExecution` and three
   runs.
3. ✔ `Accounts`, `Sessions`, `RateLimit` (the tables and their statements), ✔ `SignIn`
   (the requests that interleave on them, extends all three), ✔ `SessionLifetime` (abstract
   promise of a session), ✔ `MCSignIn` and one run.
4. ✔ `CvLibrary`, ✔ `CvShelf` (abstract promise about each CV), ✔ `MCCvLibrary` and two
   runs.
5. ✔ `Spa` (one browser tab, extends `RunDomain`), ✔ `MCSpa` and one run.

Proofs about each item are done with it (section 5). Everything to be proved about is
written without `RECURSIVE`. What is deliberately left out is in section 7.

## 3. The core model

`AnalysisRuns` has one action for the code between two points at which another process can
see or change shared state: a commit, a read of a shared row, or a queue operation.

| State | In the code |
|---|---|
| `status`, `results`, `sourceLog`, `completed` | `analysis_run.status`, its `job_match_result` rows, `source_failures_json["successes"]`, `completed_at is not None` |
| `inWindow` | `created_at` still within `ROLLING_WINDOW`; the clock itself is abstracted |
| `cv` | `cv.parsed_text` present, empty (upload stores `parsed_text or None`), or `deleted_at` set |
| `emails` | completion e-mails handed to the provider |
| `apiPc`, `apiRun` | where `start_analysis_run` of a replica is, and for which run |
| `wpc`, `wmsg` | where a worker is, and the message it handles |
| `seen` | the run row as the worker's SQLAlchemy session has it loaded |
| `rows`, `answered` | the local `listings`/`scored` and `source_successes` |
| `mstate`, `holder`, `deliveries` | the broker's view of each message (`JobQueue`) |

Two points are easy to miss in the code and are in the model on purpose. The session
expires its objects at commit and reloads them at the next attribute access, and it sends
an UPDATE only for a column whose value differs from the loaded one: `LoadRow`,
`WriteStatus` and `WriteSourceLog`. This decides what two concurrent executions of one run
leave behind. And a duplicate result makes the final commit fail as a whole
(`uq_job_match_result_run_source_external`): `FinalizeRefused`.

Handlers of one replica do not interleave: they are `async def` with synchronous database
calls, and the container starts a single uvicorn process (`backend/Dockerfile:29`). Two
replicas do.

What can go wrong is chosen per run with the constant `Faults`: a request that dies
between its steps, a message sent twice by the client's retry, a source that raises
something unexpected, any other unexpected exception, a worker that stops, a lock that
expires under a live handler, and a handler stalled for longer than the lock even before
its claim. Locks of stopped workers expire in every run.

`RunLifecycle` is the same run as its owner sees it: `status`, `results`, `emails` and six
actions. The refinement mapping is the identity on those three variables.

### One execution in detail

`RunExecution` magnifies what `AnalysisRuns` sums up in its steps `Fetch` and `Score`, for
an execution that nobody interrupts: one action per HTTP answer and per LLM call. It
composes `JobSourceFetch` (the loop of `_fetch_all_listings` around the retry loop of an
adapter; the two adapters have the same control) and `ScoringRun` (`score_run` and
`_attempt_score`), and finalizes the row. `phase` names where `pipeline.run` is, in the
words of `AnalysisRuns`: the loops end in steps of their own (`EndFetch`, `EndScoring`)
before the commit that follows them, and a CV without text leads from `loadCv` to
`finalize`.

| State | In the code |
|---|---|
| `source`, `attempt` | the two loop variables of the fetch phase |
| `outcome`, `returned`, `listings` | `failures`/`successes`, what `fetch_listings` returned, `all_listings` |
| `requests`, `pauses` | nothing: what the board's server and `sleep` observe |
| `todo`, `tries`, `remaining` | the rest of the scoring loop, `calls_used`, `calls_remaining` |
| `scored`, `skipped`, `tokens` | the locals of the same name (tokens of both kinds summed) |
| `calls`, `bill` | nothing: calls of the LLM client, and what they are charged with |
| `status`, `sourceFailures`, `finops`, `results` | the run's row and its result rows |

The variables the program does not have are what makes the properties say something: the
cap is about the calls made, not about the counter the code keeps. One call is one
`score_listing`; the OpenAI library may repeat its request in transit (its default retries,
which `openai_client.py:37` leaves on), so the provider may see more requests than `calls`,
and the code, which caps what it calls, does not bound those. Results
of a source are a set of URLs, since the merge keeps one listing per URL; the order in
which listings are scored is left open (the code uses the fetch order), which only matters
for *which* listings a spent budget leaves over. `null` in `source_failures_json` is the
pair of empty sets, as `classify_run_failure` reads it.

`ExecutionInRun` puts the magnified execution back: it instantiates `AnalysisRuns` for one
run, one message and one worker that has claimed it, and maps `phase` to `wpc`, the
listings or scores of the moment to `rows`, the outcomes to `answered`, the row to
`status`, `results`, `sourceLog`, `completed` and `seen`. `ExecutesClaimedRun` says that
every step is one of the pipeline's steps there, or invisible. So the choices that
`AnalysisRuns` leaves to `Fetch` and `Score` contain all that the loops can produce, and
what it concludes about runs is about executions in detail.

### Signing in and being signed in

`SignIn` has one action for the code between two points at which another request can see or
change a table. `pc` and `loc` are the requests in progress and their local variables; the
tables are the variables of `Accounts`, `Sessions` and `RateLimit` and the token table.

| State | In the code |
|---|---|
| `email`, `googleSub`, `isAdmin`, `isUnlimited` | `user_account` |
| `phase`, `owner`, `lastSeen`, `idleExpires`, `absoluteExpires` | `session`; `closed` is a deleted row |
| `requestCount` | `rate_limit_counters` per bucket and window |
| `linkEmail`, `linkExpires`, `linkUsed` | `magic_link_token`; `mailed` is what reached an inbox |
| `askedIn` | nothing: the window in which the link's request was counted |
| `cookie`, `oauthState`, `begunBy` | the `session_id` and `oauth_state` cookies of the browsers, who began a flow |
| `byLink`, `byProfile`, `given` | nothing: what opened a session, which cookies arrived |
| `logins`, `toggled` | `audit_log`: successful sign-ins per account, the last toggle |

Who may interleave with whom is what the model is about. The route handlers are `async`
functions with synchronous database calls, so within one replica they run one after the
other (`LoopFree`), except across the `await` of the Google exchange; `get_current_user` is
a plain function, which FastAPI runs in a thread pool next to everything else; a second
replica and the seed script share nothing but the database. A commit in the middle of a
handler (`rotate_session` deletes in one and creates in another; the audit entry is a third)
is a point at which the request may die. Unique constraints turn a lost race into an
`IntegrityError` (`BurnRefused`, `UpsertRefused`, `SeedRefused`), a row deleted under a
refresh into a 500 (`SessionGone`).

`SessionLifetime` is what a session promises, without requests, cookies or replicas. The
mapping is the identity.

### The CV library

| State | In the code |
|---|---|
| `row`, `text` | `cv`: existence and `deleted_at`; `parsed_text` |
| `blob` | the keys in the blob store |
| `parser` | the thread of `extract_text`'s executor |
| `seen` | the CV row as `get_owned_cv` loaded it |
| `calls`, `audited`, `answered` | LLM calls, `ai.title_suggestion` entries, suggestions answered |
| `confirmed` | nothing: deletions answered with 204 |

The two stores share no transaction: upload writes the blob and then the row, deletion the
blob and then the row. `ParseTimeout` does not end the request, since leaving the executor's
`with` block waits for the thread. `create_blob_store` without an endpoint builds a new
dictionary for every request, the `memory` backend of the model. `CvShelf` is the atomic
store its owner sees; the refinement mapping counts a blob as the CV's file once the row
exists.

### One browser tab

`Spa` is the tab of a user: the session context and route guard, run page, results page,
new-run wizard and dashboard probe. JavaScript runs one callback at a time, so an action is
a callback with the render *and* the effects it causes (React runs the cleanups and effects
of that render before the next callback of the program).

| State | In the code |
|---|---|
| `session`, `status` | the API's: whether the cookie names a session, the runs' statuses |
| `auth`, `page` | `AuthProvider`'s status, the URL |
| `view` | `useState` values and timers of the components on the page |
| `calls` | fetches under way, each with its effect's `active` flag (`live`) and its answer |

Two details decide the interesting behaviours. A link to the same route with another run
keeps the components, so their state stays while their effects start anew (`Show`); and
`SignOut` believes any answer, while `createRun`'s late answer navigates wherever the user is
by then (`Started`).

## 4. Runs

| Run | Instance | Shows |
|---|---|---|
| `runs_faults` | 2 runs of one account, 2 workers, 1 replica, 2 deliveries, limit 1, all faults but duplicate sends and stalls | `OneActiveRunPerUser`, `QuotaRespected`, `SingleExecution`, `OutcomeConsistent`, `ImplementsLifecycle`, `TerminalIsFinal`, `TypeOK` |
| `runs_two_messages` | 1 run with up to 2 messages, 2 workers, 2 deliveries, lock expiry, stalls, duplicate sends, failing sources, deleted CVs | what survives a double execution: `NothingHollow`, `QueuedRunHasCarrier`, `EveryRunTerminates` |
| `two_replicas_two_active_runs` | 2 replicas, no faults | violation of `OneActiveRunPerUser` (`CONTEXT.md:93`) |
| `duplicate_message_reopens_run` | 2 messages for one run | violation of `TerminalIsFinal` (`tests/domain/test_run_state_machine.py:37`) |
| `source_error_strands_run` | a source raises an unclassified exception | violation of `EveryRunTerminates` (`docs/PRD.md:88`) |
| `one_execution` | 2 sources with 3 attempts, 3 URLs, at most 2 per source, 3 LLM calls, 2 per listing | `ExecutionTypeOK`, `CallsWithinBudget`, `EveryListingAccountedFor`, `RetriedBeforeSkipped`, `NoSourceGivenUpEarly`, `ExecutesClaimedRun`, `MessageTellsWhy`, `EveryExecutionEnds` |
| `finops_misses_failed_attempts` | 1 source, 1 attempt | violation of `FinopsCoversBill` (`CONTEXT.md:269`) |
| `failure_reads_no_jobs` | 2 sources, 1 attempt | violation of `NoJobsFoundAsDocumented` (`app/domain/run_outcomes.py:6` and `:41-42`) |
| `sign_in` | 2 requests at a time, 2 accounts, sessions, links and Google flows, 1 or 2 replicas, clock to 3; twelve scenarios | `SignInTypeOK`, `EmailLimitPerWindow`, `LinkUsedOnce`, `SessionOfLinkOwner`, `SessionOfGoogleSubject`, `GoogleLinkStable`, `CookieAudited`, `FlagMatchesAudit`, `OneAccountPerIdentity`, `CallbackFromOwnBrowser`, `ImplementsSessionLifetime` |
| `cv_library` | 2 CVs, 2 requests at a time, 1 or 2 replicas, with and without deaths, both blob stores, 2 LLM calls | `CvTypeOK`, `DeletedIsGone`, `FilesMatchRows`, `SuggestionAudited`, `RequestsEndIfParsersDo`, `ImplementsShelf` |
| `hanging_parser_blocks_upload` | 1 CV, 2 requests at a time, 1 replica, no deaths | violation of `TimeoutEndsUpload` (`CONTEXT.md:70`, `pdf_parser.py:27`) |
| `spa` | 2 runs (one finished, one to be started), 2 CVs (one to be uploaded) | `SpaTypeOK`, `OnePollWhileRunning`, `OnlyCurrentAnswersShown`, `PollingSucceeds` |

*Bounds.* Two runs of one account are the least with which admission, quota (limit 1) and "one
active run" can conflict; accounts share no state, so one suffices (that an unlimited account
keeps to one active run is left to the theorem). Two workers are the deployed maximum. Two
deliveries let a message be redelivered and dead-lettered; the code's 3 only repeats the
redelivery. One listing suffices for "some or none", one source for "failed, empty or not";
two sources are used where it matters which of them answered. `runs_two_messages` has no
stopping worker: a stop after the claim strands the run (section 6). That a stop before the
claim loses nothing is left to `QueuedRunHasCarrierHolds`, which allows stops. In
`one_execution` two sources with overlapping URLs reach every case of the merge, the code's
three attempts are kept, and three listings with three calls make the budget end before,
between and inside the attempts for a listing (the code's 100 only repeats that). Races are
between two requests, so `sign_in` and `cv_library` have two at a time; the third request of a
race (two verifications and the browser's next call) comes after one of them ended. `sign_in`
splits what people do into scenarios, each with the kinds of request that share a table, so
that every pair of kinds that can disturb each other meets; the idle timeout (2 ticks) is
shorter than the absolute one (3) and the clock passes both; a link expires after 2 ticks;
limits are 1 per window of a tick, so that a request can cross a window. `spa` allows a click
while fewer than `MaxCalls` = 2 fetches are under way (an effect may add more), one `POST
/runs` at a time, and takes two fetches of the same kind, target and flag as one. Symmetry
over workers, over runs-with-their-messages and over requests is used in safety runs only.
`TLC` finishes all of them completely. Deadlock checking is off: the system rests when no
request comes.

*Fairness* (`FairSpec`, used by the liveness runs only): an admitted request goes on to commit
and publish; each worker that is not stopped goes on, because its HTTP and LLM calls have
timeouts and bounded attempts; the broker takes back unsettled locks. Nothing is assumed of
users, of the clock or of the order of messages. Weak fairness is enough, since no step of a
worker is disabled by another actor once it is enabled. The violation by
`source_error_strands_run` holds under the same fairness. `FairSpec` of `RunExecution` is weak
fairness of its single process: HTTP requests time out after 30 s and the LLM client has its
default timeout. `CvLibrary` assumes strong fairness of each handler (`HandlerStep`): the
event loop serves its ready handlers in turn, so a handler that waits for the loop is enabled
again and again, not continuously; the clients of store, database and LLM have timeouts, and
the 30 seconds of `ParseTimeout` pass. Nothing is assumed of `ParserEnds`: a Python thread
cannot be stopped from outside, so the code cannot make it end. That the threads of the
replica end is the premise of `RequestsEndIfParsersDo`, and `hanging_parser_blocks_upload`
shows, under the same fairness, what happens when one does not. `Spa` assumes weak fairness of
timers and callbacks, which the browser runs, and strong fairness of the API's answers to
polls and probes: a page that asks again and again is not refused for ever. Nothing is assumed
of clicks, sign-ins or workers. `SignIn` has no liveness property: its handlers are
straight-line code.

Every property of a passing run has a mutant in `PROJECT.json`: a plausible bug of the code
(operators named `Bug...`) with which the property fails.

## 5. Proofs

All theorems hold for every number of accounts, runs, messages, workers, sources,
listings, calls and deliveries; assumptions on the constants are `QueueAssumption` and
`RunsAssumption` (typing of the constants, distinct "none" values), and where stated one
of:

* `OneMessagePerRun`: no duplicate send and no stall past the lock before the claim.
* `SingleReplica`: requests are decided by one replica.
* `ClaimsAreReached`: no request dies between commit and publish and no exception is
  swallowed before the claim.
* `FiniteReplicas`: there are finitely many replicas.
* `OnlyLocksExpire`: no fault but lost locks, which a run longer than a minute always meets.

The violation runs show that `OneMessagePerRun` and `SingleReplica` cannot be dropped, and
`source_error_strands_run` that `OnlyLocksExpire` cannot. The theorems about
`RunExecution` assume only `FetchAssumption` and `ScoringAssumption` (the constants are
natural numbers, a listing has at least one attempt) and, for `ExecutesClaimedRun`, `InRunAssumption` (the "none" values are not sets
of sources or listings), those about `CvLibrary` only
`CvLibraryAssumption` (the requests at a time are finitely many), those about `Spa` only
`SpaAssumption`, those about `SignIn` only the assumptions of its four modules (typing of the
constants, at least one possible account and session, finitely many requests at a time,
links and sessions). Where the table names a scenario for `SignIn`, the property itself has
it as its premise.

| Theorem (module) | Assumes |
|---|---|
| `TypeCorrect` (`AnalysisRuns_proofs`) | - |
| `NothingHollowHolds` (`RunFaults_proofs`) | - |
| `QueuedRunHasCarrierHolds` (`RunFaults_proofs`) | `ClaimsAreReached` |
| `QuotaRespectedHolds` (`RunFaults_proofs`) | `SingleReplica` |
| `QuotaOverrunIsBounded` (`RunFaults_proofs`) | `FiniteReplicas`, n + 1 of them |
| `SingleExecutionHolds`, `OutcomeConsistentHolds`, `ListingShownOnceHolds`, `FinishedIsFrozenHolds` (`SingleExecution_proofs`) | `OneMessagePerRun` |
| `ImplementsLifecycleHolds`, `TerminalIsFinalHolds`, `OnlyValidMovesHolds`, `AnnouncedOnceHolds` (`Refinement_proofs`) | `OneMessagePerRun` |
| `OneActiveRunPerUserHolds` (`Refinement_proofs`) | `SingleReplica`, `OneMessagePerRun` |
| `ActiveRunsAreBounded` (`Refinement_proofs`) | `FiniteReplicas`, `OneMessagePerRun` |
| `NoRunStrandedHolds`, `RunsAdvanceHolds` (`Refinement_proofs`) | `OnlyLocksExpire` |
| `ExecutionTypeCorrect`, `CallsWithinBudgetHolds`, `EveryListingAccountedForHolds`, `RetriedBeforeSkippedHolds`, `NoSourceGivenUpEarlyHolds`, `ListingsMergedHolds`, `MessageTellsWhyHolds`, `ExecutesClaimedRunHolds`, `ExecutionIsBounded`, `FinopsIsLowerBoundHolds` (`RunExecution_proofs`) | - |
| `CvTypeCorrect`, `DeletedStaysGone`, `FilesMatch`, `SuggestionsAudited`, `LibraryImplementsShelf`, `RequestsAdvanceHolds` (`CvLibrary_proofs`) | - |
| `SignInTypeCorrect`, `LinkOpensItsOwnersSession`, `IdentitiesUnique`, `CallbackKeepsToItsBrowser`, `SessionsKeepTheirPromise`, `ExpiryMatchesUseHolds`, `ClosedIsClosedHolds`, `SignInsAreAudited`, `EmailLimitHolds` (`SignIn_proofs`) | - |
| `LinksAreSingleUse`, `GoogleOpensItsSubjectsSession`, `GoogleLinksStay` (`SignIn_proofs`) | one replica |
| `TogglesAreAudited` (`SignIn_proofs`) | one replica, no deaths, no seed script |
| `SpaTypeCorrect`, `OnePoll`, `OnlyCurrentAnswers` (`Spa_proofs`) | - |

*The argument for single execution.* `SingleExecution` is not inductive: it says nothing of
a worker that has read "queued" and is about to claim. `ExecInv` adds the chain that
protects the run: one request works on a run id until its one message is sent
(`RequestInv`); from receive to claim the worker holds the lock of that message, and the
run is still queued (`LockInv`); after the claim the run's status is the claimer's alone,
because every other delivery is refused by the transition guard (`OwnerInv`); what the
worker carries and what it wrote agree (`CarryInv`, `RowInv`). Each action preserves it in
a lemma of its own. The refinement is read off `ExecInv`, and with it what an owner relies
on: no status moves but along the transition table or from "scraping" to "failed" for a CV
without text (`OnlyValidMoves`), nothing of a finished run changes (`FinishedIsFrozen`), the
e-mail goes out once (`AnnouncedOnce`), no listing is shown twice (`ListingShownOnce`, with
`DedupInv` for the rows a worker carries). `CarrierInv` says that a worker past the claim
has taken the run out of "queued", so an acknowledgement never strands it.

*The argument for several replicas.* The API is deployed with up to two, and then neither
the quota nor the one active run holds as stated. `QuotaInv` and `ActiveInv` say what does:
they count the runs in the window (the active runs) of an account together with the
requests admitted for it and not yet inserted (`Admitted`). A request is admitted on a
snapshot below the limit, so whatever the sum exceeds it by is in the hands of other
replicas, each of which has one request. Hence one run above the limit, and one more
active run, for each further replica (`QuotaOverrunIsBounded`, `ActiveRunsAreBounded`), and
the two single-replica theorems are the case of one.

*The argument for progress.* Liveness is beyond the prover, its safety half is not.
`StepsAfter` numbers the steps that bring a run from the insert to its terminal status,
`Doing` says what state of request, message and worker makes each of them due.
`NoRunStranded` is that every committed run has ended or has a step due, nine at most;
`RunsAdvance` that no step of anybody increases the number left, a lost lock and a
redelivery included, and that each step due lowers it. What TLC adds for
`EveryRunTerminates` is that the step due is taken. For CV requests `StepsLeft` and
`NobodyStuck` do the same: who waits for another request, waits for one that waits for its
parser thread at most (`WaitInv`), and each step of its own or of its thread brings a
request nearer to its answer.

*The argument for one execution.* `ExecutionInv` relates what the program counts to what
the outside observes: `SourceInv` says that sources before the current one are settled
with their attempts used up, and those after it untouched; `BudgetInv` that calls made and
budget left add up to the cap, up to the calls for the current listing, which are fewer
than its `MaxTries`; `ProgressInv` that scored, skipped and waiting listings are all of
the merged ones; `StoredInv` what the final commit recorded. `MessageTellsWhy` needs all
of it: only through the merge does "no source answered" imply that nothing was scored.
`RetryInv` bounds the calls per listing and is kept apart for its products. The refinement
to `AnalysisRuns` is one lemma per action: the answers inside the two loops are stutters,
`EndFetch` is `Fetch` with the outcomes collected (which needs the merge to be that of the
sources that answered), `EndScoring` is `Score` with a part of them. `Work` counts what is
left to do and every step lowers it, so no execution goes on for ever: the safety half of
`EveryExecutionEnds`. `FinopsIsLowerBound` is what remains of the run
`finops_misses_failed_attempts`: the estimate never exceeds the bill.

*The argument for the CV library.* `LibraryInv` adds to `DeletedIsGone` what a request in
progress knows (`RequestInv`): the id of an upload is its own until its row exists, which no
deletion can have touched, and a deletion that is about to clear the row has removed the
blob. With it two overlapping deletions and any death preserve the promise. `FilesInv` is
`FilesMatchRows` with the responsible request named. `SuggestionAudited` is about counters
and needs the requests in between counted too: entries not yet answered are at least the
requests at `answer`, calls not yet audited at least those at `audit` (`AuditInv`). The
refinement is then one case per action.

*The argument for the sign-in.* Requests read rows and use what they read much later, next
to any number of others, so the question is what of it is still true. `Grows` answers it
once for all actions: an address, a link, an opened session and a begun flow never change.
`DataInv` then says, row by row, what an account, a link, a session and a cookie say about
each other (`UniqueInv`, `LinkInv`, `SessionInv`, `FlowInv`) and, step by step, what a
request carries (`Agree`): a request that does not move keeps its `Agree` by `Grows` alone
(`AgreeStays`), so each action has to re-establish only that of the request that moves. The
refinement needs one part of it: the instant a call took before it read the session is
before the session's absolute expiry, also when the refresh comes ticks later. Read off the
refinement: refreshes may overwrite each other in any order, the row always shows the expiry
its recorded use deserves (`ExpiryMatchesUse`), and a closed row stays closed next to a
refresh that had read it (`ClosedIsClosed`). `CookieInv`
and `EmailInv` count the sessions and links on their way together with those that arrived;
the counter of the limit, not the links, is what replicas share. For one replica the event
loop replaces the locks the statements do not take: `LoopInv` says that one request at most
is between two of its database calls (`OneInLoop`), and that what it read before is
unchanged when it writes (`LoopAgree`: the link unused, the subject still null, the flag
still the one it set), because a request outside the loop writes none of it (`Quiet`).

*The argument for the tab.* `CallsInv` says of every fetch under way what it may carry
(`CallSound`), and of one that is still live that it was made for what is on screen now
(`CallWanted`): this is what the `active` flags are for, and each action that changes the
page preserves it because the cleanup marks the fetches of the page it leaves. `PageInv`
ties page, session context and timers; `PollInv` says a live poll and the timer exclude each
other, and one of them is there until the page's own run has ended. `OnlyCurrentAnswersShown`
follows for each callback from `CallWanted` before the step.

*Only model-checked:* `EveryRunTerminates`, `EveryExecutionEnds`, `RequestsEndIfParsersDo` and
`PollingSucceeds` (liveness under fairness is beyond the prover). Of the first three the
safety half is proved, as said (for runs under `OnlyLocksExpire`: that a run ends next to a
second execution is shown by `runs_two_messages` only); of the last it is `OnePoll`: a page whose run has not ended
has a poll under way or a timer set.

The theorems without a run of their own (the bounds for replicas, the safety halves, what an
owner relies on, the expiry of sessions) are about definitions of the proof modules; their
inductive invariants were run through TLC on the instances of section 4 before the proof.

## 6. What the models show besides

Behaviours the code does have. The violation runs report those that contradict a sentence
of the repository; for the others, the properties are stated so that they say where the
promise ends. Four more disagree with a document without a violation run of their own; the
properties have the condition as their premise, or, in the last case, are one-sided.

* Two replicas may both accept one magic link (`LinkUsedOnce` is for one), although
  `CONTEXT.md:45` has links "single-use" and `CONTEXT.md:125` `maxReplicas=2`.
* A toggle that dies between its two commits changes the flag without an entry
  (`FlagMatchesAudit` excludes it), although `CONTEXT.md:65` wants admin toggles in the
  audit log.
* With two replicas an account exceeds its limit (`CONTEXT.md:93`) by one run
  (`QuotaRespected` is for one; `QuotaOverrunIsBounded` says by no more).
* An LLM answer to a title suggestion that cannot be used is paid for and not recorded
  (`SuggestionAudited` bounds entries by calls only), although `CONTEXT.md:269` wants cost
  logged "for whatever AI steps actually ran".

The rest contradicts no sentence we know of:

* A worker that stops after its claim leaves the run in scraping or scoring for good, since
  the redelivered message is refused by the transition guard: `EveryRunTerminates` is for
  workers that do not stop. (`PRD.md:88` wants runs to "complete reliably even when one Job
  Source fails", which speaks of sources.)
* A run that loses its message before it is claimed stays queued: a request that dies
  between commit and publish, an exception swallowed before the claim, a dead-lettered
  message.
* A run reopened by a second copy of its message may end with its results refused by the
  constraint and then stays in scoring.
* An address may get up to twice its limit of links within an hour that crosses a window
  (`CONTEXT.md:91` does not say which hour it means).
* Two executions of one run may store a listing twice, once per source, since the unique
  constraint includes the source; with one execution none is shown twice.
* With two replicas the later of two first Google sign-ins for one account replaces the
  subject the earlier one linked (`GoogleLinkStable`, `SessionOfGoogleSubject` are for one).
* A sign-in that dies between the two commits of `rotate_session` leaves the browser signed
  out; one that dies before its answer leaves a session nobody has the cookie of.
* An upload that dies after the blob leaves a file without a row; nothing removes it. A CV
  deleted between the dependency's read and the handler is still sent to the LLM.
* On the run page the count of the run shown before stays until the new one is fetched, and
  stays for good when that fetch fails (`RunDetail.tsx:43` says "Leave the count unset",
  which holds of a first visit). An upload answered late moves the wizard to its CV. A
  failing sign-out request that does answer counts as a sign-out in the tab.

## 7. Not modelled, and why

Job Search and PDF validation, e-mail templates, configuration, secrets and application
wiring, HTTP and LLM payloads: data without control, or read once at start-up. Migrations:
generated and run once. Local queue adapters (RabbitMQ, in-process): development only, and
`JobQueue` without its lock timeout. The wall clock of runs: reduced to "the run left the
window". A poison message body: the API validates what it publishes. The length of a pause
and the dollar estimate: functions of values that are modelled. The ingress middleware (100
requests a minute per IP): it uses the counter of `RateLimit` and only removes requests.
`cleanup_expired`: nothing calls it. Audit entries no property relates to a table, the admin
search, run and CV lists and quota readouts: read-only or write-only. Of the frontend the
login form, the admin console, the lists of the dashboard and deletion from it, result
filters and the prototypes: each is one fetch whose answer is shown, with the same `active`
flag as those that are modelled.
