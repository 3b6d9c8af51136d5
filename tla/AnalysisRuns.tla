---------------------------- MODULE AnalysisRuns ----------------------------
(***************************************************************************)
(* An Analysis Run from POST /runs to its terminal status: the API         *)
(* replicas (app/services/analysis_orchestrator.py), the database rows,    *)
(* the queue (JobQueue) and the workers (worker/main.py,                   *)
(* worker/handlers/analysis_run.py, worker/pipeline.py).                   *)
(*                                                                         *)
(* One action stands for the code between two points where another process *)
(* can see or change shared state, i.e. between two commits, reads or      *)
(* queue operations.  Route handlers of one replica do not interleave      *)
(* (async handlers with synchronous database calls on one event loop);     *)
(* those of two replicas do.                                               *)
(***************************************************************************)
EXTENDS RunDomain, JobQueue, FiniteSets

CONSTANTS
  Users, Unlimited,     \* accounts, and those on the unlimited allowlist
  Cvs, Runs,            \* CV rows and run ids (uuid4, so fixed in advance)
  OwnerOf,              \* owner of each run
  CvOf,                 \* the CV each run is started for
  RunOf,                \* the run a queue message names
  Replicas,             \* API container replicas (0..2)
  DailyRunLimit,        \* DAILY_RUN_LIMIT = 3
  NumSources,           \* registered Job Sources, numbered in fetch order
  Listings,             \* listing URLs
  Faults,               \* which of AllFaults may happen
  NoRun, NoMessage, NoLog, Failed

AllFaults ==
  { "abort_request",     \* an API request dies between admission and publish
    "duplicate_send",    \* the queue client's retry enqueues a message twice
    "source_error",      \* a source raises something else than JobSourceError
    "unexpected_error",  \* any other exception the pipeline does not handle
    "stop",              \* SIGTERM, crash or scale-in of a worker
    "lock_expiry",       \* a handler outlives its message lock
    "stall" }            \* ... even before it has claimed the run

Sources == 1..NumSources
Rows    == Sources \X Listings

ASSUME RunsAssumption ==
  /\ OwnerOf \in [Runs -> Users]
  /\ CvOf \in [Runs -> Cvs]
  /\ RunOf \in [Messages -> Runs]
  /\ Unlimited \subseteq Users
  /\ DailyRunLimit \in Nat
  /\ NumSources \in Nat
  /\ Faults \subseteq AllFaults
  /\ NoRun \notin Runs
  /\ NoMessage \notin Messages
  /\ \A S \in SUBSET Sources : NoLog # S
  /\ \A S \in SUBSET Listings : Failed # S

VARIABLES
  status, inWindow, results, sourceLog, completed,   \* analysis_run rows
  cv,                                                \* cv rows
  emails,                                            \* e-mails handed over
  apiPc, apiRun,                                     \* API replicas
  wpc, wmsg, seen, rows, answered                    \* workers

dbVars     == <<status, inWindow, results, sourceLog, completed, cv>>
apiVars    == <<apiPc, apiRun>>
localVars  == <<seen, rows, answered>>
workerVars == <<wpc, wmsg, localVars>>
vars       == <<queueVars, dbVars, emails, apiVars, workerVars>>

ApiSteps == {"idle", "admitted", "persisted"}

(* Where a worker is: waiting in receive_messages, about to read the run,  *)
(* about to commit each phase, about to settle the message.                *)
Handling == {"received", "claim", "loadCv", "fetch", "startScoring", "score",
             "finalize", "notify"}
WorkerSteps == {"idle", "settle"} \cup Handling

(* A CV has text, was uploaded without any (a scanned PDF), or is deleted. *)
CvStates == {"readable", "blank", "deleted"}

(* The columns of the run's row that a worker's session has in memory.     *)
LoadedRow == [status : AnalysisRunStatus \cup {"absent"},
              log : {NoLog} \cup SUBSET Sources]
NoRow == [status |-> "absent", log |-> NoLog]

TypeOK ==
  /\ QueueTypeOK
  /\ status \in [Runs -> AnalysisRunStatus \cup {"absent"}]
  /\ inWindow \in [Runs -> BOOLEAN]
  /\ results \in [Runs -> SUBSET Rows]
  /\ sourceLog \in [Runs -> {NoLog} \cup SUBSET Sources]
  /\ completed \in [Runs -> BOOLEAN]
  /\ cv \in [Cvs -> CvStates]
  /\ emails \in [Runs -> Nat]
  /\ apiPc \in [Replicas -> ApiSteps]
  /\ apiRun \in [Replicas -> Runs \cup {NoRun}]
  /\ wpc \in [Workers -> WorkerSteps]
  /\ wmsg \in [Workers -> Messages \cup {NoMessage}]
  /\ seen \in [Workers -> LoadedRow]
  /\ rows \in [Workers -> SUBSET Rows]
  /\ answered \in [Workers -> {NoLog} \cup SUBSET Sources]

Init ==
  /\ QueueInit
  /\ status = [r \in Runs |-> "absent"]
  /\ inWindow = [r \in Runs |-> FALSE]
  /\ results = [r \in Runs |-> {}]
  /\ sourceLog = [r \in Runs |-> NoLog]
  /\ completed = [r \in Runs |-> FALSE]
  /\ cv \in [Cvs -> {"readable", "blank"}]
  /\ emails = [r \in Runs |-> 0]
  /\ apiPc = [p \in Replicas |-> "idle"]
  /\ apiRun = [p \in Replicas |-> NoRun]
  /\ wpc = [w \in Workers |-> "idle"]
  /\ wmsg = [w \in Workers |-> NoMessage]
  /\ seen = [w \in Workers |-> NoRow]
  /\ rows = [w \in Workers |-> {}]
  /\ answered = [w \in Workers |-> NoLog]

-----------------------------------------------------------------------------
(* The API: start_analysis_run.                                            *)

RunsOfUser(u) == {r \in Runs : OwnerOf[r] = u /\ status[r] # "absent"}

(* Fault for the checks: a scoring run not counted as active.              *)
BugHasActiveRun(u) ==
  \E r \in RunsOfUser(u) : status[r] \in {"queued", "scraping"}

HasActiveRun(u) == \E r \in RunsOfUser(u) : IsActive(status[r])

(* count_runs_toward_quota.  Time is abstracted to the one thing the rule  *)
(* asks of it: whether the run's created_at is still within 24 hours.      *)
RunsInWindow(u) ==
  Cardinality({r \in RunsOfUser(u) : inWindow[r] /\ status[r] # "cancelled"})

MayStart(u) ==
  CanStart(u \in Unlimited, RunsInWindow(u), HasActiveRun(u), DailyRunLimit)

(* Owned CV found (with or without text) and quota decision positive; a    *)
(* refusal changes nothing.                                                *)
(* The run id is fresh: no two requests draw the same uuid4.               *)
Admit(p, r) ==
  /\ apiPc[p] = "idle"
  /\ status[r] = "absent"
  /\ \A q \in Replicas : apiRun[q] # r
  /\ cv[CvOf[r]] # "deleted"
  /\ MayStart(OwnerOf[r])
  /\ apiPc' = [apiPc EXCEPT ![p] = "admitted"]
  /\ apiRun' = [apiRun EXCEPT ![p] = r]
  /\ UNCHANGED <<queueVars, dbVars, emails, workerVars>>

(* _persist_run: INSERT and commit, on the decision taken before.          *)
Persist(p) ==
  /\ apiPc[p] = "admitted"
  /\ status' = [status EXCEPT ![apiRun[p]] = "queued"]
  /\ inWindow' = [inWindow EXCEPT ![apiRun[p]] = TRUE]
  /\ apiPc' = [apiPc EXCEPT ![p] = "persisted"]
  /\ UNCHANGED <<queueVars, results, sourceLog, completed, cv, emails,
                 apiRun, workerVars>>

EndRequest(p) ==
  /\ apiPc' = [apiPc EXCEPT ![p] = "idle"]
  /\ apiRun' = [apiRun EXCEPT ![p] = NoRun]

(* job_queue.publish, after the commit.                                    *)
Publish(p) ==
  /\ apiPc[p] = "persisted"
  /\ \E ms \in SUBSET {m \in Messages : RunOf[m] = apiRun[p]} :
       /\ ms # {}
       /\ "duplicate_send" \notin Faults => \A m1, m2 \in ms : m1 = m2
       /\ Send(ms)
  /\ EndRequest(p)
  /\ UNCHANGED <<dbVars, emails, workerVars>>

(* The replica goes away, or publish raises: the committed row stays and   *)
(* nothing undoes it.                                                      *)
AbortRequest(p) ==
  /\ "abort_request" \in Faults
  /\ apiPc[p] # "idle"
  /\ EndRequest(p)
  /\ UNCHANGED <<queueVars, dbVars, emails, workerVars>>

(* 24 hours have passed since the run's created_at.                        *)
LeaveWindow(r) ==
  /\ inWindow[r]
  /\ inWindow' = [inWindow EXCEPT ![r] = FALSE]
  /\ UNCHANGED <<queueVars, status, results, sourceLog, completed, cv,
                 emails, apiVars, workerVars>>

(* DELETE /cvs/{id}: soft_delete_for_user sets deleted_at and clears the   *)
(* text.                                                                   *)
DeleteCv(c) ==
  /\ cv[c] # "deleted"
  /\ cv' = [cv EXCEPT ![c] = "deleted"]
  /\ UNCHANGED <<queueVars, status, inWindow, results, sourceLog, completed,
                 emails, apiVars, workerVars>>

-----------------------------------------------------------------------------
(* The worker.                                                             *)

RunAt(w) == RunOf[wmsg[w]]

Goto(w, step) == wpc' = [wpc EXCEPT ![w] = step]

(* The session expires the row at each commit and loads it again at the    *)
(* first attribute access after it.                                        *)
LoadRow(w) ==
  seen' = [seen EXCEPT ![w] = [status |-> status[RunAt(w)],
                               log |-> sourceLog[RunAt(w)]]]

(* SQLAlchemy sends an UPDATE for a column only when the assigned value    *)
(* differs from the one the session has loaded.                            *)
WriteStatus(w, s) ==
  status' = IF seen[w].status = s THEN status
            ELSE [status EXCEPT ![RunAt(w)] = s]

WriteSourceLog(w, log) ==
  sourceLog' = IF seen[w].log = log THEN sourceLog
               ELSE [sourceLog EXCEPT ![RunAt(w)] = log]

(* consume: receive_messages.                                              *)
Receive(w, m) ==
  /\ wpc[w] = "idle"
  /\ ReceiveLocked(w, m)
  /\ wmsg' = [wmsg EXCEPT ![w] = m]
  /\ Goto(w, "received")
  /\ UNCHANGED <<dbVars, emails, apiVars, localVars>>

(* Fault for the checks: only terminal runs are turned away.               *)
BugLoadRun(w) ==
  /\ wpc[w] = "received"
  /\ LoadRow(w)
  /\ Goto(w, IF IsTerminal(status[RunAt(w)]) THEN "settle" ELSE "claim")
  /\ UNCHANGED <<queueVars, dbVars, emails, apiVars, wmsg, rows, answered>>

(* handle_analysis_run_message: get_by_id and the transition guard.        *)
LoadRun(w) ==
  /\ wpc[w] = "received"
  /\ LoadRow(w)
  /\ Goto(w, IF CanTransition(status[RunAt(w)], "scraping")
             THEN "claim" ELSE "settle")
  /\ UNCHANGED <<queueVars, dbVars, emails, apiVars, wmsg, rows, answered>>

(* pipeline.run: status = SCRAPING, commit.                                *)
ClaimRun(w) ==
  /\ wpc[w] = "claim"
  /\ WriteStatus(w, "scraping")
  /\ Goto(w, "loadCv")
  /\ UNCHANGED <<queueVars, inWindow, results, sourceLog, completed, cv,
                 emails, apiVars, wmsg, localVars>>

(* The row is reloaded and _load_cv_text runs; without text the run is     *)
(* finalized at once, with no results and no source outcomes.              *)
LoadCv(w) ==
  /\ wpc[w] = "loadCv"
  /\ LoadRow(w)
  /\ Goto(w, IF cv[CvOf[RunAt(w)]] = "readable" THEN "fetch" ELSE "finalize")
  /\ UNCHANGED <<queueVars, dbVars, emails, apiVars, wmsg, rows, answered>>

(* _fetch_all_listings: per source its listings, or Failed (JobSourceError).*)
FetchOutcomes == [Sources -> {Failed} \cup SUBSET Listings]

Successes(outcome) == {s \in Sources : outcome[s] # Failed}

(* Dedup by URL, the first source that returned the listing keeps it.      *)
MergedListings(outcome) ==
  {row \in Rows :
     /\ row[1] \in Successes(outcome)
     /\ row[2] \in outcome[row[1]]
     /\ \A s \in Successes(outcome) : s < row[1] => row[2] \notin outcome[s]}

(* Fault for the checks: a failed source aborts the run.                   *)
BugFetch(w) ==
  /\ wpc[w] = "fetch"
  /\ \E outcome \in FetchOutcomes :
       /\ rows' = [rows EXCEPT ![w] = MergedListings(outcome)]
       /\ answered' = [answered EXCEPT ![w] = Successes(outcome)]
       /\ Goto(w, IF Successes(outcome) = Sources THEN "startScoring" ELSE "settle")
  /\ UNCHANGED <<queueVars, dbVars, emails, apiVars, wmsg, seen>>

Fetch(w) ==
  /\ wpc[w] = "fetch"
  /\ \E outcome \in FetchOutcomes :
       /\ rows' = [rows EXCEPT ![w] = MergedListings(outcome)]
       /\ answered' = [answered EXCEPT ![w] = Successes(outcome)]
  /\ Goto(w, "startScoring")
  /\ UNCHANGED <<queueVars, dbVars, emails, apiVars, wmsg, seen>>

(* status = SCORING, commit.                                               *)
BeginScoring(w) ==
  /\ wpc[w] = "startScoring"
  /\ WriteStatus(w, "scoring")
  /\ Goto(w, "score")
  /\ UNCHANGED <<queueVars, inWindow, results, sourceLog, completed, cv,
                 emails, apiVars, wmsg, localVars>>

(* The row is reloaded; score_run keeps the listings the LLM could score.  *)
Score(w) ==
  /\ wpc[w] = "score"
  /\ LoadRow(w)
  /\ \E scored \in SUBSET rows[w] : rows' = [rows EXCEPT ![w] = scored]
  /\ Goto(w, "finalize")
  /\ UNCHANGED <<queueVars, dbVars, emails, apiVars, wmsg, answered>>

(* Fault for the checks: the status decided by the sources that answered   *)
(* instead of by what was stored.                                          *)
BugFinalizeBySources(w) ==
  /\ wpc[w] = "finalize"
  /\ results[RunAt(w)] \cap rows[w] = {}
  /\ results' = [results EXCEPT ![RunAt(w)] = @ \cup rows[w]]
  /\ WriteSourceLog(w, IF NumSources = 0 THEN NoLog ELSE answered[w])
  /\ WriteStatus(w, ResolveTerminalStatus(answered[w] \notin {NoLog, {}}))
  /\ completed' = [completed EXCEPT ![RunAt(w)] = TRUE]
  /\ Goto(w, "notify")
  /\ UNCHANGED <<queueVars, inWindow, cv, emails, apiVars, wmsg, localVars>>

(* _finalize: results, source outcomes, terminal status and completed_at   *)
(* in one commit.                                                          *)
Finalize(w) ==
  /\ wpc[w] = "finalize"
  /\ results[RunAt(w)] \cap rows[w] = {}
  /\ results' = [results EXCEPT ![RunAt(w)] = @ \cup rows[w]]
  /\ WriteSourceLog(w, IF NumSources = 0 THEN NoLog ELSE answered[w])
  /\ WriteStatus(w, ResolveTerminalStatus(rows[w] # {}))
  /\ completed' = [completed EXCEPT ![RunAt(w)] = TRUE]
  /\ Goto(w, "notify")
  /\ UNCHANGED <<queueVars, inWindow, cv, emails, apiVars, wmsg, localVars>>

(* The same commit refused by uq_job_match_result_run_source_external:     *)
(* IntegrityError, caught and rolled back in process_message.              *)
FinalizeRefused(w) ==
  /\ wpc[w] = "finalize"
  /\ results[RunAt(w)] \cap rows[w] # {}
  /\ Goto(w, "settle")
  /\ UNCHANGED <<queueVars, dbVars, emails, apiVars, wmsg, localVars>>

(* Fault for the checks: the e-mail also goes out for failed runs.         *)
BugNotify(w) ==
  /\ wpc[w] = "notify"
  /\ \/ emails' = [emails EXCEPT ![RunAt(w)] = @ + 1]
     \/ UNCHANGED emails
  /\ Goto(w, "settle")
  /\ UNCHANGED <<queueVars, dbVars, apiVars, wmsg, localVars>>

(* _send_completion_email, decided on the reloaded row; a provider failure *)
(* is swallowed.                                                           *)
Notify(w) ==
  /\ wpc[w] = "notify"
  /\ \/ /\ status[RunAt(w)] = "complete"
        /\ emails' = [emails EXCEPT ![RunAt(w)] = @ + 1]
     \/ UNCHANGED emails
  /\ Goto(w, "settle")
  /\ UNCHANGED <<queueVars, dbVars, apiVars, wmsg, localVars>>

ForgetMessage(w) ==
  /\ Goto(w, "idle")
  /\ wmsg' = [wmsg EXCEPT ![w] = NoMessage]
  /\ seen' = [seen EXCEPT ![w] = NoRow]
  /\ rows' = [rows EXCEPT ![w] = {}]
  /\ answered' = [answered EXCEPT ![w] = NoLog]

(* complete_message after the handler returned.  With the lock lost the    *)
(* call raises out of consume and the process ends; its successor starts   *)
(* idle, like this one.                                                    *)
SettleMessage(w) ==
  /\ wpc[w] = "settle"
  /\ CompleteMessage(w, wmsg[w])
  /\ ForgetMessage(w)
  /\ UNCHANGED <<dbVars, emails, apiVars>>

(* process_message's catch-all: logged, rolled back, message acknowledged. *)
UnexpectedError(w) ==
  /\ \/ "unexpected_error" \in Faults /\ wpc[w] \in Handling
     \/ "source_error" \in Faults /\ wpc[w] = "fetch"
  /\ Goto(w, "settle")
  /\ UNCHANGED <<queueVars, dbVars, emails, apiVars, wmsg, localVars>>

(* SIGTERM raised as KeyboardInterrupt passes the catch-all; a crash has   *)
(* the same effect.  Uncommitted work is gone, the message is unsettled.   *)
StopWorker(w) ==
  /\ "stop" \in Faults
  /\ wpc[w] # "idle"
  /\ OrphanLocks(w)
  /\ ForgetMessage(w)
  /\ UNCHANGED <<dbVars, emails, apiVars>>

(* Locks of stopped workers always run out.  A run takes minutes and the   *)
(* lock a minute, so a live handler may lose it too; losing it in the      *)
(* moment between receive and claim takes a stall.                         *)
ExpireLock(m) ==
  /\ LockRunsOut(m)
  /\ \A w \in Workers : holder[m] = w =>
       /\ "lock_expiry" \in Faults
       /\ wpc[w] \in {"received", "claim"} => "stall" \in Faults
  /\ UNCHANGED <<dbVars, emails, apiVars, workerVars>>

-----------------------------------------------------------------------------
ApiStep(p) ==
  \/ \E r \in Runs : Admit(p, r)
  \/ Persist(p)
  \/ Publish(p)
  \/ AbortRequest(p)

(* What a worker process does by itself when it is left running.           *)
WorkerStep(w) ==
  \/ \E m \in Messages : Receive(w, m)
  \/ LoadRun(w)
  \/ ClaimRun(w)
  \/ LoadCv(w)
  \/ Fetch(w)
  \/ BeginScoring(w)
  \/ Score(w)
  \/ Finalize(w)
  \/ FinalizeRefused(w)
  \/ Notify(w)
  \/ SettleMessage(w)

Next ==
  \/ \E p \in Replicas : ApiStep(p)
  \/ \E w \in Workers : WorkerStep(w) \/ UnexpectedError(w) \/ StopWorker(w)
  \/ \E m \in Messages : ExpireLock(m)
  \/ \E r \in Runs : LeaveWindow(r)
  \/ \E c \in Cvs : DeleteCv(c)

Spec == Init /\ [][Next]_vars

(* Fairness: a request that was admitted runs to its end, a worker that is *)
(* not stopped goes on (every call it makes has a timeout and a bounded    *)
(* number of attempts), and the broker takes unsettled locks back.         *)
Fairness ==
  /\ \A p \in Replicas : WF_vars(Persist(p)) /\ WF_vars(Publish(p))
  /\ \A w \in Workers : WF_vars(WorkerStep(w))
  /\ \A m \in Messages : WF_vars(ExpireLock(m))

FairSpec == Spec /\ Fairness
-----------------------------------------------------------------------------
(* Correctness.                                                            *)

(* A worker between its claim of a run and the commit that ends the run.   *)
Executing(w) ==
  wpc[w] \in {"loadCv", "fetch", "startScoring", "score", "finalize"}

(* One concurrent run: a user never has two runs in an active status,      *)
(* although start_analysis_run decides on statuses it read before the      *)
(* commit, while workers move them.  Needs a single API replica.           *)
OneActiveRunPerUser ==
  \A r1, r2 \in Runs :
    /\ OwnerOf[r1] = OwnerOf[r2]
    /\ IsActive(status[r1])
    /\ IsActive(status[r2])
    => r1 = r2

(* Rolling quota: no standard account has more than DailyRunLimit runs     *)
(* that were created within the last 24 hours, whatever became of them.    *)
QuotaRespected ==
  \A u \in Users \ Unlimited : RunsInWindow(u) <= DailyRunLimit

(* No run is executed by two workers at a time: the transition guard of    *)
(* handle_analysis_run_message turns every redelivery away once the first  *)
(* worker has committed SCRAPING.                                          *)
SingleExecution ==
  \A w1, w2 \in Workers :
    Executing(w1) /\ Executing(w2) /\ RunAt(w1) = RunAt(w2) => w1 = w2

(* What a reader of the row concludes from its status is true of the other *)
(* columns and tables: results exist for complete runs only, completed_at  *)
(* is set for terminal runs only, every result comes from a source logged  *)
(* as having answered.                                                     *)
OutcomeConsistent ==
  \A r \in Runs :
    /\ status[r] = "complete" <=> results[r] # {}
    /\ IsTerminal(status[r]) <=> completed[r]
    /\ results[r] # {} => {row[1] : row \in results[r]} \subseteq sourceLog[r]

(* A queued run still has something that will start it: the request that   *)
(* is about to publish, or a message; the acknowledgement comes only after *)
(* the claim, so a worker that stops in between loses nothing.  A message  *)
(* that was dead-lettered counts although nothing will start its run, and  *)
(* a request must not die before it publishes.                             *)
QueuedRunHasCarrier ==
  \A r \in Runs : status[r] = "queued" =>
    \/ \E p \in Replicas : apiPc[p] = "persisted" /\ apiRun[p] = r
    \/ \E m \in Messages : RunOf[m] = r /\ (Outstanding(m) \/ mstate[m] = "dead")

(* What survives a run being executed twice (a message sent twice, or a    *)
(* worker stalled past its lock before the claim): a complete run has      *)
(* results to show, an e-mail was only sent for results that are stored,   *)
(* and nothing is terminal or has results without completed_at.            *)
NothingHollow ==
  \A r \in Runs :
    /\ status[r] = "complete" \/ emails[r] > 0 => results[r] # {}
    /\ IsTerminal(status[r]) \/ results[r] # {} => completed[r]

(* backend/tests/domain/test_run_state_machine.py:37 "Complete and Failed  *)
(* runs are terminal [...] no further lifecycle changes".  The code breaks *)
(* it once two copies of a message have both been loaded.                  *)
TerminalIsFinal ==
  [][\A r \in Runs : IsTerminal(status[r]) => status'[r] = status[r]]_vars

(* Every run that was accepted reaches a terminal status: "Analysis Runs   *)
(* to complete reliably even when one Job Source fails" (PRD), also when   *)
(* two workers execute it.  (A run that a second copy of its message opens *)
(* again after that may stay in scoring, see FinalizeRefused.)             *)
EveryRunTerminates ==
  \A r \in Runs : status[r] = "queued" ~> IsTerminal(status[r])

(* The refinement mapping keeps the three columns the owner can observe    *)
(* and forgets queue, workers and requests.                                *)
Lifecycle == INSTANCE RunLifecycle
  WITH Runs <- Runs, Rows <- Rows,
       status <- status, results <- results, emails <- emails

(* The detailed model implements the lifecycle promised to the owner.      *)
ImplementsLifecycle == Lifecycle!LifecycleSpec
=============================================================================
