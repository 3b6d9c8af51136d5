--------------------------- MODULE ExecutionInRun ---------------------------
(***************************************************************************)
(* RunExecution put back where it comes from: the HTTP answers and LLM     *)
(* calls of one execution, read as the steps LoadCv, Fetch, BeginScoring,  *)
(* Score and Finalize that AnalysisRuns takes for a worker with a claimed  *)
(* run.  AnalysisRuns is instantiated for one run, one message and one     *)
(* worker; what the pipeline does not touch is constant.                   *)
(***************************************************************************)
EXTENDS RunExecution

CONSTANTS NoLog, Failed   \* as in AnalysisRuns

ASSUME InRunAssumption ==
  /\ \A S \in SUBSET Sources : NoLog # S
  /\ \A S \in SUBSET Urls : Failed # S

(* The same value at the one index there is.                               *)
OfRun(v)     == [r \in {"run"} |-> v]
OfMessage(v) == [m \in {"message"} |-> v]
OfWorker(v)  == [w \in {"worker"} |-> v]

AsRows(ls) == {<<l.source, l.url>> : l \in ls}

(* An execution that ended in an exception had passed the fetch phase if   *)
(* and only if no source was left to ask.                                  *)
HasListings == phase \in {"startScoring", "score"} \/ (phase = "escaped" /\ Fetched)
HasScores   == phase \in {"finalize", "ended"}

(* The local variable listings, or scored once score_run has returned.     *)
CarriedRows ==
  CASE HasListings -> AsRows(listings)
    [] HasScores   -> AsRows(Range(scored))
    [] OTHER       -> {}

AnsweredSources ==
  IF HasListings \/ (HasScores /\ readable) THEN WithOutcome({"ok"}) ELSE NoLog

(* The row as the session loaded it last: before the claim, after it, and  *)
(* after the commit of "scoring".                                          *)
LoadedStatus ==
  CASE phase = "loadCv"       -> "queued"
    [] HasScores /\ readable  -> "scoring"
    [] OTHER                  -> "scraping"

WorkerAt ==
  CASE phase = "ended"   -> "notify"
    [] phase = "escaped" -> "settle"
    [] OTHER             -> phase

StoredLog ==
  IF sourceFailures = [failures |-> {}, successes |-> {}]
    THEN NoLog ELSE sourceFailures.successes

Pipeline == INSTANCE AnalysisRuns WITH
  Users <- {"owner"}, Unlimited <- {}, Cvs <- {"cv"}, Runs <- {"run"},
  OwnerOf <- OfRun("owner"), CvOf <- OfRun("cv"), RunOf <- OfMessage("run"),
  Messages <- {"message"}, Workers <- {"worker"}, Replicas <- {},
  NoWorker <- "nobody", NoRun <- "none", NoMessage <- "none",
  MaxDeliveryCount <- 1, DailyRunLimit <- 1, Listings <- Urls,
  Faults <- {"source_error", "unexpected_error"},
  mstate <- OfMessage("locked"), holder <- OfMessage("worker"),
  deliveries <- OfMessage(1),
  status <- OfRun(status), inWindow <- OfRun(TRUE),
  results <- OfRun(AsRows(results)), sourceLog <- OfRun(StoredLog),
  completed <- OfRun(phase = "ended"),
  cv <- [c \in {"cv"} |-> IF readable THEN "readable" ELSE "blank"],
  emails <- OfRun(0),
  apiPc <- [p \in {} |-> "idle"], apiRun <- [p \in {} |-> "none"],
  wpc <- OfWorker(WorkerAt), wmsg <- OfWorker("message"),
  seen <- OfWorker([status |-> LoadedStatus, log |-> NoLog]),
  rows <- OfWorker(CarriedRows), answered <- OfWorker(AnsweredSources)

(* What a worker does for the run it has claimed, up to the final commit.  *)
PipelineStep ==
  \/ Pipeline!LoadCv("worker")
  \/ Pipeline!Fetch("worker")
  \/ Pipeline!BeginScoring("worker")
  \/ Pipeline!Score("worker")
  \/ Pipeline!Finalize("worker")
  \/ Pipeline!UnexpectedError("worker")

(* An execution as its run sees it: it starts where ClaimRun left the      *)
(* worker and takes the steps of AnalysisRuns, whatever the sources and    *)
(* the LLM answer; between two of them the run sees nothing.  So what      *)
(* AnalysisRuns lets Fetch and Score choose is what the loops produce: the *)
(* rows carried are the merge of the sources that answered, the results a  *)
(* part of them, and the commit agrees with both.                          *)
ExecutesClaimedRun ==
  /\ Pipeline!TypeOK /\ WorkerAt = "loadCv" /\ status = "scraping"
  /\ [][PipelineStep]_(Pipeline!vars)
=============================================================================
