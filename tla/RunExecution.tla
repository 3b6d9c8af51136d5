---------------------------- MODULE RunExecution ----------------------------
(***************************************************************************)
(* One execution of a run after its claim, AnalysisRunPipeline.run of      *)
(* worker/pipeline.py, without interruption but in full detail: the HTTP   *)
(* answers of the sources (JobSourceFetch) and the LLM calls (ScoringRun)  *)
(* that AnalysisRuns sums up in its steps Fetch and Score, and what is     *)
(* stored about them and told to the owner.                                *)
(***************************************************************************)
EXTENDS JobSourceFetch, ScoringRun, RunDomain, Functions

CONSTANT NoFinops   \* the empty finops_json

VARIABLES
  phase,           \* where pipeline.run is
  readable,        \* whether the CV still has text
  status,          \* columns of the run: status,
  sourceFailures,  \*   source_failures_json; both parts empty for null
  finops,          \*   finops_json
  results          \* job_match_result rows of the run

rowVars == <<status, sourceFailures, finops, results>>
vars    == <<phase, readable, rowVars, fetchVars, scoringVars>>

Phases ==
  {"loadCv", "fetch", "startScoring", "score", "finalize", "ended", "escaped"}

SourceLog == [failures : SUBSET Sources, successes : SUBSET Sources]
Finops    == [listings_scored : Nat, listings_skipped : Nat, tokens : Nat]

Init ==
  /\ phase = "loadCv"
  /\ readable \in BOOLEAN
  /\ status = "scraping"
  /\ sourceFailures = [failures |-> {}, successes |-> {}]
  /\ finops = NoFinops
  /\ results = {}
  /\ FetchInit
  /\ ScoringInit

(* _load_cv_text; without text no source is asked.                         *)
LoadCv ==
  /\ phase = "loadCv"
  /\ phase' = IF readable THEN "fetch" ELSE "finalize"
  /\ UNCHANGED <<readable, rowVars, fetchVars, scoringVars>>

Fetch ==
  /\ phase = "fetch"
  /\ SourceAnswers \/ AttemptFails \/ SourceRefuses
  /\ UNCHANGED <<phase, readable, rowVars, scoringVars>>

(* _fetch_all_listings returns.                                            *)
EndFetch ==
  /\ phase = "fetch"
  /\ Fetched
  /\ phase' = "startScoring"
  /\ UNCHANGED <<readable, rowVars, fetchVars, scoringVars>>

BeginScoring ==
  /\ phase = "startScoring"
  /\ StartScoring(listings)
  /\ phase' = "score"
  /\ status' = "scoring"
  /\ UNCHANGED <<readable, sourceFailures, finops, results, fetchVars>>

Score ==
  /\ phase = "score"
  /\ \E u \in Usages : CallSucceeds(u) \/ CallFails(u)
  /\ UNCHANGED <<phase, readable, rowVars, fetchVars>>

(* score_run returns its lists and totals.                                 *)
EndScoring ==
  /\ phase = "score"
  /\ ScoringOver
  /\ phase' = "finalize"
  /\ UNCHANGED <<readable, rowVars, fetchVars, scoringVars>>

(* _finalize: everything in one commit.  Without CV text the FinOps record *)
(* stays empty.                                                            *)
Finalize ==
  /\ phase = "finalize"
  /\ finops' = IF readable
                 THEN [listings_scored |-> Len(scored), listings_skipped |-> skipped,
                       tokens |-> tokens]
                 ELSE NoFinops
  /\ results' = Range(scored)
  /\ sourceFailures' = [failures  |-> WithOutcome(GivenUp),
                        successes |-> WithOutcome({"ok"})]
  /\ status' = ResolveTerminalStatus(results' # {})
  /\ phase' = "ended"
  /\ UNCHANGED <<readable, fetchVars, scoringVars>>

(* A request ends in an exception that the pipeline does not anticipate: a *)
(* refused connection or a malformed body from a source, an SDK error that *)
(* is no APIError from the LLM client.  The row stays as it is.            *)
SourceEscapes ==
  /\ phase = "fetch"
  /\ Request
  /\ phase' = "escaped"
  /\ UNCHANGED <<readable, rowVars, scoringVars>>
  /\ UNCHANGED <<source, attempt, pauses, outcome, returned, listings>>

CallEscapes ==
  /\ phase = "score"
  /\ \E u \in Usages : Call(u)
  /\ phase' = "escaped"
  /\ UNCHANGED <<readable, rowVars, fetchVars>>
  /\ UNCHANGED <<todo, tries, remaining, scored, skipped, tokens>>

Next ==
  \/ LoadCv
  \/ Fetch \/ SourceEscapes \/ EndFetch
  \/ BeginScoring \/ Score \/ CallEscapes \/ EndScoring
  \/ Finalize

Spec == Init /\ [][Next]_vars

(* Every HTTP and LLM request is answered or times out.                    *)
FairSpec == Spec /\ WF_vars(Next)

-----------------------------------------------------------------------------
(* Types of the run's row and of the loop variables; remaining and tries   *)
(* never leave the range the loop of score_run relies on.                  *)
ExecutionTypeOK ==
  /\ phase \in Phases
  /\ readable \in BOOLEAN
  /\ status \in {"scraping", "scoring", "complete", "failed"}
  /\ sourceFailures \in SourceLog
  /\ finops \in Finops \cup {NoFinops}
  /\ results \in SUBSET Listings
  /\ FetchTypeOK
  /\ todo \in Seq(Listings)
  /\ tries \in 0..(MaxAttempts - 1)
  /\ remaining \in 0..MaxCalls
  /\ scored \in Seq(Listings)
  /\ {skipped, tokens, calls, bill} \subseteq Nat

(* The hard product cap (CONTEXT.md:128): however many listings, retries   *)
(* and failures, one execution never calls score_listing more than         *)
(* MaxCalls times.  Requests the OpenAI library repeats are not counted.   *)
CallsWithinBudget == calls <= MaxCalls

(* No merged listing is lost on the way: after scoring it was scored,      *)
(* skipped or left over, listings are left over only when the budget is    *)
(* used up to the last call, and the stored FinOps counts and the stored   *)
(* results say the same (score_run:121-149, _finalize).                    *)
EveryListingAccountedFor ==
  phase = "ended" /\ readable =>
    /\ Len(scored) + skipped + Len(todo) = Cardinality(listings)
    /\ todo # << >> => calls = MaxCalls
    /\ finops.listings_scored = Len(scored)
    /\ finops.listings_skipped = skipped
    /\ status = "complete" <=> finops.listings_scored > 0
    /\ results \subseteq listings

(* PRD.md:161, "retry once, then mark listing as scoring-failed": while    *)
(* there is budget, every skipped listing has had all its attempts; and    *)
(* never does a listing get more of them.                                  *)
RetriedBeforeSkipped ==
  /\ remaining > 0 => calls >= Len(scored) + MaxAttempts * skipped
  /\ calls <= MaxAttempts * (Len(scored) + skipped + 1)

(* Every source gets the same patience, wherever it comes in the order and *)
(* whatever happened to the others: it is given up for transient errors    *)
(* only after MaxRetries + 1 requests, each pair of them separated by a    *)
(* pause, and it is never asked again after an answer.                     *)
NoSourceGivenUpEarly ==
  \A s \in Sources :
    /\ outcome[s] = "exhausted" => requests[s] = MaxRetries + 1
    /\ outcome[s] # "pending" => requests[s] = pauses[s] + 1
    /\ requests[s] <= MaxRetries + 1

(* One source's failure costs none of another source's listings, and a     *)
(* URL that several sources return is one listing, attributed to the first *)
(* of them (_fetch_all_listings:146-166).                                  *)
ListingsMerged ==
  listings = {l \in Listings :
    /\ l.url \in returned[l.source]
    /\ \A s \in 1..(l.source - 1) : l.url \notin returned[s]}

(* What the owner of a failed run is told is what happened to the sources, *)
(* although it is reconstructed from the stored outcomes: scraping failed  *)
(* exactly when sources were asked and every one failed (the comments of   *)
(* run_outcomes.py:50-53, tests/domain/test_run_outcomes.py:96).  The      *)
(* docstring of the same function says otherwise: NoJobsFoundAsDocumented. *)
MessageTellsWhy ==
  phase = "ended" =>
    ClassifyRunFailure(status, sourceFailures.successes, sourceFailures.failures)
      = "scrape_failed"
    <=> /\ readable
        /\ NumSources > 0
        /\ \A s \in Sources : outcome[s] \in GivenUp

(* No mixture of answers keeps the retry loops going for ever: pipeline.run *)
(* returns or raises.                                                      *)
EveryExecutionEnds == <>(phase \in {"ended", "escaped"})

(* CONTEXT.md:269, "FinOps logs cost for whatever AI steps actually ran,   *)
(* including partial runs": the stored record covers all that was charged. *)
FinopsCoversBill == phase = "ended" /\ readable => finops.tokens = bill

(* When the owner reads "No jobs found for this search": run_outcomes.py:6 *)
(* says "Zero listings from an empty search (no scraping errors)", lines   *)
(* 41-42 "when the run failed but all sources responded cleanly".  Of what *)
(* they say one thing at least should be true: nothing was found, or no    *)
(* source failed.  The code breaks it, and so both sentences.              *)
NoJobsFoundAsDocumented ==
  ClassifyRunFailure(status, sourceFailures.successes, sourceFailures.failures)
    = "no_jobs_found"
  => \/ listings = {}
     \/ \A s \in Sources : outcome[s] \notin GivenUp
=============================================================================
