----------------------------- MODULE RunDomain -----------------------------
(***************************************************************************)
(* The pure rules of an Analysis Run: app/domain/analysis_run.py,          *)
(* app/domain/quota.py and app/domain/run_outcomes.py.  No state; every    *)
(* module that has runs in its state takes its guards from here.           *)
(***************************************************************************)
EXTENDS Naturals

(* The stored statuses.  "absent" is added by the modules that also need a *)
(* value for a row that does not exist yet; it is not a status.            *)
AnalysisRunStatus ==
  {"queued", "scraping", "scoring", "complete", "failed", "cancelled"}

ActiveStatuses   == {"queued", "scraping", "scoring"}
TerminalStatuses == {"complete", "failed", "cancelled"}

(* _VALID_TRANSITIONS: the lifecycle of the PRD, as a relation.            *)
ValidTransitions ==
  { <<"queued", "scraping">>,
    <<"scraping", "scoring">>,
    <<"scoring", "complete">>,
    <<"scoring", "failed">> }

CanTransition(current, target) == <<current, target>> \in ValidTransitions

IsActive(s)   == s \in ActiveStatuses
IsTerminal(s) == s \in TerminalStatuses

(* At least one scored listing makes the run a (partial) success.          *)
ResolveTerminalStatus(anyScored) == IF anyScored THEN "complete" ELSE "failed"

(* Fault for the checks: one failed source suffices for the excuse.        *)
BugClassifyRunFailure(s, successes, failures) ==
  IF s # "failed" THEN "none"
  ELSE IF failures # {} THEN "scrape_failed"
  ELSE "no_jobs_found"

(* The reason shown for a failed run: scraping failed only when sources    *)
(* failed and none answered.                                               *)
ClassifyRunFailure(s, successes, failures) ==
  IF s # "failed" THEN "none"
  ELSE IF successes = {} /\ failures # {} THEN "scrape_failed"
  ELSE "no_jobs_found"

(* Fault for the checks: the cap compared with <= instead of <.            *)
BugCanStart(isUnlimited, runsInWindow, hasActiveRun, limit) ==
  /\ ~hasActiveRun
  /\ isUnlimited \/ runsInWindow <= limit

(* evaluate_run_quota, can_start: an unlimited account is exempt from the  *)
(* daily cap, never from the one-concurrent-run rule.                      *)
CanStart(isUnlimited, runsInWindow, hasActiveRun, limit) ==
  /\ ~hasActiveRun
  /\ isUnlimited \/ runsInWindow < limit
=============================================================================
