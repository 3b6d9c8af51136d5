---------------------------- MODULE RunLifecycle ----------------------------
(***************************************************************************)
(* What an Analysis Run promises to its owner, without API replicas,       *)
(* queue or workers: the row appears queued, moves forward only, gets all  *)
(* its results in the one step that makes it terminal, and is announced    *)
(* by e-mail at most once and only when complete.  AnalysisRuns, the       *)
(* detailed model, implements this specification as long as no worker is   *)
(* stalled past its message lock and no message is sent twice.             *)
(*                                                                         *)
(* The step from "scraping" to "failed" is the code's own: a run whose CV  *)
(* has no text is finalized without scoring (worker/pipeline.py:100-104),  *)
(* although _VALID_TRANSITIONS does not list that edge.                    *)
(***************************************************************************)
EXTENDS RunDomain

CONSTANTS
  Runs,   \* Analysis Run ids
  Rows    \* possible Job Match Results of a run (source, listing)

VARIABLES
  status,    \* status of each run; "absent" before the row is committed
  results,   \* results stored for each run
  emails     \* completion e-mails handed to the provider for each run

lifecycleVars == <<status, results, emails>>

LifecycleInit ==
  /\ status = [r \in Runs |-> "absent"]
  /\ results = [r \in Runs |-> {}]
  /\ emails = [r \in Runs |-> 0]

Move(r, from, to) ==
  /\ status[r] = from
  /\ status' = [status EXCEPT ![r] = to]

Submit(r)       == Move(r, "absent", "queued") /\ UNCHANGED <<results, emails>>
StartScraping(r) == Move(r, "queued", "scraping") /\ UNCHANGED <<results, emails>>
StartScoring(r) == Move(r, "scraping", "scoring") /\ UNCHANGED <<results, emails>>

(* Results and terminal status become visible together.                    *)
FinishScored(r) ==
  \E rows \in SUBSET Rows :
    /\ Move(r, "scoring", ResolveTerminalStatus(rows # {}))
    /\ results' = [results EXCEPT ![r] = rows]
    /\ UNCHANGED emails

FinishWithoutCv(r) == Move(r, "scraping", "failed") /\ UNCHANGED <<results, emails>>

Announce(r) ==
  /\ status[r] = "complete"
  /\ emails[r] = 0
  /\ emails' = [emails EXCEPT ![r] = 1]
  /\ UNCHANGED <<status, results>>

LifecycleNext ==
  \E r \in Runs :
    \/ Submit(r)
    \/ StartScraping(r)
    \/ StartScoring(r)
    \/ FinishScored(r)
    \/ FinishWithoutCv(r)
    \/ Announce(r)

LifecycleSpec == LifecycleInit /\ [][LifecycleNext]_lifecycleVars
=============================================================================
