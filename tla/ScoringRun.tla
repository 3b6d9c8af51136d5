----------------------------- MODULE ScoringRun -----------------------------
(***************************************************************************)
(* ScoringService.score_run (app/services/scoring_service.py): LLM calls   *)
(* for one listing after the other, a retry for each, and a budget of      *)
(* calls that listings and retries share.  One action per LLM call.        *)
(*                                                                         *)
(* calls and bill count the calls of the LLM client and what they are      *)
(* charged with: the program has only remaining and tokens.  The OpenAI    *)
(* library behind the client repeats a request that failed in transit      *)
(* (its default, openai_client.py:37 leaves it); that is one call here.    *)
(***************************************************************************)
EXTENDS Naturals, Sequences, FiniteSets

CONSTANTS
  MaxCalls,      \* _MAX_SCORING_CALLS_PER_RUN = 100
  MaxAttempts,   \* _MAX_ATTEMPTS_PER_LISTING = 2
  Usages         \* tokens one call may be charged with

ASSUME ScoringAssumption ==
  /\ MaxCalls \in Nat
  /\ MaxAttempts \in Nat \ {0}
  /\ Usages \subseteq Nat

VARIABLES
  todo,          \* listings the loop has not finished, the current one first
  tries,         \* calls_used for the current listing
  remaining,     \* calls_remaining, updated when a listing is finished
  scored,        \* scored listings
  skipped,       \* number of listings given up
  tokens,        \* prompt and completion tokens summed for FinOps
  calls, bill    \* calls of score_listing, tokens charged

scoringVars == <<todo, tries, remaining, scored, skipped, tokens, calls, bill>>

ScoringInit ==
  /\ todo = << >>
  /\ tries = 0
  /\ remaining = MaxCalls
  /\ scored = << >>
  /\ skipped = 0
  /\ tokens = 0
  /\ calls = 0
  /\ bill = 0

(* A list of the elements of S, in the order in which they were fetched.   *)
Orders(S) ==
  {o \in [1..Cardinality(S) -> S] : \A i, j \in DOMAIN o : o[i] = o[j] => i = j}

StartScoring(S) ==
  /\ todo' \in Orders(S)
  /\ UNCHANGED <<tries, remaining, scored, skipped, tokens, calls, bill>>

ScoringOver == todo = << >> \/ remaining = 0

(* Fault for the checks: the retry ignores what is left of the budget.     *)
BugMaxTries == MaxAttempts

(* max_attempts of the current listing.                                    *)
MaxTries == IF MaxAttempts < remaining THEN MaxAttempts ELSE remaining

Call(u) ==
  /\ ~ScoringOver
  /\ calls' = calls + 1
  /\ bill' = bill + u

(* Fault for the checks: the skipped listing is not counted.               *)
BugFinishListing(gaveUp) ==
  /\ todo' = Tail(todo)
  /\ tries' = 0
  /\ remaining' = remaining - (tries + 1)
  /\ UNCHANGED skipped

FinishListing(gaveUp) ==
  /\ todo' = Tail(todo)
  /\ tries' = 0
  /\ remaining' = remaining - (tries + 1)
  /\ skipped' = IF gaveUp THEN skipped + 1 ELSE skipped

(* A usable answer: the listing is scored and its usage recorded.          *)
CallSucceeds(u) ==
  /\ Call(u)
  /\ scored' = Append(scored, Head(todo))
  /\ tokens' = tokens + u
  /\ FinishListing(FALSE)

(* Fault for the checks: no second attempt.                                *)
BugCallFails(u) ==
  /\ Call(u)
  /\ FinishListing(TRUE)
  /\ UNCHANGED <<scored, tokens>>

(* LlmClientError or ValueError: an API error, or a refusal, an unparsable *)
(* answer, a score out of range, which are charged all the same.  Another  *)
(* attempt follows or the listing is skipped; the usage of the failed      *)
(* attempt is not recorded.                                                *)
CallFails(u) ==
  /\ Call(u)
  /\ IF tries + 1 < MaxTries
       THEN /\ tries' = tries + 1
            /\ UNCHANGED <<todo, remaining, skipped>>
       ELSE FinishListing(TRUE)
  /\ UNCHANGED <<scored, tokens>>
=============================================================================
