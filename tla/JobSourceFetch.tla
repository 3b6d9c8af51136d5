--------------------------- MODULE JobSourceFetch ---------------------------
(***************************************************************************)
(* The fetch phase of a run: worker/pipeline.py asks the Job Sources in    *)
(* order (_fetch_all_listings), and each adapter (app/job_sources/         *)
(* adzuna.py; the control of reed.py is the same) repeats its request on   *)
(* transient errors.  One action per HTTP answer.                          *)
(*                                                                         *)
(* requests and pauses are what the source's server and the injected sleep *)
(* see of the adapter.  A list of results is the set of its URLs: the      *)
(* merge keeps one listing per URL, whatever the order.                    *)
(***************************************************************************)
EXTENDS Naturals, FiniteSets

CONSTANTS
  NumSources,    \* registered Job Sources, numbered in fetch order
  MaxRetries,    \* _MAX_RETRIES = 2
  MaxListings,   \* _MAX_LISTINGS_PER_SOURCE = 50
  Urls           \* URLs a source may return

ASSUME FetchAssumption ==
  /\ NumSources \in Nat
  /\ MaxRetries \in Nat
  /\ MaxListings \in Nat

Sources  == 1..NumSources
Listings == [source : Sources, url : Urls]
Outcomes == {"pending", "ok", "exhausted", "refused"}

VARIABLES
  source,     \* the source being asked; NumSources + 1 after the last
  attempt,    \* attempts of its adapter that have failed
  requests,   \* requests each source received
  pauses,     \* how often its adapter slept
  outcome,    \* how the fetch of each source ended
  returned,   \* the URLs fetch_listings returned, per source
  listings    \* merged listings, deduplicated by URL

fetchVars == <<source, attempt, requests, pauses, outcome, returned, listings>>

FetchTypeOK ==
  /\ source \in 1..(NumSources + 1)
  /\ attempt \in 0..MaxRetries
  /\ requests \in [Sources -> Nat]
  /\ pauses \in [Sources -> Nat]
  /\ outcome \in [Sources -> Outcomes]
  /\ returned \in [Sources -> SUBSET Urls]
  /\ listings \in SUBSET Listings

FetchInit ==
  /\ source = 1
  /\ attempt = 0
  /\ requests = [s \in Sources |-> 0]
  /\ pauses = [s \in Sources |-> 0]
  /\ outcome = [s \in Sources |-> "pending"]
  /\ returned = [s \in Sources |-> {}]
  /\ listings = {}

Asking  == source \in Sources
Fetched == source = NumSources + 1

WithOutcome(kinds) == {s \in Sources : outcome[s] \in kinds}
GivenUp            == {"exhausted", "refused"}

(* What a list cut to MaxListings entries can contain.                     *)
Pages == {page \in SUBSET Urls : IsFiniteSet(page) /\ Cardinality(page) <= MaxListings}

(* Fault for the checks: no look-up in seen_urls.                          *)
BugMerge(ls, s, page) == ls \cup {[source |-> s, url |-> u] : u \in page}

(* The loop over the listings of one source: the first seen wins.          *)
Merge(ls, s, page) ==
  ls \cup {[source |-> s, url |-> u] : u \in page \ {l.url : l \in ls}}

Request ==
  /\ Asking
  /\ requests' = [requests EXCEPT ![source] = @ + 1]

(* Fault for the checks: the next adapter starts with the attempts of the  *)
(* one before.                                                             *)
BugNextSource(how) ==
  /\ outcome' = [outcome EXCEPT ![source] = how]
  /\ source' = source + 1
  /\ UNCHANGED attempt

(* fetch_listings is left, the pipeline notes the outcome and goes on.     *)
NextSource(how) ==
  /\ outcome' = [outcome EXCEPT ![source] = how]
  /\ source' = source + 1
  /\ attempt' = 0

SourceAnswers ==
  /\ Request
  /\ \E page \in Pages :
       /\ returned' = [returned EXCEPT ![source] = page]
       /\ listings' = Merge(listings, source, page)
  /\ NextSource("ok")
  /\ UNCHANGED pauses

(* Fault for the checks: a transient error is retried without end (the     *)
(* counters of the observers wrap around, to keep the fault finite).       *)
BugAttemptFails ==
  /\ Asking
  /\ requests' = [requests EXCEPT ![source] = (@ + 1) % (MaxRetries + 1)]
  /\ pauses' = [pauses EXCEPT ![source] = (@ + 1) % (MaxRetries + 1)]
  /\ UNCHANGED <<source, attempt, outcome, returned, listings>>

(* Timeout, 429 or 5xx: sleep and ask again; after the last attempt        *)
(* JobSourceError.                                                         *)
AttemptFails ==
  /\ Request
  /\ IF attempt < MaxRetries
       THEN /\ attempt' = attempt + 1
            /\ pauses' = [pauses EXCEPT ![source] = @ + 1]
            /\ UNCHANGED <<source, outcome>>
       ELSE /\ NextSource("exhausted")
            /\ UNCHANGED pauses
  /\ UNCHANGED <<returned, listings>>

(* Any other HTTP error status: JobSourceError at once.                    *)
SourceRefuses ==
  /\ Request
  /\ NextSource("refused")
  /\ UNCHANGED <<pauses, returned, listings>>
=============================================================================
