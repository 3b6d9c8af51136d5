------------------------ MODULE RunExecution_proofs ------------------------
(***************************************************************************)
(* What one execution of a run does for every number of sources, listings  *)
(* and calls: the inductive invariant ExecutionInv, and the properties     *)
(* read off it.                                                            *)
(***************************************************************************)
EXTENDS ExecutionInRun, FiniteSetTheorems, TLAPS

(* The sources are served one after the other.                             *)
SourceInv ==
  /\ \A s \in Sources :
       /\ s < source => outcome[s] # "pending" /\ requests[s] = pauses[s] + 1
       /\ s >= source => outcome[s] = "pending"
       /\ s > source => requests[s] = 0 /\ pauses[s] = 0
       /\ outcome[s] = "exhausted" => requests[s] = MaxRetries + 1
       /\ outcome[s] # "ok" => returned[s] = {}
       /\ requests[s] <= MaxRetries + 1
  /\ Asking => pauses[source] = attempt
  /\ ~Asking => attempt = 0
  /\ Asking /\ phase # "escaped" => requests[source] = attempt

(* What the budget has left is what the provider has not seen, up to the   *)
(* calls for the current listing.                                          *)
BudgetInv ==
  /\ calls <= MaxCalls
  /\ phase # "escaped" => calls + remaining = MaxCalls + tries
  /\ tries # 0 => tries < MaxTries

(* How far the run is, and where its listings are.                         *)
ProgressInv ==
  /\ phase \in {"loadCv", "fetch", "startScoring"} =>
       scored = << >> /\ todo = << >> /\ skipped = 0
  /\ phase \in {"startScoring", "score", "finalize", "ended"} /\ readable => Fetched
  /\ phase \in {"score", "finalize", "ended"} /\ readable =>
       Len(scored) + skipped + Len(todo) = Cardinality(listings)
  /\ phase \in {"finalize", "ended"} /\ readable => ScoringOver
  /\ phase = "loadCv" \/ ~readable => /\ source = 1 /\ scored = << >>
  /\ phase \in {"fetch", "startScoring", "score"} => readable
  /\ phase \in {"loadCv", "fetch", "startScoring"} => status = "scraping"
  /\ phase = "score" => status = "scoring"
  /\ phase = "finalize" => status = IF readable THEN "scoring" ELSE "scraping"
  /\ \A s \in Sources : returned[s] \subseteq {l.url : l \in listings}
  /\ Range(scored) \subseteq listings
  /\ Range(todo) \subseteq listings
  /\ IsFiniteSet(listings)

(* Nothing is stored before the final commit, and then everything at once. *)
StoredInv ==
  IF phase = "ended"
    THEN /\ results = Range(scored)
         /\ status = IF results # {} THEN "complete" ELSE "failed"
         /\ sourceFailures.successes = WithOutcome({"ok"})
         /\ sourceFailures.failures = WithOutcome(GivenUp)
         /\ readable => /\ finops.listings_scored = Len(scored)
                        /\ finops.listings_skipped = skipped
    ELSE /\ results = {}
         /\ sourceFailures = [failures |-> {}, successes |-> {}]

ExecutionInv ==
  /\ ExecutionTypeOK
  /\ SourceInv
  /\ BudgetInv
  /\ ProgressInv
  /\ ListingsMerged
  /\ StoredInv

-----------------------------------------------------------------------------
(* Facts about the data.                                                   *)
LEMMA RangeOfEmpty == Range(<< >>) = {}
  BY DEF Range

(* Appending an element adds it to the range. *)
LEMMA RangeOfAppend ==
  ASSUME NEW S, NEW q \in Seq(S), NEW e \in S
  PROVE  Range(Append(q, e)) = Range(q) \cup {e}
<1>1. /\ Append(q, e) \in Seq(S)
      /\ DOMAIN Append(q, e) = 1..(Len(q) + 1)
      /\ Append(q, e)[Len(q) + 1] = e
      /\ \A i \in 1..Len(q) : Append(q, e)[i] = q[i]
      /\ DOMAIN q = 1..Len(q)
      /\ Len(q) \in Nat
  OBVIOUS
<1>2. 1..(Len(q) + 1) = (1..Len(q)) \cup {Len(q) + 1}
  BY <1>1
<1> QED BY <1>1, <1>2 DEF Range

(* The current listing and what is left after it.                          *)
LEMMA HeadAndTail ==
  ASSUME NEW S, NEW q \in Seq(S), q # << >>
  PROVE  /\ Head(q) \in Range(q)
         /\ Head(q) \in S
         /\ Tail(q) \in Seq(S)
         /\ Len(Tail(q)) + 1 = Len(q)
         /\ Range(Tail(q)) \subseteq Range(q)
<1>1. /\ Len(q) \in Nat \ {0}
      /\ DOMAIN q = 1..Len(q)
      /\ Head(q) = q[1]
      /\ Tail(q) \in Seq(S)
      /\ Len(Tail(q)) = Len(q) - 1
      /\ DOMAIN Tail(q) = 1..(Len(q) - 1)
      /\ \A i \in 1..(Len(q) - 1) : Tail(q)[i] = q[i + 1]
  OBVIOUS
<1>2. \A i \in 1..(Len(q) - 1) : i + 1 \in 1..Len(q)
  BY <1>1
<1>3. 1 \in DOMAIN q
  BY <1>1
<1>4. Head(q) \in Range(q)
  BY <1>1, <1>3 DEF Range
<1>5. Range(Tail(q)) \subseteq Range(q)
  BY <1>1, <1>2 DEF Range
<1> QED BY <1>1, <1>4, <1>5

(* A list of all merged listings.                                          *)
LEMMA OrderType ==
  ASSUME NEW S, IsFiniteSet(S), NEW o \in Orders(S)
  PROVE  o \in Seq(S) /\ Len(o) = Cardinality(S) /\ Range(o) \subseteq S
<1>1. Cardinality(S) \in Nat
  BY FS_CardinalityType
<1>2. o \in [1..Cardinality(S) -> S]
  BY DEF Orders
<1>3. o \in Seq(S) /\ Len(o) = Cardinality(S)
  BY <1>1, <1>2
<1>4. Range(o) \subseteq S
  BY <1>2 DEF Range
<1> QED BY <1>3, <1>4

(* Merging a page leaves finitely many listings. *)
LEMMA MergeIsFinite ==
  ASSUME IsFiniteSet(listings), NEW page \in Pages, NEW s \in Sources
  PROVE  IsFiniteSet(Merge(listings, s, page))
<1> DEFINE fresh == page \ {l.url : l \in listings}
           added == {[source |-> s, url |-> u] : u \in fresh}
           f == [u \in fresh |-> [source |-> s, url |-> u]]
<1>1. IsFiniteSet(fresh)
  BY FS_Subset DEF Pages
<1>2. f \in Surjection(fresh, added)
  BY DEF Surjection
<1>3. IsFiniteSet(added)
  <2> HIDE DEF added, f, fresh
  <2> QED BY <1>1, <1>2, FS_Surjection
<1>4. IsFiniteSet(listings \cup added)
  BY <1>3, FS_Union
<1> QED BY <1>4 DEF Merge

-----------------------------------------------------------------------------
(* The inductive invariant, one lemma per action.                          *)
LEMMA InitInv == Init => ExecutionInv
<1> SUFFICES ASSUME Init PROVE ExecutionInv
  OBVIOUS
<1> USE FetchAssumption, ScoringAssumption DEF Init, FetchInit, ScoringInit
<1>1. ExecutionTypeOK
  BY DEF ExecutionTypeOK, FetchTypeOK, Phases, SourceLog, Sources, Outcomes
<1>2. SourceInv
  BY DEF SourceInv, Asking, Sources
<1>3. BudgetInv
  BY DEF BudgetInv
<1>4. ProgressInv
  BY RangeOfEmpty, FS_EmptySet DEF ProgressInv
<1>5. ListingsMerged
  BY DEF ListingsMerged, Listings
<1>6. StoredInv
  BY DEF StoredInv
<1> QED BY <1>1, <1>2, <1>3, <1>4, <1>5, <1>6 DEF ExecutionInv

(* A source answers: its listings are merged.                              *)
LEMMA MergeElements ==
  ASSUME NEW ls \in SUBSET Listings, NEW s \in Sources, NEW page \in SUBSET Urls
  PROVE  /\ Merge(ls, s, page) \in SUBSET Listings
         /\ \A l \in Listings :
              l \in Merge(ls, s, page) <=>
                \/ l \in ls
                \/ l.source = s /\ l.url \in page /\ \A k \in ls : k.url # l.url
         /\ \A u \in page : \E l \in Merge(ls, s, page) : l.url = u
<1> DEFINE new == {[source |-> s, url |-> u] : u \in page \ {l.url : l \in ls}}
<1>1. \A l \in new : l \in Listings /\ l.source = s /\ l.url \in page
                    /\ \A k \in ls : k.url # l.url
  BY DEF Listings
<1>2. \A l \in Listings : l = [source |-> l.source, url |-> l.url]
  BY DEF Listings
<1>3. \A l \in Listings : l.source = s /\ l.url \in page /\ (\A k \in ls : k.url # l.url)
                         => l \in new
  BY <1>2
<1>4. \A u \in page \ {l.url : l \in ls} : [source |-> s, url |-> u] \in new
  OBVIOUS
<1>5. \A u \in page : \E l \in ls \cup new : l.url = u
  <2> SUFFICES ASSUME NEW u \in page PROVE \E l \in ls \cup new : l.url = u
    OBVIOUS
  <2>1. CASE u \in {l.url : l \in ls}
    BY <2>1
  <2>2. CASE u \notin {l.url : l \in ls}
    <3>1. [source |-> s, url |-> u] \in new
      BY <2>2, <1>4
    <3>2. [source |-> s, url |-> u].url = u
      OBVIOUS
    <3> HIDE DEF new
    <3> QED BY <3>1, <3>2
  <2> QED BY <2>1, <2>2
<1>6. Merge(ls, s, page) = ls \cup new
  BY DEF Merge
<1> HIDE DEF new
<1> QED BY <1>1, <1>3, <1>5, <1>6

(* Which listings are there, source by source.                             *)
LEMMA MergedElements ==
  ASSUME ListingsMerged
  PROVE  \A l \in Listings :
           l \in listings <=> /\ l.url \in returned[l.source]
                             /\ \A s \in 1..(l.source - 1) : l.url \notin returned[s]
  BY DEF ListingsMerged

(* Merging the page of the current source keeps the listings attributed. *)
LEMMA AnswerKeepsMerged ==
  ASSUME ExecutionTypeOK, SourceInv, ListingsMerged,
         \A s \in Sources : returned[s] \subseteq {l.url : l \in listings},
         source \in Sources,
         NEW page \in SUBSET Urls,
         returned' = [returned EXCEPT ![source] = page],
         listings' = Merge(listings, source, page)
  PROVE  ListingsMerged'
<1>1. /\ returned \in [Sources -> SUBSET Urls]
      /\ listings \in SUBSET Listings
      /\ NumSources \in Nat
      /\ Sources = 1..NumSources
      /\ \A s \in Sources : s >= source => returned[s] = {}
  BY FetchAssumption DEF ExecutionTypeOK, FetchTypeOK, SourceInv, Sources
<1>2. /\ returned'[source] = page
      /\ \A s \in Sources : s # source => returned'[s] = returned[s]
  BY <1>1
<1>3. \A l \in listings : l.source \in Sources /\ l.url \in Urls
  BY <1>1 DEF Listings
<1>4. \A l \in listings : l.source < source /\ l.url \in returned[l.source]
  <2> SUFFICES ASSUME NEW l \in listings
               PROVE  l.source < source /\ l.url \in returned[l.source]
    OBVIOUS
  <2>1. l.url \in returned[l.source] /\ l.source \in Sources
    BY <1>1, <1>3, MergedElements
  <2> QED BY <2>1, <1>1
<1>5. \A u : (\E l \in listings : l.url = u) <=> \E s \in 1..(source - 1) : u \in returned[s]
  <2>1. ASSUME NEW l \in listings PROVE l.source \in 1..(source - 1)
    BY <1>1, <1>3, <1>4
  <2>2. 1..(source - 1) \subseteq Sources
    BY <1>1
  <2> QED BY <2>1, <2>2, <1>4
<1>6. ASSUME NEW l \in Listings
      PROVE  l \in listings' <=>
               /\ l.url \in returned'[l.source]
               /\ \A s \in 1..(l.source - 1) : l.url \notin returned'[s]
  <2>1. l.source \in Sources /\ l.url \in Urls
    BY DEF Listings
  <2>2. l \in listings' <=>
          \/ l \in listings
          \/ l.source = source /\ l.url \in page /\ \A k \in listings : k.url # l.url
    BY <1>1, MergeElements
  <2>3. CASE l.source = source
    <3>1. l \notin listings
      BY <1>1, <1>4, <2>3
    <3>2. \A s \in 1..(source - 1) : returned'[s] = returned[s]
      BY <1>1, <1>2
    <3> QED BY <1>2, <1>5, <2>2, <2>3, <3>1, <3>2
  <2>4. CASE l.source < source
    <3>1. \A s \in 1..l.source : returned'[s] = returned[s]
      BY <1>1, <1>2, <2>1, <2>4
    <3>2. l \in listings' <=> l \in listings
      BY <1>1, <2>1, <2>2, <2>4
    <3>3. l.source \in 1..l.source /\ 1..(l.source - 1) \subseteq 1..l.source
      BY <1>1, <2>1
    <3> QED BY <3>1, <3>2, <3>3, MergedElements
  <2>5. CASE l.source > source
    <3>1. returned'[l.source] = {}
      BY <1>1, <1>2, <2>1, <2>5
    <3>2. l \notin listings'
      BY <1>1, <1>4, <2>1, <2>2, <2>5
    <3> QED BY <3>1, <3>2
  <2> QED BY <1>1, <2>1, <2>3, <2>4, <2>5
<1>7. listings' \subseteq Listings
  BY <1>1, MergeElements
<1> QED BY <1>6, <1>7 DEF ListingsMerged

(* The source being asked has its attempts so far, and nothing else.       *)
LEMMA CurrentSource ==
  ASSUME ExecutionInv, phase = "fetch", source \in Sources
  PROVE  /\ source \in Nat /\ Sources \subseteq Nat
         /\ attempt \in 0..MaxRetries /\ attempt \in Nat
         /\ requests \in [Sources -> Nat] /\ pauses \in [Sources -> Nat]
         /\ outcome \in [Sources -> Outcomes]
         /\ requests[source] = attempt /\ pauses[source] = attempt
         /\ outcome[source] = "pending" /\ returned[source] = {}
<1>1. /\ SourceInv
      /\ attempt \in 0..MaxRetries
      /\ requests \in [Sources -> Nat] /\ pauses \in [Sources -> Nat]
      /\ outcome \in [Sources -> Outcomes]
  BY DEF ExecutionInv, ExecutionTypeOK, FetchTypeOK
<1>2. Sources \subseteq Nat
  BY FetchAssumption DEF Sources
<1>3. attempt \in Nat /\ source >= source
  BY <1>1, <1>2, FetchAssumption
<1>4. requests[source] = attempt /\ pauses[source] = attempt
  BY <1>1 DEF SourceInv, Asking
<1>5. outcome[source] = "pending"
  BY <1>1, <1>3 DEF SourceInv
<1>6. returned[source] = {}
  BY <1>1, <1>5 DEF SourceInv
<1> QED BY <1>1, <1>2, <1>3, <1>4, <1>5, <1>6

(* A source that answers keeps the invariant. *)
LEMMA AnswerInv ==
  ASSUME ExecutionInv, Fetch, SourceAnswers
  PROVE  ExecutionInv'
<1>1. PICK page \in Pages :
        /\ returned' = [returned EXCEPT ![source] = page]
        /\ listings' = Merge(listings, source, page)
  BY DEF SourceAnswers
<1>2. page \in SUBSET Urls
  BY DEF Pages
<1>3. /\ source \in Sources /\ phase = "fetch"
      /\ source' = source + 1
      /\ attempt' = 0
      /\ requests' = [requests EXCEPT ![source] = @ + 1]
      /\ outcome' = [outcome EXCEPT ![source] = "ok"]
      /\ UNCHANGED <<pauses, phase, readable, rowVars, scoringVars>>
  BY DEF Fetch, SourceAnswers, Request, NextSource, Asking
<1>4. listings \in SUBSET Listings /\ returned \in [Sources -> SUBSET Urls]
  BY DEF ExecutionInv, ExecutionTypeOK, FetchTypeOK
<1>5. listings' \in SUBSET Listings /\ listings \subseteq listings'
  <2>1. listings \subseteq Merge(listings, source, page)
    BY DEF Merge
  <2> QED BY <1>1, <1>2, <1>3, <1>4, <2>1, MergeElements
<1>6. ExecutionTypeOK'
  BY <1>1, <1>2, <1>3, <1>5, FetchAssumption
  DEF ExecutionInv, ExecutionTypeOK, FetchTypeOK, Sources, Outcomes, rowVars, scoringVars
<1>7. SourceInv'
  <2>1. /\ source \in Nat /\ Sources \subseteq Nat
        /\ attempt \in 0..MaxRetries /\ attempt \in Nat
        /\ requests \in [Sources -> Nat] /\ outcome \in [Sources -> Outcomes]
        /\ requests[source] = attempt /\ pauses[source] = attempt
    BY <1>3, CurrentSource
  <2>2. SourceInv
    BY DEF ExecutionInv
  <2>3. \A s \in Sources :
          /\ requests'[s] = IF s = source THEN attempt + 1 ELSE requests[s]
          /\ outcome'[s] = IF s = source THEN "ok" ELSE outcome[s]
          /\ s # source => returned'[s] = returned[s]
    BY <1>1, <1>3, <1>4, <2>1, <2>2
  <2>4. ASSUME NEW s \in Sources
        PROVE  /\ s < source' => outcome'[s] # "pending" /\ requests'[s] = pauses'[s] + 1
               /\ s >= source' => outcome'[s] = "pending"
               /\ s > source' => requests'[s] = 0 /\ pauses'[s] = 0
               /\ outcome'[s] = "exhausted" => requests'[s] = MaxRetries + 1
               /\ outcome'[s] # "ok" => returned'[s] = {}
               /\ requests'[s] <= MaxRetries + 1
    <3>1. s \in Nat
      BY <2>1
    <3> QED BY <1>3, <2>1, <2>2, <2>3, <3>1, FetchAssumption DEF SourceInv
  <2>5. source' \in Sources => requests'[source'] = 0 /\ pauses'[source'] = 0
    BY <1>3, <2>1, <2>2, <2>3 DEF SourceInv
  <2> QED BY <1>3, <2>4, <2>5 DEF SourceInv, Asking
<1>8. BudgetInv'
  BY <1>3 DEF ExecutionInv, BudgetInv, MaxTries, scoringVars
<1>9. ProgressInv'
  <2>1. IsFiniteSet(listings')
    BY <1>1, <1>3, MergeIsFinite DEF ExecutionInv, ProgressInv
  <2>2. \A s \in Sources : returned'[s] \subseteq {l.url : l \in listings'}
    <3>1. \A u \in page : \E l \in listings' : l.url = u
      BY <1>1, <1>2, <1>3, <1>4, MergeElements
    <3>2. \A s \in Sources : returned'[s] = returned[s] \/ returned'[s] = page
      BY <1>1, <1>4
    <3>3. \A s \in Sources : returned[s] \subseteq {l.url : l \in listings}
      BY DEF ExecutionInv, ProgressInv
    <3> QED BY <1>5, <3>1, <3>2, <3>3
  <2> QED BY <1>3, <1>5, <2>1, <2>2 DEF ExecutionInv, ProgressInv, rowVars, scoringVars
<1>10. ListingsMerged'
  BY <1>1, <1>2, <1>3, AnswerKeepsMerged DEF ExecutionInv, ProgressInv
<1>11. StoredInv'
  BY <1>3 DEF ExecutionInv, StoredInv, rowVars, scoringVars
<1> QED BY <1>6, <1>7, <1>8, <1>9, <1>10, <1>11 DEF ExecutionInv

(* A source fails: neither lists nor scores are touched.                   *)
LEMMA SourceFailsInv ==
  ASSUME ExecutionInv, Fetch, AttemptFails \/ SourceRefuses
  PROVE  ExecutionInv'
<1>1. /\ source \in Sources /\ phase = "fetch"
      /\ requests' = [requests EXCEPT ![source] = @ + 1]
      /\ UNCHANGED <<returned, listings, phase, readable, rowVars, scoringVars>>
  BY DEF Fetch, AttemptFails, SourceRefuses, Request, Asking
<1>2. \/ /\ attempt < MaxRetries
         /\ attempt' = attempt + 1
         /\ pauses' = [pauses EXCEPT ![source] = @ + 1]
         /\ UNCHANGED <<source, outcome>>
      \/ /\ attempt >= MaxRetries
         /\ source' = source + 1 /\ attempt' = 0 /\ UNCHANGED pauses
         /\ outcome' = [outcome EXCEPT ![source] = "exhausted"]
      \/ /\ source' = source + 1 /\ attempt' = 0 /\ UNCHANGED pauses
         /\ outcome' = [outcome EXCEPT ![source] = "refused"]
  BY FetchAssumption
  DEF AttemptFails, SourceRefuses, NextSource, ExecutionInv, ExecutionTypeOK, FetchTypeOK
<1> DEFINE FetchTypes == /\ source \in 1..(NumSources + 1)
                         /\ attempt \in 0..MaxRetries
                         /\ requests \in [Sources -> Nat]
                         /\ pauses \in [Sources -> Nat]
                         /\ outcome \in [Sources -> Outcomes]
<1>3. FetchTypes
  BY DEF ExecutionInv, ExecutionTypeOK, FetchTypeOK
<1>4. FetchTypes'
  <2>1. requests' \in [Sources -> Nat]
    BY <1>1, <1>3
  <2>2. source' \in 1..(NumSources + 1) /\ attempt' \in 0..MaxRetries
    BY SMTT(20), <1>1, <1>2, <1>3, FetchAssumption DEF Sources
  <2>3. pauses' \in [Sources -> Nat]
    BY <1>1, <1>2, <1>3
  <2>4. outcome' \in [Sources -> Outcomes]
    BY <1>1, <1>2, <1>3 DEF Outcomes
  <2> QED BY <2>1, <2>2, <2>3, <2>4
<1>9. ExecutionTypeOK'
  BY <1>1, <1>4 DEF ExecutionInv, ExecutionTypeOK, FetchTypeOK, rowVars, scoringVars
<1>10. SourceInv'
  <2>1. /\ SourceInv /\ requests[source] = attempt /\ pauses[source] = attempt
        /\ outcome[source] = "pending" /\ returned[source] = {}
        /\ Sources \subseteq Nat
    BY <1>1, CurrentSource DEF ExecutionInv
  <2>2. \A s \in Sources : requests'[s] = IF s = source THEN attempt + 1 ELSE requests[s]
    BY <1>1, <1>3, <2>1
  <2>3. CASE /\ attempt < MaxRetries
             /\ attempt' = attempt + 1
             /\ pauses' = [pauses EXCEPT ![source] = @ + 1]
             /\ UNCHANGED <<source, outcome>>
    BY <1>1, <1>3, <2>1, <2>2, <2>3, FetchAssumption DEF SourceInv, Sources, Asking
  <2>4. ASSUME NEW how \in {"exhausted", "refused"},
               how = "exhausted" => attempt >= MaxRetries,
               source' = source + 1, attempt' = 0, UNCHANGED pauses,
               outcome' = [outcome EXCEPT ![source] = how]
        PROVE  SourceInv'
    <3>1. \A s \in Sources : outcome'[s] = IF s = source THEN how ELSE outcome[s]
      BY <1>3, <2>4
    <3>2. attempt \in 0..MaxRetries /\ source \in Nat
      BY <1>3, FetchAssumption
    <3>3. ASSUME NEW s \in Sources
          PROVE  /\ s < source' => outcome'[s] # "pending" /\ requests'[s] = pauses'[s] + 1
                 /\ s >= source' => outcome'[s] = "pending"
                 /\ s > source' => requests'[s] = 0 /\ pauses'[s] = 0
                 /\ outcome'[s] = "exhausted" => requests'[s] = MaxRetries + 1
                 /\ outcome'[s] # "ok" => returned'[s] = {}
                 /\ requests'[s] <= MaxRetries + 1
      <4>1. s \in Nat
        BY FetchAssumption DEF Sources
      <4> QED BY <1>1, <2>1, <2>2, <2>4, <3>1, <3>2, <4>1, FetchAssumption DEF SourceInv
    <3>4. source' \in Sources => requests'[source'] = 0 /\ pauses'[source'] = 0
      BY <1>1, <2>1, <2>2, <2>4, <3>2 DEF SourceInv
    <3> QED BY <2>4, <3>3, <3>4 DEF SourceInv, Asking
  <2> QED BY <1>2, <2>3, <2>4
<1>5. BudgetInv'
  BY <1>1 DEF ExecutionInv, BudgetInv, MaxTries, scoringVars
<1>6. ProgressInv'
  BY <1>1 DEF ExecutionInv, ProgressInv, rowVars, scoringVars
<1>7. ListingsMerged'
  BY <1>1 DEF ExecutionInv, ListingsMerged
<1>8. StoredInv'
  BY <1>1 DEF ExecutionInv, StoredInv, rowVars, scoringVars
<1> QED BY <1>5, <1>6, <1>7, <1>8, <1>9, <1>10 DEF ExecutionInv

(* An exception ends the execution in the middle.                          *)
LEMMA EscapeInv ==
  ASSUME ExecutionInv, SourceEscapes \/ CallEscapes
  PROVE  ExecutionInv'
<1>1. CASE SourceEscapes
  <2>1. /\ source \in Sources /\ phase = "fetch" /\ phase' = "escaped"
        /\ requests' = [requests EXCEPT ![source] = @ + 1]
        /\ UNCHANGED <<readable, rowVars, scoringVars, source, attempt, pauses,
                       outcome, returned, listings>>
    BY <1>1 DEF SourceEscapes, Request, Asking
  <2>2. ExecutionTypeOK'
    <3>1. ExecutionTypeOK
      BY DEF ExecutionInv
    <3>2. requests' \in [Sources -> Nat]
      BY <2>1, <3>1 DEF ExecutionTypeOK, FetchTypeOK
    <3> QED
      BY <2>1, <3>1, <3>2 DEF ExecutionTypeOK, FetchTypeOK, Phases, rowVars, scoringVars
  <2>3. SourceInv'
    <3>1. /\ SourceInv /\ requests[source] = attempt /\ attempt \in 0..MaxRetries
          /\ outcome[source] = "pending" /\ requests \in [Sources -> Nat]
          /\ source \in Nat
      BY <2>1, CurrentSource DEF ExecutionInv
    <3>2. \A s \in Sources : requests'[s] = IF s = source THEN attempt + 1 ELSE requests[s]
      BY <2>1, <3>1
    <3> QED BY SMTT(20), <2>1, <3>1, <3>2, FetchAssumption DEF SourceInv, Asking, Sources
  <2>4. BudgetInv'
    BY <2>1 DEF ExecutionInv, BudgetInv, MaxTries, scoringVars
  <2>5. ProgressInv' /\ StoredInv' /\ ListingsMerged'
    BY <2>1
    DEF ExecutionInv, ProgressInv, StoredInv, ListingsMerged, rowVars, scoringVars
  <2> QED BY <2>2, <2>3, <2>4, <2>5 DEF ExecutionInv
<1>2. CASE CallEscapes
  <2>1. PICK u \in Usages : Call(u)
    BY <1>2 DEF CallEscapes
  <2>2. /\ phase = "score" /\ phase' = "escaped"
        /\ todo # << >> /\ remaining # 0
        /\ calls' = calls + 1 /\ bill' = bill + u
        /\ UNCHANGED <<readable, rowVars, fetchVars, todo, tries, remaining, scored,
                       skipped, tokens>>
    BY <1>2, <2>1 DEF CallEscapes, Call, ScoringOver
  <2>3. ExecutionTypeOK'
    BY SMTT(20), <2>2, ScoringAssumption
    DEF ExecutionInv, ExecutionTypeOK, FetchTypeOK, Phases, rowVars, fetchVars
  <2>4. SourceInv'
    BY <2>2 DEF ExecutionInv, SourceInv, fetchVars, Asking
  <2>5. BudgetInv'
    <3>1. /\ calls \in Nat /\ remaining \in Nat /\ tries \in Nat /\ remaining # 0
          /\ calls + remaining = MaxCalls + tries
          /\ tries # 0 => tries < MaxTries
      BY <2>2, ScoringAssumption DEF ExecutionInv, ExecutionTypeOK, BudgetInv
    <3>2. tries < remaining
      BY <3>1, ScoringAssumption DEF MaxTries
    <3> QED BY <2>2, <3>1, <3>2, ScoringAssumption DEF BudgetInv, MaxTries
  <2>6. ProgressInv' /\ StoredInv' /\ ListingsMerged'
    BY <2>2
    DEF ExecutionInv, ProgressInv, StoredInv, ListingsMerged, rowVars, fetchVars
  <2> QED BY <2>3, <2>4, <2>5, <2>6 DEF ExecutionInv
<1> QED BY <1>1, <1>2

(* Reading the CV and the returns of the two loops only move the phase.    *)
LEMMA PhaseInv ==
  ASSUME ExecutionInv, LoadCv \/ EndFetch \/ EndScoring
  PROVE  ExecutionInv'
<1>1. /\ \/ phase = "loadCv" /\ readable /\ phase' = "fetch"
         \/ phase = "loadCv" /\ ~readable /\ phase' = "finalize"
         \/ phase = "fetch" /\ Fetched /\ phase' = "startScoring"
         \/ phase = "score" /\ ScoringOver /\ phase' = "finalize"
      /\ UNCHANGED <<readable, rowVars, fetchVars, scoringVars>>
  BY DEF LoadCv, EndFetch, EndScoring
<1>2. ExecutionTypeOK'
  BY <1>1 DEF ExecutionInv, ExecutionTypeOK, FetchTypeOK, Phases, rowVars, fetchVars,
              scoringVars
<1>3. SourceInv' /\ BudgetInv'
  BY <1>1 DEF ExecutionInv, SourceInv, BudgetInv, MaxTries, Asking, fetchVars, scoringVars
<1>4. ProgressInv'
  BY <1>1 DEF ExecutionInv, ProgressInv, Fetched, ScoringOver, rowVars, fetchVars,
              scoringVars
<1>5. StoredInv' /\ ListingsMerged'
  BY <1>1 DEF ExecutionInv, StoredInv, ListingsMerged, rowVars, fetchVars, scoringVars
<1> QED BY <1>2, <1>3, <1>4, <1>5 DEF ExecutionInv

(* All sources were asked: the merged listings become the work list.       *)
LEMMA BeginScoringInv ==
  ASSUME ExecutionInv, BeginScoring
  PROVE  ExecutionInv'
<1>1. /\ phase = "startScoring" /\ phase' = "score" /\ status' = "scoring"
      /\ todo' \in Orders(listings)
      /\ UNCHANGED <<tries, remaining, scored, skipped, tokens, calls, bill>>
      /\ UNCHANGED <<readable, sourceFailures, finops, results, fetchVars>>
  BY DEF BeginScoring, StartScoring
<1>2. /\ IsFiniteSet(listings) /\ listings \in SUBSET Listings
      /\ scored = << >> /\ skipped = 0 /\ readable
  BY <1>1 DEF ExecutionInv, ProgressInv, ExecutionTypeOK, FetchTypeOK
<1>3. /\ todo' \in Seq(listings)
      /\ Len(todo') = Cardinality(listings)
      /\ Range(todo') \subseteq listings
      /\ Cardinality(listings) \in Nat
  BY <1>1, <1>2, OrderType, FS_CardinalityType
<1>4. todo' \in Seq(Listings)
  BY <1>2, <1>3
<1>5. ExecutionTypeOK'
  BY <1>1, <1>4 DEF ExecutionInv, ExecutionTypeOK, FetchTypeOK, Phases, fetchVars
<1>6. SourceInv' /\ BudgetInv'
  BY <1>1 DEF ExecutionInv, SourceInv, BudgetInv, MaxTries, Asking, fetchVars
<1>7. ProgressInv'
  <2>1. Len(scored') + skipped' + Len(todo') = Cardinality(listings')
    BY <1>1, <1>2, <1>3 DEF fetchVars
  <2> QED BY <1>1, <1>2, <1>3, <2>1 DEF ExecutionInv, ProgressInv, Fetched, fetchVars
<1>8. StoredInv' /\ ListingsMerged'
  BY <1>1 DEF ExecutionInv, StoredInv, ListingsMerged, fetchVars
<1> QED BY <1>5, <1>6, <1>7, <1>8 DEF ExecutionInv

(* A call is within the budget, and so is every attempt a listing has left.*)
LEMMA CallFits ==
  ASSUME ExecutionInv, phase = "score", NEW u \in Usages, Call(u)
  PROVE  /\ todo # << >> /\ todo \in Seq(Listings)
         /\ calls \in Nat /\ remaining \in Nat /\ tries \in Nat
         /\ skipped \in Nat /\ bill \in Nat /\ tokens \in Nat /\ u \in Nat
         /\ calls + remaining = MaxCalls + tries
         /\ tries + 1 <= remaining
         /\ tries + 1 <= MaxAttempts
         /\ calls' = calls + 1
         /\ bill' = bill + u
         /\ remaining <= MaxCalls
<1>1. /\ todo # << >> /\ todo \in Seq(Listings)
      /\ calls \in Nat /\ skipped \in Nat /\ bill \in Nat /\ tokens \in Nat /\ u \in Nat
      /\ calls' = calls + 1 /\ bill' = bill + u
      /\ remaining # 0
  BY ScoringAssumption DEF ExecutionInv, ExecutionTypeOK, Call, ScoringOver
<1>2. /\ remaining \in 0..MaxCalls /\ tries \in 0..(MaxAttempts - 1)
      /\ calls + remaining = MaxCalls + tries
      /\ tries # 0 => tries < MaxTries
  BY DEF ExecutionInv, ExecutionTypeOK, BudgetInv
<1>3. tries + 1 <= remaining
  BY <1>1, <1>2, ScoringAssumption DEF MaxTries
<1> QED BY <1>1, <1>2, <1>3, ScoringAssumption

(* A call finishes its listing, with a score or without.                   *)
LEMMA FinishInv ==
  ASSUME ExecutionInv, phase = "score", NEW u \in Usages, Call(u),
         NEW gaveUp \in BOOLEAN, FinishListing(gaveUp),
         IF gaveUp THEN UNCHANGED <<scored, tokens>>
                   ELSE /\ scored' = Append(scored, Head(todo))
                        /\ tokens' = tokens + u,
         UNCHANGED <<phase, readable, rowVars, fetchVars>>
  PROVE  ExecutionInv'
<1>0. /\ todo # << >> /\ todo \in Seq(Listings)
      /\ calls \in Nat /\ remaining \in Nat /\ tries \in Nat
      /\ skipped \in Nat /\ bill \in Nat /\ tokens \in Nat /\ u \in Nat
      /\ calls + remaining = MaxCalls + tries
      /\ tries + 1 <= remaining /\ tries + 1 <= MaxAttempts
      /\ calls' = calls + 1 /\ bill' = bill + u
      /\ remaining <= MaxCalls
      /\ MaxCalls \in Nat /\ MaxAttempts \in Nat
  BY CallFits, ScoringAssumption
<1>1. /\ todo' = Tail(todo)
      /\ tries' = 0
      /\ remaining' = remaining - (tries + 1)
      /\ skipped' = IF gaveUp THEN skipped + 1 ELSE skipped
  BY DEF FinishListing
<1>2. /\ Head(todo) \in Range(todo) /\ Head(todo) \in Listings
      /\ Tail(todo) \in Seq(Listings)
      /\ Len(Tail(todo)) + 1 = Len(todo)
      /\ Range(Tail(todo)) \subseteq Range(todo)
  BY <1>0, HeadAndTail
<1>3. /\ scored \in Seq(Listings) /\ Range(scored) \subseteq listings
      /\ Range(todo) \subseteq listings /\ readable /\ Fetched
      /\ Len(scored) + skipped + Len(todo) = Cardinality(listings)
  BY DEF ExecutionInv, ExecutionTypeOK, ProgressInv
<1>4. /\ scored' \in Seq(Listings)
      /\ Range(scored') \subseteq listings
      /\ Len(scored') = IF gaveUp THEN Len(scored) ELSE Len(scored) + 1
  <2>1. CASE gaveUp
    BY <1>3, <2>1
  <2>2. CASE ~gaveUp
    <3>1. scored' = Append(scored, Head(todo)) /\ Head(todo) \in listings
      BY <1>2, <1>3, <2>2
    <3>2. Range(scored') = Range(scored) \cup {Head(todo)}
      BY <1>2, <1>3, <3>1, RangeOfAppend
    <3>3. scored' \in Seq(Listings) /\ Len(scored') = Len(scored) + 1
      BY <1>2, <1>3, <3>1
    <3> QED BY <1>3, <2>2, <3>1, <3>2, <3>3
  <2> QED BY <2>1, <2>2
<1>5. ExecutionTypeOK'
  <2>1. /\ remaining' \in 0..MaxCalls
        /\ tries' \in 0..(MaxAttempts - 1)
        /\ {skipped', tokens', calls', bill'} \subseteq Nat
    <3>1. remaining' \in 0..MaxCalls /\ tries' \in 0..(MaxAttempts - 1)
      BY <1>0, <1>1
    <3>2. skipped' \in Nat /\ calls' \in Nat /\ bill' \in Nat
      BY <1>0, <1>1
    <3>3. tokens' \in Nat
      BY <1>0
    <3> QED BY <3>1, <3>2, <3>3
  <2> QED BY <1>1, <1>2, <1>4, <2>1
      DEF ExecutionInv, ExecutionTypeOK, FetchTypeOK, rowVars, fetchVars
<1>6. SourceInv'
  BY DEF ExecutionInv, SourceInv, Asking, fetchVars
<1>7. BudgetInv'
  <2>1. calls' + remaining' = MaxCalls + tries' /\ calls' <= MaxCalls
    BY <1>0, <1>1
  <2> QED BY <1>1, <2>1 DEF BudgetInv
<1>8. ProgressInv'
  <2>1. Len(scored') + skipped' + Len(todo') = Cardinality(listings)
    <3>1. Len(scored) \in Nat /\ Len(todo) \in Nat /\ Len(Tail(todo)) \in Nat /\ skipped \in Nat
      BY <1>0, <1>2, <1>3
    <3> QED BY <1>1, <1>2, <1>3, <1>4, <3>1
  <2>2. Range(todo') \subseteq listings
    BY <1>1, <1>2, <1>3
  <2> QED BY <1>3, <1>4, <2>1, <2>2
      DEF ExecutionInv, ProgressInv, Fetched, rowVars, fetchVars
<1>9. ListingsMerged' /\ StoredInv'
  BY DEF ExecutionInv, ListingsMerged, StoredInv, fetchVars, rowVars
<1> QED BY <1>5, <1>6, <1>7, <1>8, <1>9 DEF ExecutionInv

(* A call to the model keeps the invariant. *)
LEMMA ScoreInv ==
  ASSUME ExecutionInv, Score
  PROVE  ExecutionInv'
<1>1. PICK u \in Usages : CallSucceeds(u) \/ CallFails(u)
  BY DEF Score
<1>2. /\ phase = "score" /\ Call(u)
      /\ UNCHANGED <<phase, readable, rowVars, fetchVars>>
  BY <1>1 DEF Score, CallSucceeds, CallFails
<1>6. /\ todo # << >> /\ todo \in Seq(Listings)
      /\ calls \in Nat /\ remaining \in Nat /\ tries \in Nat
      /\ skipped \in Nat /\ bill \in Nat /\ tokens \in Nat /\ u \in Nat
      /\ calls + remaining = MaxCalls + tries
      /\ tries + 1 <= remaining /\ tries + 1 <= MaxAttempts
      /\ calls' = calls + 1 /\ bill' = bill + u
      /\ remaining <= MaxCalls
      /\ MaxCalls \in Nat /\ MaxAttempts \in Nat
  BY <1>2, CallFits, ScoringAssumption
<1>3. CASE CallSucceeds(u)
  BY <1>2, <1>3, FinishInv DEF CallSucceeds
<1>4. CASE CallFails(u) /\ tries + 1 < MaxTries
  <2>1. /\ tries' = tries + 1
        /\ UNCHANGED <<todo, remaining, skipped, scored, tokens>>
    BY <1>4 DEF CallFails
  <2>2. tries' < MaxTries' /\ tries' < MaxAttempts
    BY <1>4, <1>6, <2>1 DEF MaxTries
  <2>3. ExecutionTypeOK'
    <3>1. tries' \in 0..(MaxAttempts - 1) /\ {calls', bill'} \subseteq Nat
      BY <1>6, <2>1, <2>2
    <3> QED BY <1>2, <2>1, <3>1
        DEF ExecutionInv, ExecutionTypeOK, FetchTypeOK, rowVars, fetchVars
  <2>4. SourceInv'
    BY <1>2 DEF ExecutionInv, SourceInv, Asking, fetchVars
  <2>5. BudgetInv'
    <3>1. calls' + remaining' = MaxCalls + tries' /\ calls' <= MaxCalls
      BY <1>6, <2>1
    <3> QED BY <2>2, <3>1 DEF BudgetInv
  <2>6. ProgressInv'
    BY <1>2, <2>1 DEF ExecutionInv, ProgressInv, Fetched, rowVars, fetchVars
  <2>7. ListingsMerged' /\ StoredInv'
    BY <1>2 DEF ExecutionInv, ListingsMerged, StoredInv, fetchVars, rowVars
  <2> QED BY <2>3, <2>4, <2>5, <2>6, <2>7 DEF ExecutionInv
<1>5. CASE CallFails(u) /\ ~(tries + 1 < MaxTries)
  BY <1>2, <1>5, FinishInv DEF CallFails
<1> QED BY <1>1, <1>3, <1>4, <1>5

(* The final commit.                                                       *)
LEMMA FinalizeInv ==
  ASSUME ExecutionInv, Finalize
  PROVE  ExecutionInv'
<1>1. /\ phase = "finalize" /\ phase' = "ended"
      /\ results' = Range(scored)
      /\ status' = IF results' # {} THEN "complete" ELSE "failed"
      /\ sourceFailures' = [failures |-> WithOutcome(GivenUp),
                            successes |-> WithOutcome({"ok"})]
      /\ finops' = IF readable
                     THEN [listings_scored |-> Len(scored), listings_skipped |-> skipped,
                           tokens |-> tokens]
                     ELSE NoFinops
      /\ UNCHANGED <<readable, fetchVars, scoringVars>>
  BY DEF Finalize, ResolveTerminalStatus
<1>2. ExecutionTypeOK'
  <2>1. finops' \in Finops \cup {NoFinops}
    <3>1. Len(scored) \in Nat /\ skipped \in Nat /\ tokens \in Nat
      BY DEF ExecutionInv, ExecutionTypeOK
    <3> QED BY <1>1, <3>1 DEF Finops
  <2>2. sourceFailures' \in SourceLog
    BY <1>1 DEF SourceLog, WithOutcome
  <2>3. results' \in SUBSET Listings
    BY <1>1 DEF ExecutionInv, ExecutionTypeOK, FetchTypeOK, ProgressInv
  <2>4. status' \in {"scraping", "scoring", "complete", "failed"}
    BY <1>1
  <2> QED BY <1>1, <2>1, <2>2, <2>3, <2>4
      DEF ExecutionInv, ExecutionTypeOK, FetchTypeOK, Phases, fetchVars, scoringVars
<1>3. SourceInv' /\ BudgetInv'
  BY <1>1
  DEF ExecutionInv, SourceInv, BudgetInv, MaxTries, Asking, fetchVars, scoringVars
<1>4. ProgressInv' /\ ListingsMerged'
  BY <1>1
  DEF ExecutionInv, ProgressInv, ListingsMerged, Fetched, ScoringOver, fetchVars, scoringVars
<1>5. StoredInv'
  <2>1. WithOutcome({"ok"})' = WithOutcome({"ok"}) /\ WithOutcome(GivenUp)' = WithOutcome(GivenUp)
    BY <1>1 DEF WithOutcome, GivenUp, fetchVars
  <2>2. readable' => finops'.listings_scored = Len(scored')
                     /\ finops'.listings_skipped = skipped'
    BY <1>1 DEF scoringVars
  <2>3. results' = Range(scored') /\ sourceFailures'.successes = WithOutcome({"ok"})
        /\ sourceFailures'.failures = WithOutcome(GivenUp)
    BY <1>1 DEF scoringVars
  <2> QED BY <1>1, <2>1, <2>2, <2>3 DEF StoredInv
<1> QED BY <1>2, <1>3, <1>4, <1>5 DEF ExecutionInv

(* A step that changes nothing keeps the invariant. *)
LEMMA StutterInv ==
  ASSUME ExecutionInv, UNCHANGED vars
  PROVE  ExecutionInv'
<1> USE DEF vars, rowVars, fetchVars, scoringVars
<1>1. ExecutionTypeOK'
  BY DEF ExecutionInv, ExecutionTypeOK, FetchTypeOK
<1>2. SourceInv' /\ BudgetInv' /\ ProgressInv' /\ ListingsMerged'
  BY DEF ExecutionInv, SourceInv, BudgetInv, ProgressInv, ListingsMerged, MaxTries,
         Asking, Fetched, ScoringOver
<1>3. StoredInv'
  BY DEF ExecutionInv, StoredInv, WithOutcome, GivenUp, ScoringOver
<1> QED BY <1>1, <1>2, <1>3 DEF ExecutionInv

(* The invariant holds in every reachable state. *)
LEMMA ExecutionInvariant == Spec => []ExecutionInv
<1>1. ExecutionInv /\ [Next]_vars => ExecutionInv'
  <2> SUFFICES ASSUME ExecutionInv, [Next]_vars PROVE ExecutionInv'
    OBVIOUS
  <2>1. CASE Fetch
    BY <2>1, AnswerInv, SourceFailsInv DEF Fetch
  <2> QED BY <2>1, StutterInv, PhaseInv, FinalizeInv, EscapeInv, BeginScoringInv,
             ScoreInv DEF Next
<1> QED BY <1>1, InitInv, PTL DEF Spec

-----------------------------------------------------------------------------
(* The row and the loop variables keep their types; in particular the      *)
(* budget is never overdrawn.                                              *)
THEOREM ExecutionTypeCorrect == Spec => []ExecutionTypeOK
BY ExecutionInvariant, PTL DEF ExecutionInv

(* No run makes more LLM calls than the product cap, whatever the number   *)
(* of listings and however the calls end.                                  *)
THEOREM CallsWithinBudgetHolds == Spec => []CallsWithinBudget
<1>1. ExecutionInv => CallsWithinBudget
  BY DEF ExecutionInv, BudgetInv, CallsWithinBudget
<1> QED BY <1>1, ExecutionInvariant, PTL

(* Nothing that was fetched is lost between merge, scoring and the stored  *)
(* totals.                                                                 *)
THEOREM EveryListingAccountedForHolds == Spec => []EveryListingAccountedFor
<1>1. ExecutionInv => EveryListingAccountedFor
  <2> SUFFICES ASSUME ExecutionInv, phase = "ended", readable
               PROVE  EveryListingAccountedFor
    BY DEF EveryListingAccountedFor
  <2>1. /\ Len(scored) + skipped + Len(todo) = Cardinality(listings)
        /\ finops.listings_scored = Len(scored)
        /\ finops.listings_skipped = skipped
        /\ results = Range(scored) /\ results \subseteq listings
        /\ status = IF results # {} THEN "complete" ELSE "failed"
        /\ todo = << >> \/ remaining = 0
    BY DEF ExecutionInv, ProgressInv, StoredInv, ScoringOver
  <2>2. todo # << >> => calls = MaxCalls
    <3>1. /\ calls + remaining = MaxCalls + tries /\ calls \in Nat /\ tries \in Nat
          /\ tries # 0 => tries < MaxTries
      BY ScoringAssumption DEF ExecutionInv, ExecutionTypeOK, BudgetInv
    <3> QED BY <2>1, <3>1, ScoringAssumption DEF MaxTries
  <2>3. Range(scored) # {} <=> Len(scored) > 0
    <3>1. Len(scored) \in Nat /\ DOMAIN scored = 1..Len(scored)
      BY DEF ExecutionInv, ExecutionTypeOK
    <3>2. DOMAIN scored # {} <=> Len(scored) > 0
      BY <3>1
    <3> QED BY <3>2 DEF Range
  <2> QED BY <2>1, <2>2, <2>3 DEF EveryListingAccountedFor
<1> QED BY <1>1, ExecutionInvariant, PTL

(* Sources are given up only when their own attempts are used up.          *)
THEOREM NoSourceGivenUpEarlyHolds == Spec => []NoSourceGivenUpEarly
<1>1. ExecutionInv => NoSourceGivenUpEarly
  <2> SUFFICES ASSUME ExecutionInv, NEW s \in Sources
               PROVE  /\ outcome[s] = "exhausted" => requests[s] = MaxRetries + 1
                      /\ outcome[s] # "pending" => requests[s] = pauses[s] + 1
                      /\ requests[s] <= MaxRetries + 1
    BY DEF NoSourceGivenUpEarly
  <2>1. s < source \/ s >= source
    BY FetchAssumption DEF Sources, ExecutionInv, ExecutionTypeOK, FetchTypeOK
  <2> QED BY <2>1 DEF ExecutionInv, SourceInv
<1> QED BY <1>1, ExecutionInvariant, PTL

(* The merged listings are what the sources returned, first seen first.    *)
THEOREM ListingsMergedHolds == Spec => []ListingsMerged
BY ExecutionInvariant, PTL DEF ExecutionInv

(* "Scraping failed" is shown exactly when every source failed: the stored *)
(* outcomes, the results and the status cannot disagree about it.  (Not    *)
(* when "at least one source errored", as the docstring has it.)           *)
THEOREM MessageTellsWhyHolds == Spec => []MessageTellsWhy
<1>1. ExecutionInv => MessageTellsWhy
  <2> SUFFICES ASSUME ExecutionInv, phase = "ended" PROVE MessageTellsWhy
    BY DEF MessageTellsWhy
  <2>1. /\ sourceFailures.successes = {s \in Sources : outcome[s] = "ok"}
        /\ sourceFailures.failures = {s \in Sources : outcome[s] \in GivenUp}
        /\ results = Range(scored) /\ Range(scored) \subseteq listings
        /\ status = IF results # {} THEN "complete" ELSE "failed"
    BY DEF ExecutionInv, StoredInv, ProgressInv, WithOutcome
  <2>2. /\ outcome \in [Sources -> Outcomes] /\ source \in 1..(NumSources + 1)
        /\ \A s \in Sources : s < source => outcome[s] # "pending"
        /\ \A s \in Sources : s >= source => outcome[s] = "pending"
        /\ \A s \in Sources : outcome[s] # "ok" => returned[s] = {}
    BY DEF ExecutionInv, ExecutionTypeOK, FetchTypeOK, SourceInv
  <2>3. CASE ~readable
    <3>1. source = 1
      BY <2>3 DEF ExecutionInv, ProgressInv
    <3>2. \A s \in Sources : outcome[s] = "pending"
      BY <2>2, <3>1, FetchAssumption DEF Sources
    <3>3. sourceFailures.failures = {}
      BY <2>1, <3>2 DEF GivenUp
    <3> QED BY <2>3, <3>3 DEF MessageTellsWhy, ClassifyRunFailure
  <2>4. CASE readable
    <3>1. \A s \in Sources : outcome[s] \in GivenUp \/ outcome[s] = "ok"
      <4>1. source = NumSources + 1
        BY <2>4 DEF ExecutionInv, ProgressInv, Fetched
      <4>2. \A s \in Sources : s < source
        BY <4>1, FetchAssumption DEF Sources
      <4> QED BY <2>2, <4>2 DEF Outcomes, GivenUp
    <3>2. \A s \in Sources : ~(outcome[s] \in GivenUp /\ outcome[s] = "ok")
      BY DEF GivenUp
    <3>3. NumSources > 0 <=> Sources # {}
      BY FetchAssumption DEF Sources
    <3>4. CASE \E s \in Sources : outcome[s] = "ok"
      BY <2>1, <3>2, <3>4 DEF MessageTellsWhy, ClassifyRunFailure
    <3>5. CASE \A s \in Sources : outcome[s] # "ok"
      <4>1. \A s \in Sources : outcome[s] \in GivenUp /\ returned[s] = {}
        BY <2>2, <3>1, <3>5
      <4>2. listings = {}
        <5>1. \A l \in Listings : l.source \in Sources
          BY DEF Listings
        <5> QED BY <4>1, <5>1 DEF ExecutionInv, ListingsMerged
      <4>3. status = "failed"
        BY <2>1, <4>2
      <4>4. sourceFailures.successes = {} /\ sourceFailures.failures = Sources
        BY <2>1, <3>5, <4>1
      <4> QED BY <2>4, <3>3, <4>1, <4>3, <4>4 DEF MessageTellsWhy, ClassifyRunFailure
    <3> QED BY <3>4, <3>5
  <2> QED BY <2>3, <2>4
<1> QED BY <1>1, ExecutionInvariant, PTL

-----------------------------------------------------------------------------
(* The number of calls a listing took, beyond the budget: products with    *)
(* MaxAttempts, kept apart from the rest.                                  *)
RetryInv ==
  /\ remaining > 0 /\ phase # "escaped" =>
       calls >= Len(scored) + MaxAttempts * skipped + tries
  /\ remaining > 0 => calls >= Len(scored) + MaxAttempts * skipped
  /\ phase # "escaped" => calls <= MaxAttempts * (Len(scored) + skipped) + tries
  /\ calls <= MaxAttempts * (Len(scored) + skipped + 1)

(* A call to the model keeps the bound on the calls per listing. *)
LEMMA RetryStep ==
  ASSUME ExecutionInv, RetryInv, Score
  PROVE  RetryInv'
<1>1. PICK u \in Usages : CallSucceeds(u) \/ CallFails(u)
  BY DEF Score
<1>2. phase = "score" /\ Call(u) /\ phase' = phase
  BY <1>1 DEF Score, CallSucceeds, CallFails
<1>3. /\ calls \in Nat /\ remaining \in Nat /\ tries \in Nat /\ skipped \in Nat
      /\ tries + 1 <= remaining /\ tries + 1 <= MaxAttempts
      /\ calls' = calls + 1
      /\ MaxAttempts \in Nat
      /\ todo # << >> /\ todo \in Seq(Listings)
  BY <1>2, CallFits, ScoringAssumption
<1>4. scored \in Seq(Listings) /\ Len(scored) \in Nat /\ Head(todo) \in Listings
  BY <1>3 DEF ExecutionInv, ExecutionTypeOK
<1> DEFINE n == Len(scored)
<1>5. /\ MaxAttempts * (skipped + 1) = MaxAttempts * skipped + MaxAttempts
      /\ MaxAttempts * skipped \in Nat
      /\ MaxAttempts * (n + skipped + 1) = MaxAttempts * (n + skipped) + MaxAttempts
      /\ MaxAttempts * (n + skipped + 2) = MaxAttempts * (n + skipped) + MaxAttempts + MaxAttempts
      /\ MaxAttempts * (n + skipped) \in Nat
  BY <1>3, <1>4
<1>6. /\ calls >= n + MaxAttempts * skipped + tries
      /\ calls <= MaxAttempts * (n + skipped) + tries
  BY <1>2, <1>3 DEF RetryInv
<1>7. CASE CallSucceeds(u)
  <2>1. /\ Len(scored') = n + 1 /\ skipped' = skipped /\ tries' = 0
    BY <1>4, <1>7 DEF CallSucceeds, FinishListing
  <2>2. /\ MaxAttempts * (Len(scored') + skipped') = MaxAttempts * (n + skipped) + MaxAttempts
        /\ MaxAttempts * (Len(scored') + skipped' + 1)
             = MaxAttempts * (n + skipped) + MaxAttempts + MaxAttempts
        /\ MaxAttempts * skipped' = MaxAttempts * skipped
    <3>1. Len(scored') + skipped' = n + skipped + 1 /\ Len(scored') + skipped' + 1 = n + skipped + 2
      BY <1>3, <1>4, <2>1
    <3> QED BY <1>5, <2>1, <3>1
  <2> HIDE DEF n
  <2> QED BY <1>2, <1>3, <1>4, <1>5, <1>6, <2>1, <2>2 DEF RetryInv, n
<1>8. CASE CallFails(u) /\ tries + 1 < MaxTries
  <2>1. tries' = tries + 1 /\ UNCHANGED <<remaining, skipped, scored>>
    BY <1>8 DEF CallFails
  <2> QED BY <1>2, <1>3, <1>4, <1>5, <1>6, <2>1 DEF RetryInv
<1>9. CASE CallFails(u) /\ ~(tries + 1 < MaxTries)
  <2>1. /\ scored' = scored /\ skipped' = skipped + 1 /\ tries' = 0
        /\ remaining' = remaining - (tries + 1)
    BY <1>9 DEF CallFails, FinishListing
  <2>2. remaining' > 0 => tries + 1 = MaxAttempts
    BY <1>3, <1>9, <2>1 DEF MaxTries
  <2>3. /\ MaxAttempts * (Len(scored') + skipped') = MaxAttempts * (n + skipped) + MaxAttempts
        /\ MaxAttempts * (Len(scored') + skipped' + 1)
             = MaxAttempts * (n + skipped) + MaxAttempts + MaxAttempts
        /\ MaxAttempts * skipped' = MaxAttempts * skipped + MaxAttempts
    <3>1. Len(scored') + skipped' = n + skipped + 1 /\ Len(scored') + skipped' + 1 = n + skipped + 2
      BY <1>3, <1>4, <2>1
    <3> QED BY <1>5, <2>1, <3>1
  <2> QED BY <1>2, <1>3, <1>4, <1>5, <1>6, <2>1, <2>2, <2>3 DEF RetryInv
<1> QED BY <1>1, <1>7, <1>8, <1>9

(* No listing is skipped before its second attempt while there is budget,  *)
(* and none gets a third.                                                  *)
THEOREM RetriedBeforeSkippedHolds == Spec => []RetriedBeforeSkipped
<1>1. Init => RetryInv
  BY ScoringAssumption DEF Init, ScoringInit, RetryInv
<1>2. ExecutionInv /\ RetryInv /\ [Next]_vars => RetryInv'
  <2> SUFFICES ASSUME ExecutionInv, RetryInv, [Next]_vars PROVE RetryInv'
    OBVIOUS
  <2>1. CASE UNCHANGED <<calls, remaining, scored, skipped, tries>> /\ (phase = "escaped" => phase' = "escaped")
    BY <2>1 DEF RetryInv
  <2>2. CASE CallEscapes
    <3>1. PICK u \in Usages : Call(u)
      BY <2>2 DEF CallEscapes
    <3>2. /\ phase = "score" /\ phase' = "escaped" /\ calls' = calls + 1
          /\ UNCHANGED <<tries, remaining, scored, skipped>>
      BY <2>2, <3>1 DEF CallEscapes, Call
    <3>3. /\ calls \in Nat /\ tries \in Nat /\ tries + 1 <= MaxAttempts /\ MaxAttempts \in Nat
          /\ skipped \in Nat /\ Len(scored) \in Nat
      BY <3>1, <3>2, CallFits, ScoringAssumption DEF ExecutionInv, ExecutionTypeOK
    <3>4. /\ MaxAttempts * (Len(scored) + skipped + 1)
               = MaxAttempts * (Len(scored) + skipped) + MaxAttempts
          /\ MaxAttempts * (Len(scored) + skipped) \in Nat
          /\ MaxAttempts * skipped \in Nat
      BY <3>3
    <3>5. calls' <= MaxAttempts * (Len(scored) + skipped + 1)
      BY <3>2, <3>3, <3>4 DEF RetryInv
    <3>6. remaining > 0 => calls' >= Len(scored) + MaxAttempts * skipped
      BY <3>2, <3>3, <3>4 DEF RetryInv
    <3> QED BY <3>2, <3>5, <3>6 DEF RetryInv
  <2>3. CASE Score
    BY <2>3, RetryStep
  <2>4. CASE Next /\ ~CallEscapes /\ ~Score
    BY <2>1, <2>4 DEF Next, LoadCv, Fetch, SourceEscapes, EndFetch, BeginScoring,
                      EndScoring, Finalize, StartScoring, scoringVars
  <2> QED BY <2>1, <2>2, <2>3, <2>4 DEF vars, scoringVars
<1>3. RetryInv => RetriedBeforeSkipped
  BY DEF RetryInv, RetriedBeforeSkipped
<1> QED BY <1>1, <1>2, <1>3, ExecutionInvariant, PTL DEF Spec

-----------------------------------------------------------------------------
(* The refinement: one execution is what AnalysisRuns does with a claimed  *)
(* run.                                                                    *)

(* What the run sees of an execution, and nothing else.                    *)
PipelineView ==
  <<WorkerAt, CarriedRows, AnsweredSources, LoadedStatus, readable, status,
    results, StoredLog, phase = "ended">>

(* A step that changes nothing of it is a stutter of the run.              *)
LEMMA ViewIsAll == UNCHANGED PipelineView => UNCHANGED Pipeline!vars
  BY DEF PipelineView, Pipeline!vars, Pipeline!queueVars, Pipeline!dbVars, Pipeline!apiVars,
         Pipeline!workerVars, Pipeline!localVars, OfRun, OfWorker, OfMessage

(* The claim leaves the worker at the first step of the execution.         *)
LEMMA StartsAtClaim ==
  Init => Pipeline!TypeOK /\ WorkerAt = "loadCv" /\ status = "scraping"
<1> SUFFICES ASSUME Init
             PROVE  Pipeline!TypeOK /\ WorkerAt = "loadCv" /\ status = "scraping"
  OBVIOUS
<1>1. /\ phase = "loadCv" /\ status = "scraping" /\ results = {} /\ readable \in BOOLEAN
      /\ StoredLog = NoLog /\ WorkerAt = "loadCv" /\ CarriedRows = {}
      /\ AnsweredSources = NoLog /\ LoadedStatus = "queued" /\ AsRows(results) = {}
  BY DEF Init, StoredLog, WorkerAt, HasListings, HasScores, CarriedRows, AnsweredSources,
         LoadedStatus, AsRows
<1>2. Pipeline!QueueTypeOK
  BY DEF Pipeline!QueueTypeOK, Pipeline!MessageStates, OfMessage
<1> QED
  BY <1>1, <1>2
  DEF Pipeline!TypeOK, OfRun, OfWorker, Pipeline!AnalysisRunStatus, Pipeline!CvStates,
      Pipeline!WorkerSteps, Pipeline!Handling, Pipeline!LoadedRow, Pipeline!ApiSteps

(* Reading the CV is the run's own step.                                   *)
LEMMA LoadCvIsStep ==
  ASSUME ExecutionInv, LoadCv
  PROVE  Pipeline!LoadCv("worker")
<1>1. /\ phase = "loadCv" /\ phase' = IF readable THEN "fetch" ELSE "finalize"
      /\ UNCHANGED <<readable, rowVars, fetchVars, scoringVars>>
      /\ status = "scraping" /\ scored = << >>
      /\ sourceFailures = [failures |-> {}, successes |-> {}]
  BY DEF LoadCv, ExecutionInv, ProgressInv, StoredInv
<1>2. /\ WorkerAt = "loadCv" /\ WorkerAt' = IF readable THEN "fetch" ELSE "finalize"
      /\ LoadedStatus' = "scraping"
      /\ UNCHANGED <<AnsweredSources, phase = "ended">>
  BY <1>1 DEF WorkerAt, LoadedStatus, AnsweredSources, HasListings, HasScores, rowVars
<1>3. CarriedRows' = CarriedRows
  <2>1. CarriedRows = {}
    BY <1>1 DEF CarriedRows, HasListings, HasScores
  <2>2. CarriedRows' = {}
    BY <1>1, RangeOfEmpty DEF CarriedRows, HasListings, HasScores, AsRows, scoringVars
  <2> QED BY <2>1, <2>2
<1>4. StoredLog = NoLog /\ StoredLog' = NoLog
  BY <1>1 DEF StoredLog, rowVars
<1> QED
  BY <1>1, <1>2, <1>3, <1>4
  DEF Pipeline!LoadCv, Pipeline!LoadRow, Pipeline!Goto, Pipeline!RunAt, Pipeline!queueVars,
      Pipeline!dbVars, Pipeline!apiVars, OfRun, OfWorker, OfMessage, rowVars

(* The answers of the sources stay inside the fetch phase.                 *)
LEMMA FetchIsStutter ==
  ASSUME ExecutionInv, Fetch
  PROVE  UNCHANGED Pipeline!vars
<1>1. phase = "fetch" /\ UNCHANGED <<phase, readable, rowVars, scoringVars>>
  BY DEF Fetch
<1>2. UNCHANGED PipelineView
  BY <1>1 DEF PipelineView, WorkerAt, CarriedRows, AnsweredSources, LoadedStatus,
              StoredLog, HasListings, HasScores, rowVars
<1> QED BY <1>2, ViewIsAll

(* So do the calls of the scoring loop.                                    *)
LEMMA ScoreIsStutter ==
  ASSUME ExecutionInv, Score
  PROVE  UNCHANGED Pipeline!vars
<1>1. phase = "score" /\ UNCHANGED <<phase, readable, rowVars, fetchVars>>
  BY DEF Score
<1>2. WithOutcome({"ok"})' = WithOutcome({"ok"}) /\ AsRows(listings)' = AsRows(listings)
  BY <1>1 DEF WithOutcome, AsRows, fetchVars
<1>3. UNCHANGED PipelineView
  BY <1>1, <1>2 DEF PipelineView, WorkerAt, CarriedRows, AnsweredSources, LoadedStatus,
              StoredLog, HasListings, HasScores, rowVars
<1> QED BY <1>3, ViewIsAll

(* The return of the fetch loop: what it carries is the merge AnalysisRuns *)
(* computes from the outcomes of the sources.                              *)
LEMMA EndFetchIsStep ==
  ASSUME ExecutionInv, EndFetch
  PROVE  Pipeline!Fetch("worker")
<1>1. /\ phase = "fetch" /\ Fetched /\ phase' = "startScoring"
      /\ UNCHANGED <<readable, rowVars, fetchVars, scoringVars>>
  BY DEF EndFetch
<1> DEFINE Got == [s \in Sources |-> IF outcome[s] = "ok" THEN returned[s] ELSE Failed]
<1>2. /\ returned \in [Sources -> SUBSET Urls]
      /\ \A s \in Sources : outcome[s] # "ok" => returned[s] = {}
      /\ ListingsMerged /\ Sources \subseteq Nat
  BY FetchAssumption
  DEF ExecutionInv, ExecutionTypeOK, FetchTypeOK, SourceInv, Sources
<1>3. Pipeline!Sources = Sources /\ Pipeline!Rows = Sources \X Urls
  BY DEF Pipeline!Sources, Pipeline!Rows, Sources
<1>4. Got \in Pipeline!FetchOutcomes
  BY <1>2, <1>3 DEF Pipeline!FetchOutcomes
<1>5. Pipeline!Successes(Got) = WithOutcome({"ok"})
  BY <1>2, <1>3, InRunAssumption DEF Pipeline!Successes, WithOutcome
<1>6. Pipeline!MergedListings(Got) = AsRows(listings)
  <2>1. ASSUME NEW s \in Sources, NEW u \in Urls
        PROVE  <<s, u>> \in Pipeline!MergedListings(Got) <=> <<s, u>> \in AsRows(listings)
    <3>1. <<s, u>> \in Pipeline!MergedListings(Got) <=>
            /\ outcome[s] = "ok" /\ u \in returned[s]
            /\ \A t \in Sources : outcome[t] = "ok" /\ t < s => u \notin returned[t]
      BY <1>2, <1>3, <1>5 DEF Pipeline!MergedListings, WithOutcome
    <3>2. @ <=> /\ u \in returned[s]
                /\ \A t \in 1..(s - 1) : u \notin returned[t]
      <4>1. \A t \in Sources : t < s <=> t \in 1..(s - 1)
        BY FetchAssumption DEF Sources
      <4>2. 1..(s - 1) \subseteq Sources
        BY FetchAssumption DEF Sources
      <4> QED BY <1>2, <4>1, <4>2
    <3>3. @ <=> [source |-> s, url |-> u] \in listings
      BY <1>2 DEF ListingsMerged, Listings
    <3>4. <<s, u>> \in AsRows(listings) <=> [source |-> s, url |-> u] \in listings
      <4>1. \A l \in listings : l = [source |-> l.source, url |-> l.url]
        BY <1>2 DEF ListingsMerged, Listings
      <4>2. ASSUME [source |-> s, url |-> u] \in listings PROVE <<s, u>> \in AsRows(listings)
        BY <4>2 DEF AsRows
      <4>3. ASSUME <<s, u>> \in AsRows(listings) PROVE [source |-> s, url |-> u] \in listings
        <5>1. PICK l \in listings : <<s, u>> = <<l.source, l.url>>
          BY <4>3 DEF AsRows
        <5> QED BY <4>1, <5>1
      <4> QED BY <4>2, <4>3
    <3> QED BY <3>1, <3>2, <3>3, <3>4
  <2>2. Pipeline!MergedListings(Got) \subseteq Sources \X Urls
    BY <1>3 DEF Pipeline!MergedListings
  <2>3. AsRows(listings) \subseteq Sources \X Urls
    BY <1>2 DEF AsRows, ListingsMerged, Listings
  <2> HIDE DEF Got
  <2> QED BY <2>1, <2>2, <2>3
<1>7. /\ WorkerAt = "fetch" /\ WorkerAt' = "startScoring"
      /\ CarriedRows' = AsRows(listings) /\ AnsweredSources' = WithOutcome({"ok"})
      /\ UNCHANGED <<LoadedStatus, StoredLog, status, results, readable, phase = "ended">>
  <2>1. WithOutcome({"ok"})' = WithOutcome({"ok"}) /\ AsRows(listings)' = AsRows(listings)
    BY <1>1 DEF WithOutcome, AsRows, fetchVars
  <2> QED BY <1>1, <2>1 DEF WorkerAt, CarriedRows, AnsweredSources, LoadedStatus, StoredLog,
                            HasListings, HasScores, rowVars
<1>8. /\ OfWorker(CarriedRows)' = [OfWorker(CarriedRows) EXCEPT !["worker"] = AsRows(listings)]
      /\ OfWorker(AnsweredSources)'
           = [OfWorker(AnsweredSources) EXCEPT !["worker"] = WithOutcome({"ok"})]
  BY <1>7 DEF OfWorker
<1>9. \E got \in Pipeline!FetchOutcomes :
        /\ OfWorker(CarriedRows)'
             = [OfWorker(CarriedRows) EXCEPT !["worker"] = Pipeline!MergedListings(got)]
        /\ OfWorker(AnsweredSources)'
             = [OfWorker(AnsweredSources) EXCEPT !["worker"] = Pipeline!Successes(got)]
  <2> HIDE DEF Got
  <2> QED BY <1>4, <1>5, <1>6, <1>8
<1> QED
  BY <1>7, <1>9
  DEF Pipeline!Fetch, Pipeline!Goto, Pipeline!queueVars, Pipeline!dbVars, Pipeline!apiVars,
      OfRun, OfMessage, OfWorker

(* The commit of "scoring".                                                *)
LEMMA BeginScoringIsStep ==
  ASSUME ExecutionInv, BeginScoring
  PROVE  Pipeline!BeginScoring("worker")
<1>1. /\ phase = "startScoring" /\ phase' = "score" /\ status' = "scoring"
      /\ UNCHANGED <<readable, sourceFailures, finops, results, fetchVars>>
  BY DEF BeginScoring
<1>2. WithOutcome({"ok"})' = WithOutcome({"ok"}) /\ AsRows(listings)' = AsRows(listings)
  BY <1>1 DEF WithOutcome, AsRows, fetchVars
<1>3. /\ WorkerAt = "startScoring" /\ WorkerAt' = "score" /\ LoadedStatus = "scraping"
      /\ UNCHANGED <<CarriedRows, AnsweredSources, LoadedStatus, StoredLog, phase = "ended">>
  BY <1>1, <1>2 DEF WorkerAt, CarriedRows, AnsweredSources, LoadedStatus, StoredLog,
                    HasListings, HasScores
<1> QED
  BY <1>1, <1>3
  DEF Pipeline!BeginScoring, Pipeline!WriteStatus, Pipeline!Goto, Pipeline!RunAt,
      Pipeline!queueVars, Pipeline!apiVars, Pipeline!localVars, OfRun, OfWorker, OfMessage

(* The return of the scoring loop: it kept some of the listings.           *)
LEMMA EndScoringIsStep ==
  ASSUME ExecutionInv, EndScoring
  PROVE  Pipeline!Score("worker")
<1>1. /\ phase = "score" /\ phase' = "finalize" /\ readable /\ status = "scoring"
      /\ UNCHANGED <<readable, rowVars, fetchVars, scoringVars>>
      /\ Range(scored) \subseteq listings
      /\ sourceFailures = [failures |-> {}, successes |-> {}]
  BY DEF EndScoring, ExecutionInv, ProgressInv, StoredInv
<1>2. /\ WithOutcome({"ok"})' = WithOutcome({"ok"})
      /\ AsRows(Range(scored))' = AsRows(Range(scored))
  BY <1>1 DEF WithOutcome, AsRows, Range, fetchVars, scoringVars
<1>3. /\ WorkerAt = "score" /\ WorkerAt' = "finalize" /\ LoadedStatus' = "scoring"
      /\ CarriedRows = AsRows(listings) /\ CarriedRows' = AsRows(Range(scored))
      /\ UNCHANGED <<AnsweredSources, StoredLog, phase = "ended">>
      /\ StoredLog = NoLog
  BY <1>1, <1>2 DEF WorkerAt, CarriedRows, AnsweredSources, LoadedStatus, StoredLog,
                    HasListings, HasScores, rowVars
<1>4. AsRows(Range(scored)) \in SUBSET CarriedRows
  BY <1>1, <1>3 DEF AsRows
<1>5. \E kept \in SUBSET OfWorker(CarriedRows)["worker"] :
        OfWorker(CarriedRows)' = [OfWorker(CarriedRows) EXCEPT !["worker"] = kept]
  BY <1>3, <1>4 DEF OfWorker
<1> QED
  BY <1>1, <1>3, <1>5
  DEF Pipeline!Score, Pipeline!LoadRow, Pipeline!Goto, Pipeline!RunAt, Pipeline!queueVars,
      Pipeline!dbVars, Pipeline!apiVars, OfRun, OfWorker, OfMessage, rowVars

(* The final commit, with and without CV text.                             *)
LEMMA FinalizeIsStep ==
  ASSUME ExecutionInv, Finalize
  PROVE  Pipeline!Finalize("worker")
<1>1. /\ phase = "finalize" /\ phase' = "ended"
      /\ results = {} /\ results' = Range(scored)
      /\ sourceFailures = [failures |-> {}, successes |-> {}]
      /\ sourceFailures' = [failures |-> WithOutcome(GivenUp),
                            successes |-> WithOutcome({"ok"})]
      /\ status = IF readable THEN "scoring" ELSE "scraping"
      /\ status' = ResolveTerminalStatus(results' # {})
      /\ UNCHANGED <<readable, fetchVars, scoringVars>>
  BY DEF Finalize, ExecutionInv, ProgressInv, StoredInv
<1>2. /\ WithOutcome({"ok"})' = WithOutcome({"ok"})
      /\ AsRows(Range(scored))' = AsRows(Range(scored))
      /\ AsRows(results) = {} /\ AsRows(results)' = AsRows(Range(scored))
  BY <1>1 DEF WithOutcome, AsRows, Range, fetchVars, scoringVars
<1>3. AsRows(Range(scored)) # {} <=> results' # {}
  BY <1>1 DEF AsRows
<1>4. StoredLog = NoLog
  BY <1>1 DEF StoredLog
<1>5. StoredLog' = IF NumSources = 0 THEN NoLog ELSE AnsweredSources
  <2>1. /\ outcome \in [Sources -> Outcomes]
        /\ \A s \in Sources : s < source => outcome[s] # "pending"
        /\ \A s \in Sources : s >= source => outcome[s] = "pending"
        /\ readable => source = NumSources + 1
        /\ ~readable => source = 1
        /\ Sources = 1..NumSources /\ NumSources \in Nat
    BY <1>1, FetchAssumption
    DEF ExecutionInv, ExecutionTypeOK, FetchTypeOK, SourceInv, ProgressInv, Fetched, Sources
  <2>2. AnsweredSources = IF readable THEN WithOutcome({"ok"}) ELSE NoLog
    BY <1>1 DEF AnsweredSources, HasListings, HasScores
  <2>3. StoredLog' = IF WithOutcome({"ok"}) = {} /\ WithOutcome(GivenUp) = {}
                       THEN NoLog ELSE WithOutcome({"ok"})
    BY <1>1 DEF StoredLog
  <2>4. CASE ~readable
    <3>1. \A s \in Sources : outcome[s] = "pending"
      BY <2>1, <2>4
    <3>2. WithOutcome({"ok"}) = {} /\ WithOutcome(GivenUp) = {}
      BY <3>1 DEF WithOutcome, GivenUp
    <3> QED BY <2>2, <2>3, <2>4, <3>2
  <2>5. CASE readable /\ NumSources = 0
    <3>1. Sources = {}
      BY <2>1, <2>5
    <3> QED BY <2>3, <2>5, <3>1 DEF WithOutcome
  <2>6. CASE readable /\ NumSources # 0
    <3>1. 1 \in Sources /\ outcome[1] # "pending"
      BY <2>1, <2>6
    <3>2. outcome[1] = "ok" \/ outcome[1] \in GivenUp
      BY <2>1, <3>1 DEF Outcomes, GivenUp
    <3>3. 1 \in WithOutcome({"ok"}) \/ 1 \in WithOutcome(GivenUp)
      BY <3>1, <3>2 DEF WithOutcome
    <3> QED BY <2>2, <2>3, <2>6, <3>3
  <2> QED BY <2>4, <2>5, <2>6
<1>6. /\ WorkerAt = "finalize" /\ WorkerAt' = "notify"
      /\ LoadedStatus = status /\ LoadedStatus' = LoadedStatus
      /\ CarriedRows = AsRows(Range(scored)) /\ CarriedRows' = CarriedRows
      /\ AnsweredSources' = AnsweredSources
  BY <1>1, <1>2 DEF WorkerAt, CarriedRows, AnsweredSources, LoadedStatus, HasListings, HasScores
<1>7. /\ status' = ResolveTerminalStatus(CarriedRows # {})
      /\ LoadedStatus # status'
      /\ (phase = "ended")' = TRUE
  BY <1>1, <1>3, <1>6 DEF ResolveTerminalStatus
<1>8. /\ OfRun(AsRows(results))["run"] \cap OfWorker(CarriedRows)["worker"] = {}
      /\ OfRun(AsRows(results))'
           = [OfRun(AsRows(results)) EXCEPT !["run"] = @ \cup OfWorker(CarriedRows)["worker"]]
  BY <1>2, <1>6 DEF OfRun, OfWorker
<1>9. Pipeline!WriteStatus("worker", ResolveTerminalStatus(CarriedRows # {}))
  BY <1>6, <1>7 DEF Pipeline!WriteStatus, Pipeline!RunAt, OfRun, OfWorker, OfMessage
<1>10. Pipeline!WriteSourceLog("worker", IF NumSources = 0 THEN NoLog ELSE AnsweredSources)
  BY <1>4, <1>5 DEF Pipeline!WriteSourceLog, Pipeline!RunAt, OfRun, OfWorker, OfMessage
<1>11. OfRun(phase = "ended")' = [OfRun(phase = "ended") EXCEPT !["run"] = TRUE]
  BY <1>7 DEF OfRun
<1>12. Pipeline!Goto("worker", "notify")
  BY <1>6 DEF Pipeline!Goto, OfWorker
<1> QED
  BY <1>1, <1>6, <1>8, <1>9, <1>10, <1>11, <1>12
  DEF Pipeline!Finalize, Pipeline!RunAt, Pipeline!queueVars, Pipeline!apiVars,
      Pipeline!localVars, OfRun, OfWorker, OfMessage, Pipeline!ResolveTerminalStatus,
      ResolveTerminalStatus

(* An exception is the catch-all's step.                                   *)
LEMMA EscapeIsStep ==
  ASSUME ExecutionInv, SourceEscapes \/ CallEscapes
  PROVE  Pipeline!UnexpectedError("worker")
<1>1. /\ \/ phase = "fetch" /\ ~Fetched
         \/ phase = "score" /\ Fetched
      /\ phase' = "escaped" /\ Fetched' = Fetched
      /\ UNCHANGED <<readable, rowVars, outcome, listings>>
  BY FetchAssumption
  DEF SourceEscapes, CallEscapes, Request, Asking, Fetched, fetchVars, Sources,
      ExecutionInv, ProgressInv
<1>2. WithOutcome({"ok"})' = WithOutcome({"ok"}) /\ AsRows(listings)' = AsRows(listings)
  BY <1>1 DEF WithOutcome, AsRows
<1>3. /\ WorkerAt \in {"fetch", "score"} /\ WorkerAt' = "settle"
      /\ UNCHANGED <<CarriedRows, AnsweredSources, LoadedStatus, StoredLog, phase = "ended">>
  BY <1>1, <1>2 DEF WorkerAt, CarriedRows, AnsweredSources, LoadedStatus, StoredLog,
                    HasListings, HasScores, rowVars
<1> QED
  BY <1>1, <1>3
  DEF Pipeline!UnexpectedError, Pipeline!Handling, Pipeline!Goto, Pipeline!queueVars,
      Pipeline!dbVars, Pipeline!apiVars, Pipeline!localVars, OfRun, OfWorker, OfMessage, rowVars

(* One execution in full detail is an execution of AnalysisRuns: the       *)
(* worker's steps after the claim are all that the run sees of it.         *)
THEOREM ExecutesClaimedRunHolds == Spec => ExecutesClaimedRun
<1>1. ExecutionInv /\ [Next]_vars => [PipelineStep]_(Pipeline!vars)
  <2> SUFFICES ASSUME ExecutionInv, [Next]_vars PROVE [PipelineStep]_(Pipeline!vars)
    OBVIOUS
  <2>1. CASE UNCHANGED vars
    <3>1. UNCHANGED PipelineView
      BY <2>1 DEF vars, rowVars, fetchVars, scoringVars, PipelineView, WorkerAt, CarriedRows,
                  AnsweredSources, LoadedStatus, StoredLog, HasListings, HasScores, Fetched,
                  WithOutcome, AsRows, Range
    <3> QED BY <3>1, ViewIsAll
  <2>2. CASE LoadCv
    BY <2>2, LoadCvIsStep DEF PipelineStep
  <2>3. CASE Fetch
    BY <2>3, FetchIsStutter
  <2>4. CASE EndFetch
    BY <2>4, EndFetchIsStep DEF PipelineStep
  <2>5. CASE BeginScoring
    BY <2>5, BeginScoringIsStep DEF PipelineStep
  <2>6. CASE Score
    BY <2>6, ScoreIsStutter
  <2>7. CASE EndScoring
    BY <2>7, EndScoringIsStep DEF PipelineStep
  <2>8. CASE Finalize
    BY <2>8, FinalizeIsStep DEF PipelineStep
  <2>9. CASE SourceEscapes \/ CallEscapes
    BY <2>9, EscapeIsStep DEF PipelineStep
  <2> QED BY <2>1, <2>2, <2>3, <2>4, <2>5, <2>6, <2>7, <2>8, <2>9 DEF Next
<1> QED BY <1>1, StartsAtClaim, ExecutionInvariant, PTL DEF Spec, ExecutesClaimedRun

-----------------------------------------------------------------------------
(* What the FinOps record is worth: it may leave charges out (the run      *)
(* finops_misses_failed_attempts), but it invents none, and it is complete *)
(* when every call brought a score.                                        *)
FinopsIsLowerBound ==
  phase = "ended" /\ readable =>
    /\ finops.tokens <= bill
    /\ calls = Len(scored) => finops.tokens = bill

(* The same while the totals are being summed.                             *)
TokensInv ==
  /\ tokens <= bill
  /\ Len(scored) <= calls
  /\ calls = Len(scored) => tokens = bill
  /\ phase = "ended" /\ readable => finops.tokens = tokens

(* The stored token count never exceeds what the provider charged, and     *)
(* falls short of it only if some call failed.                             *)
THEOREM FinopsIsLowerBoundHolds == Spec => []FinopsIsLowerBound
<1>1. Init => TokensInv
  BY DEF Init, ScoringInit, TokensInv
<1>2. ExecutionInv /\ TokensInv /\ [Next]_vars => TokensInv'
  <2> SUFFICES ASSUME ExecutionInv, TokensInv, [Next]_vars PROVE TokensInv'
    OBVIOUS
  <2>1. /\ tokens \in Nat /\ bill \in Nat /\ calls \in Nat
        /\ scored \in Seq(Listings) /\ Len(scored) \in Nat
    BY DEF ExecutionInv, ExecutionTypeOK
  <2>2. CASE CallEscapes
    <3>1. PICK u \in Usages : Call(u)
      BY <2>2 DEF CallEscapes
    <3>2. /\ phase' = "escaped" /\ calls' = calls + 1 /\ bill' = bill + u /\ u \in Nat
          /\ UNCHANGED <<tokens, scored>>
      BY <2>2, <3>1, ScoringAssumption DEF CallEscapes, Call
    <3> QED BY <2>1, <3>2 DEF TokensInv
  <2>3. CASE Score
    <3>1. PICK u \in Usages : CallSucceeds(u) \/ CallFails(u)
      BY <2>3 DEF Score
    <3>2. /\ phase = "score" /\ phase' = "score" /\ Call(u)
          /\ calls' = calls + 1 /\ bill' = bill + u /\ u \in Nat
      BY <2>3, <3>1, ScoringAssumption DEF Score, CallSucceeds, CallFails, Call
    <3>3. CASE CallSucceeds(u)
      <4>1. scored' = Append(scored, Head(todo)) /\ tokens' = tokens + u
        BY <3>3 DEF CallSucceeds
      <4>2. Head(todo) \in Listings
        BY <3>2, CallFits, HeadAndTail
      <4>3. Len(scored') = Len(scored) + 1
        BY <2>1, <4>1, <4>2
      <4> QED BY <2>1, <3>2, <4>1, <4>3 DEF TokensInv
    <3>4. CASE CallFails(u)
      <4>1. UNCHANGED <<scored, tokens>>
        BY <3>4 DEF CallFails
      <4> QED BY <2>1, <3>2, <4>1 DEF TokensInv
    <3> QED BY <3>1, <3>3, <3>4
  <2>4. CASE Finalize
    BY <2>4 DEF TokensInv, Finalize, scoringVars
  <2>5. CASE LoadCv \/ Fetch \/ SourceEscapes \/ EndFetch \/ BeginScoring \/ EndScoring \/ UNCHANGED vars
    <3>1. UNCHANGED <<tokens, bill, calls, scored, finops, readable>>
      BY <2>5 DEF LoadCv, Fetch, SourceEscapes, EndFetch, BeginScoring, EndScoring,
                  StartScoring, scoringVars, rowVars, vars
    <3>2. phase' = "ended" => phase = "ended"
      BY <2>5 DEF LoadCv, Fetch, SourceEscapes, EndFetch, BeginScoring, EndScoring, vars
    <3> QED BY <3>1, <3>2 DEF TokensInv
  <2> QED BY <2>2, <2>3, <2>4, <2>5 DEF Next
<1>3. TokensInv => FinopsIsLowerBound
  BY DEF TokensInv, FinopsIsLowerBound
<1> QED BY <1>1, <1>2, <1>3, ExecutionInvariant, PTL DEF Spec

-----------------------------------------------------------------------------
(* Requests the sources may still receive, calls the LLM may still         *)
(* receive, and phases to come.                                            *)
RequestsLeft == (NumSources + 1 - source) * (MaxRetries + 1) - attempt
CallsLeft    == MaxCalls - calls
PhasesLeft   ==
  [loadCv |-> 5, fetch |-> 4, startScoring |-> 3, score |-> 2, finalize |-> 1,
   ended |-> 0, escaped |-> 0]

Work == RequestsLeft + CallsLeft + PhasesLeft[phase]

(* A source has at least one request left while it is being asked.         *)
LEMMA RequestsLeftType ==
  ASSUME ExecutionInv
  PROVE  /\ RequestsLeft \in Nat
         /\ source \in Nat /\ attempt \in Nat
         /\ Asking => attempt <= MaxRetries
<1>1. /\ source \in 1..(NumSources + 1) /\ attempt \in 0..MaxRetries
      /\ ~Asking => attempt = 0
      /\ NumSources \in Nat /\ MaxRetries \in Nat
  BY FetchAssumption DEF ExecutionInv, ExecutionTypeOK, FetchTypeOK, SourceInv
<1> DEFINE n == NumSources + 1 - source
           k == MaxRetries + 1
<1>2. n \in Nat /\ k \in Nat /\ n * k \in Nat
  BY <1>1
<1>3. CASE n = 0
  <2>1. ~Asking
    BY <1>1, <1>3 DEF Asking, Sources
  <2>2. n * k = 0
    BY <1>2, <1>3
  <2> QED BY <1>1, <2>1, <2>2 DEF RequestsLeft
<1>4. CASE n # 0
  <2>1. n * k >= k
    <3>1. PICK i \in Nat : n = i + 1
      BY <1>2, <1>4
    <3>2. n * k = i * k + k /\ i * k \in Nat
      BY <1>2, <3>1
    <3> QED BY <1>2, <3>2
  <2> QED BY <1>1, <1>2, <2>1 DEF RequestsLeft
<1> QED BY <1>1, <1>3, <1>4

(* The work left is a natural number, and every step takes from it: no     *)
(* mixture of answers makes an execution longer than                       *)
(* NumSources * (MaxRetries + 1) + MaxCalls + 5 steps.  With the fairness  *)
(* of FairSpec this is EveryExecutionEnds.                                 *)
THEOREM ExecutionIsBounded == Spec => [](Work \in Nat) /\ [][Work' < Work]_vars
<1>1. ExecutionInv => Work \in Nat
  <2> SUFFICES ASSUME ExecutionInv PROVE Work \in Nat
    OBVIOUS
  <2>1. CallsLeft \in Nat
    BY ScoringAssumption DEF ExecutionInv, ExecutionTypeOK, BudgetInv, CallsLeft
  <2>2. PhasesLeft[phase] \in Nat
    BY DEF ExecutionInv, ExecutionTypeOK, Phases, PhasesLeft
  <2> QED BY <2>1, <2>2, RequestsLeftType DEF Work
<1>2. ExecutionInv /\ ExecutionInv' /\ [Next]_vars => [Work' < Work]_vars
  <2> SUFFICES ASSUME ExecutionInv, ExecutionInv', Next PROVE Work' < Work
    OBVIOUS
  <2>1. /\ RequestsLeft \in Nat /\ source \in Nat /\ attempt \in Nat
        /\ Asking => attempt <= MaxRetries
        /\ CallsLeft \in Nat /\ calls \in Nat
        /\ PhasesLeft[phase] \in Nat /\ PhasesLeft[phase]' \in Nat
        /\ NumSources \in Nat /\ MaxRetries \in Nat /\ MaxCalls \in Nat
    <3>1. phase \in Phases /\ phase' \in Phases /\ calls \in Nat /\ calls <= MaxCalls
      BY DEF ExecutionInv, ExecutionTypeOK, BudgetInv
    <3>2. PhasesLeft[phase] \in Nat /\ PhasesLeft[phase]' \in Nat
      BY <3>1 DEF Phases, PhasesLeft
    <3> QED BY <3>1, <3>2, RequestsLeftType, ScoringAssumption, FetchAssumption DEF CallsLeft
  <2>2. CASE LoadCv \/ EndFetch \/ BeginScoring \/ EndScoring \/ Finalize
    <3>1. UNCHANGED <<source, attempt, calls>>
      BY <2>2 DEF LoadCv, EndFetch, BeginScoring, EndScoring, Finalize, StartScoring,
                  fetchVars, scoringVars
    <3>2. PhasesLeft[phase]' < PhasesLeft[phase]
      BY <2>2 DEF LoadCv, EndFetch, BeginScoring, EndScoring, Finalize, PhasesLeft
    <3>3. RequestsLeft' = RequestsLeft /\ CallsLeft' = CallsLeft
      BY <3>1 DEF RequestsLeft, CallsLeft
    <3> QED BY <2>1, <3>2, <3>3 DEF Work
  <2>3. CASE SourceEscapes
    <3>1. UNCHANGED <<source, attempt, calls>> /\ phase = "fetch" /\ phase' = "escaped"
      BY <2>3 DEF SourceEscapes, scoringVars
    <3>2. RequestsLeft' = RequestsLeft /\ CallsLeft' = CallsLeft
      BY <3>1 DEF RequestsLeft, CallsLeft
    <3> QED BY <2>1, <3>1, <3>2 DEF Work, PhasesLeft
  <2>4. CASE Fetch
    <3>1. /\ phase' = phase /\ calls' = calls /\ Asking
          /\ \/ source' = source /\ attempt' = attempt + 1
             \/ source' = source + 1 /\ attempt' = 0
      BY <2>4 DEF Fetch, SourceAnswers, AttemptFails, SourceRefuses, Request, NextSource,
                  scoringVars
    <3>2. RequestsLeft' < RequestsLeft
      <4>1. CASE source' = source /\ attempt' = attempt + 1
        <5> DEFINE p == (NumSources + 1 - source) * (MaxRetries + 1)
        <5>1. p \in Int
          BY <2>1
        <5>2. RequestsLeft = p - attempt /\ RequestsLeft' = p - (attempt + 1)
          BY <4>1 DEF RequestsLeft
        <5> QED BY <2>1, <5>1, <5>2
      <4>2. CASE source' = source + 1 /\ attempt' = 0
        <5> DEFINE n == NumSources + 1 - source
                   k == MaxRetries + 1
        <5>1. n \in Int /\ k \in Int /\ n * k \in Int /\ (n - 1) * k = n * k - k
          BY <2>1
        <5>2. NumSources + 1 - source' = n - 1
          BY <2>1, <4>2
        <5>3. RequestsLeft = n * k - attempt /\ RequestsLeft' = (n - 1) * k - 0
          BY <4>2, <5>2 DEF RequestsLeft
        <5>4. attempt < k
          BY <2>1, <3>1
        <5> HIDE DEF n
        <5> QED BY <2>1, <5>1, <5>3, <5>4
      <4> QED BY <3>1, <4>1, <4>2
    <3>3. CallsLeft' = CallsLeft /\ PhasesLeft[phase]' = PhasesLeft[phase]
      BY <3>1 DEF CallsLeft, PhasesLeft
    <3>4. RequestsLeft' \in Int
      <4>1. source' \in Nat /\ attempt' \in Nat
        BY <2>1, <3>1
      <4> QED BY <2>1, <4>1 DEF RequestsLeft
    <3> QED BY <2>1, <3>2, <3>3, <3>4 DEF Work
  <2>5. CASE Score \/ CallEscapes
    <3>1. /\ calls' = calls + 1 /\ UNCHANGED <<source, attempt>>
          /\ phase = "score" /\ phase' \in {"score", "escaped"}
      BY <2>5 DEF Score, CallEscapes, CallSucceeds, CallFails, Call, fetchVars
    <3>2. RequestsLeft' = RequestsLeft /\ CallsLeft' < CallsLeft
      BY <2>1, <3>1 DEF RequestsLeft, CallsLeft
    <3>3. PhasesLeft[phase]' <= PhasesLeft[phase]
      BY <3>1 DEF PhasesLeft
    <3>4. CallsLeft' \in Int
      BY <2>1, <3>1 DEF CallsLeft
    <3> QED BY <2>1, <3>2, <3>3, <3>4 DEF Work
  <2> QED BY <2>2, <2>3, <2>4, <2>5 DEF Next
<1> QED BY <1>1, <1>2, ExecutionInvariant, PTL DEF Spec
=============================================================================
