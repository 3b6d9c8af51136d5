-------------------------------- MODULE Spa --------------------------------
(***************************************************************************)
(* One browser tab of the SPA (frontend/src): the session context and the  *)
(* route guards, run polling and the result count of the run page, the     *)
(* results page, the new-run wizard and the warm-up probe of the           *)
(* dashboard, against an API whose answers are late, out of order or lost. *)
(*                                                                         *)
(* JavaScript runs one callback at a time: an action is a callback with    *)
(* the render and the effects it causes.  Between two callbacks anything   *)
(* may happen: a click, a timer, an answer to a fetch begun by a page that *)
(* is gone.  Each fetch of an effect carries the effect's `active` flag.   *)
(***************************************************************************)
EXTENDS RunDomain, FiniteSets

CONSTANTS
  Runs,       \* Analysis Run ids
  Cvs,        \* CV ids
  NewCvs,     \* those of them that uploads create
  FirstStatus,   \* status of each run when the tab is opened, or "absent"
  MaxCalls,   \* bound of the checks: no click while so many fetches are under way
  None

ASSUME SpaAssumption ==
  /\ MaxCalls \in Nat
  /\ None \notin Runs \cup Cvs
  /\ NewCvs \subseteq Cvs
  /\ FirstStatus \in [Runs -> AnalysisRunStatus \cup {"absent"}]

VARIABLES
  session,   \* API: whether the tab's cookie names a session
  status,    \* API: analysis_run.status
  auth,      \* AuthProvider: status
  page,      \* the URL: the page and the run it names
  view,      \* state of the page's components
  calls      \* fetches under way

vars == <<session, status, auth, page, view, calls>>

Page(name, id) == [name |-> name, id |-> id]

LoginPage == Page("login", None)

(* The pages behind ProtectedRoute.                                        *)
AppPages ==
  {Page("dashboard", None), Page("wizard", None)}
    \cup {Page(name, r) : name \in {"detail", "results"}, r \in Runs}

NoSnapshot == [id |-> None, status |-> "absent"]

Snapshot(r, s) == [id |-> r, status |-> s]

(* run and timer of useRunPolling (timer also of useApiWarmup); resultCount *)
(* of RunDetail and results of Results, by the run they came from; step of *)
(* NewRun; state of TitleSuggestions, by the CV it came from; status and   *)
(* threshold timer of useApiWarmup.                                        *)
FreshView ==
  [run |-> NoSnapshot, timer |-> FALSE, count |-> None, results |-> None,
   step |-> "cv", cv |-> None, titles |-> None,
   warmup |-> "checking", threshold |-> TRUE]

ViewType ==
  [run : {NoSnapshot} \cup [id : Runs, status : AnalysisRunStatus],
   timer : BOOLEAN,
   count : Runs \cup {None}, results : Runs \cup {None},
   step : {"cv", "titles", "search"}, cv : Cvs \cup {None},
   titles : Cvs \cup {None},
   warmup : {"checking", "warming", "ready"}, threshold : BOOLEAN]

(* Fetches whose answer is dropped when their effect or page is gone.      *)
EffectCalls == {"run", "count", "results", "titles", "upload", "health"}

CallType ==
  [call : EffectCalls \cup {"me", "logout", "create"},
   of : Runs \cup Cvs \cup {None},
   live : BOOLEAN,
   answer : {"none", "ok", "error"} \cup AnalysisRunStatus]

SpaTypeOK ==
  /\ session \in BOOLEAN
  /\ status \in [Runs -> AnalysisRunStatus \cup {"absent"}]
  /\ auth \in {"loading", "authenticated", "anonymous"}
  /\ page \in AppPages \cup {LoginPage}
  /\ view \in ViewType
  /\ calls \in SUBSET CallType

Ask(call, of) == [call |-> call, of |-> of, live |-> TRUE, answer |-> "none"]

(* Fault for the checks: the cleanup forgets the flag.                     *)
BugSuperseded(kinds, cs) == cs

(* The cleanup of an effect: active = false.                               *)
Superseded(kinds, cs) ==
  {IF c.call \in kinds THEN [c EXCEPT !.live = FALSE] ELSE c : c \in cs}

LiveCalls(call) == {c \in calls : c.call = call /\ c.live}

(* What the effects of a page fetch when it mounts.                        *)
MountCalls(p) ==
  CASE p.name = "detail"    -> {Ask("run", p.id)}
    [] p.name = "results"   -> {Ask("results", p.id)}
    [] p.name = "dashboard" -> {Ask("health", None)}
    [] OTHER                -> {}

Init ==
  /\ session \in BOOLEAN
  /\ status = FirstStatus
  /\ auth = "loading"
  /\ page \in AppPages
  /\ view = FreshView
  /\ calls = {Ask("me", None)}

-----------------------------------------------------------------------------
(* The API and everybody else.                                             *)

ClientUnchanged == UNCHANGED <<auth, page, view, calls>>

(* A worker moves a run on; another tab starts one.                        *)
Advance(r) ==
  /\ \E s \in AnalysisRunStatus :
       /\ \/ CanTransition(status[r], s)
          \/ status[r] = "scraping" /\ s = "failed"
          \/ /\ status[r] = "absent" /\ s = "queued"
             /\ \A q \in Runs : ~IsActive(status[q])
       /\ status' = [status EXCEPT ![r] = s]
  /\ UNCHANGED session
  /\ ClientUnchanged

(* Expiry, or a sign-out in another tab.                                   *)
SessionEnds ==
  /\ session
  /\ session' = FALSE
  /\ UNCHANGED status
  /\ ClientUnchanged

Answered(c, of, answer) ==
  /\ c.answer = "none"
  /\ calls' = (calls \ {c}) \cup {[c EXCEPT !.of = of, !.answer = answer]}
  /\ UNCHANGED <<auth, page, view>>

(* The network, a 401, a 5xx, or results asked for too early (409).        *)
Refuse(c) ==
  /\ Answered(c, c.of, "error")
  /\ UNCHANGED <<session, status>>

(* Fault for the checks: a run that does not exist is no 404.              *)
BugAnswerRun(c) ==
  /\ c.call = "run" /\ session
  /\ Answered(c, c.of, status[c.of])
  /\ UNCHANGED <<session, status>>

AnswerRun(c) ==
  /\ c.call = "run" /\ session
  /\ status[c.of] # "absent"
  /\ Answered(c, c.of, status[c.of])
  /\ UNCHANGED <<session, status>>

AnswerResults(c) ==
  /\ c.call \in {"count", "results"} /\ session
  /\ status[c.of] = "complete"
  /\ Answered(c, c.of, "ok")
  /\ UNCHANGED <<session, status>>

AnswerOther(c) ==
  /\ c.call \in {"me", "titles", "upload"} => session
  /\ c.call \in {"me", "titles", "upload", "health"}
  /\ Answered(c, c.of, "ok")
  /\ UNCHANGED <<session, status>>

(* POST /runs: the answer with the new run, or the answer is lost.         *)
AnswerCreate(c, r) ==
  /\ c.call = "create" /\ session
  /\ status[r] = "absent"
  /\ \A q \in Runs : ~IsActive(status[q])
  /\ status' = [status EXCEPT ![r] = "queued"]
  /\ Answered(c, r, "ok") \/ Answered(c, c.of, "error")
  /\ UNCHANGED session

(* fetch resolves whatever the status code: an error answer counts as a    *)
(* sign-out, with the session still alive.                                 *)
AnswerLogout(c) ==
  /\ c.call = "logout"
  /\ session' \in {session, FALSE}
  /\ Answered(c, c.of, "ok")
  /\ UNCHANGED status

-----------------------------------------------------------------------------
(* Pages and routes.                                                       *)

ServerUnchanged == UNCHANGED <<session, status>>

(* Fault for the checks: no clearTimeout.                                  *)
BugTimerCleared(v) == v

(* The cleanup of useRunPolling: clearTimeout.                             *)
TimerCleared(v) == [v EXCEPT !.timer = FALSE]

(* The URL becomes p while the fetches cs are under way.  The same route   *)
(* with another run keeps its components: their state stays, the effects   *)
(* that depend on runId start anew.                                        *)
Show(p, cs) ==
  /\ page' = p
  /\ IF p = page THEN UNCHANGED view /\ calls' = cs
     ELSE IF p.name = page.name
     THEN /\ view' = TimerCleared(view)
          /\ calls' = Superseded({"run", "results"}, cs) \cup MountCalls(p)
     ELSE /\ view' = FreshView
          /\ calls' = Superseded(EffectCalls, cs) \cup MountCalls(p)

(* A link, or a jump in the tab's history.                                 *)
Navigate(p) ==
  /\ auth = "authenticated"
  /\ p # page
  /\ Cardinality(calls) < MaxCalls
  /\ Show(p, calls)
  /\ UNCHANGED auth
  /\ ServerUnchanged

(* The document is loaded anew: by hand, or at the end of a sign-in, which *)
(* leads to the dashboard.                                                 *)
Load(p, signedIn) ==
  /\ signedIn => auth = "anonymous"
  /\ session' = (session \/ signedIn)
  /\ auth' = "loading"
  /\ page' = p
  /\ view' = FreshView
  /\ calls' = {Ask("me", None)}
  /\ UNCHANGED status

(* The probe of AuthProvider is answered; a failure counts as signed out.  *)
(* ProtectedRoute then mounts the page or redirects.                       *)
ApplySession(c) ==
  /\ c.call = "me" /\ c.answer # "none"
  /\ view' = FreshView
  /\ IF c.answer = "ok"
     THEN /\ auth' = "authenticated"
          /\ calls' = (calls \ {c}) \cup MountCalls(page)
          /\ UNCHANGED page
     ELSE /\ auth' = "anonymous"
          /\ calls' = calls \ {c}
          /\ page' = LoginPage
  /\ ServerUnchanged

SignOut ==
  /\ auth = "authenticated"
  /\ Cardinality(calls) < MaxCalls
  /\ calls' = calls \cup {Ask("logout", None)}
  /\ UNCHANGED <<auth, page, view>>
  /\ ServerUnchanged

(* A network error rejects signOut and changes nothing.                    *)
SignedOut(c) ==
  /\ c.call = "logout" /\ c.answer # "none"
  /\ IF c.answer = "ok"
     THEN auth' = "anonymous" /\ Show(LoginPage, calls \ {c})
     ELSE calls' = calls \ {c} /\ UNCHANGED <<auth, page, view>>
  /\ ServerUnchanged

-----------------------------------------------------------------------------
(* useRunPolling and RunDetail.                                            *)

PageUnchanged == UNCHANGED <<session, status, auth, page>>

(* setTimeout of useRunPolling or useApiWarmup.                            *)
TimerFires ==
  /\ view.timer
  /\ view' = [view EXCEPT !.timer = FALSE]
  /\ calls' = calls \cup MountCalls(page)
  /\ PageUnchanged

(* Fault for the checks: a failed poll is not retried.                     *)
BugPollAgain(c) == c.answer # "error" /\ ~IsTerminal(c.answer)

(* After an answer, or a failure, the next poll is scheduled.              *)
PollAgain(c) == ~IsTerminal(c.answer)

(* The effect of RunDetail depends on run.status and run.id.               *)
CountCalls(snapshot, cs) ==
  IF snapshot = view.run THEN cs
  ELSE Superseded({"count"}, cs)
         \cup (IF snapshot.status = "complete" THEN {Ask("count", snapshot.id)} ELSE {})

Polled(c) ==
  /\ c.call = "run" /\ c.answer # "none"
  /\ IF ~c.live
     THEN calls' = calls \ {c} /\ UNCHANGED view
     ELSE LET snapshot == IF c.answer = "error" THEN view.run
                          ELSE Snapshot(c.of, c.answer)
          IN  /\ view' = [view EXCEPT !.run = snapshot, !.timer = PollAgain(c)]
              /\ calls' = CountCalls(snapshot, calls \ {c})
  /\ PageUnchanged

(* A field of the view is set from the answer to a fetch that is still     *)
(* wanted; otherwise the answer goes nowhere.                              *)
Take(c, updated) ==
  /\ view' = IF c.live THEN updated ELSE view
  /\ calls' = calls \ {c}
  /\ PageUnchanged

(* A failure leaves the count as it is.                                    *)
Counted(c) ==
  /\ c.call = "count" /\ c.answer # "none"
  /\ Take(c, IF c.answer = "ok" THEN [view EXCEPT !.count = c.of] ELSE view)

(* Results: a failure leaves the results as they are.                      *)
ResultsLoaded(c) ==
  /\ c.call = "results" /\ c.answer # "none"
  /\ Take(c, IF c.answer = "ok" THEN [view EXCEPT !.results = c.of] ELSE view)

-----------------------------------------------------------------------------
(* useApiWarmup.                                                           *)

ThresholdPasses ==
  /\ auth = "authenticated" /\ page.name = "dashboard"
  /\ view.threshold
  /\ view' = [view EXCEPT !.threshold = FALSE, !.warmup = "warming"]
  /\ UNCHANGED calls
  /\ PageUnchanged

Probed(c) ==
  /\ c.call = "health" /\ c.answer # "none"
  /\ Take(c, IF c.answer = "ok"
             THEN [view EXCEPT !.warmup = "ready", !.threshold = FALSE]
             ELSE [view EXCEPT !.warmup = "warming", !.timer = TRUE])

-----------------------------------------------------------------------------
(* NewRun, CvUploadForm, TitleSuggestions, JobSearchForm.                  *)

AtStep(step) ==
  auth = "authenticated" /\ page.name = "wizard" /\ view.step = step

(* setStep({name: "titles", cv}).  On the titles step TitleSuggestions     *)
(* stays and its effect starts anew; from another step it is mounted.      *)
ToTitles(c, cs) ==
  /\ view' = [view EXCEPT !.step = "titles", !.cv = c,
                          !.titles = IF view.step = "titles" THEN @ ELSE None]
  /\ calls' = IF view.step = "titles" /\ view.cv = c THEN cs
              ELSE Superseded({"titles"}, cs) \cup {Ask("titles", c)}

UseCv(c) ==
  /\ AtStep("cv")
  /\ Cardinality(calls) < MaxCalls
  /\ ToTitles(c, calls)
  /\ PageUnchanged

Upload(c) ==
  /\ AtStep("cv")
  /\ LiveCalls("upload") = {}
  /\ Cardinality(calls) < MaxCalls
  /\ calls' = calls \cup {Ask("upload", c)}
  /\ UNCHANGED view
  /\ PageUnchanged

(* onUploaded of a wizard that is still there, whatever step it is on by   *)
(* now.                                                                    *)
Uploaded(c) ==
  /\ c.call = "upload" /\ c.answer # "none"
  /\ IF c.live /\ c.answer = "ok"
     THEN ToTitles(c.of, calls \ {c})
     ELSE calls' = calls \ {c} /\ UNCHANGED view
  /\ PageUnchanged

TitlesSuggested(c) ==
  /\ c.call = "titles" /\ c.answer # "none"
  /\ Take(c, [view EXCEPT !.titles = IF c.answer = "ok" THEN c.of ELSE None])

(* A suggestion, or a role of one's own.                                   *)
UseTitle ==
  /\ AtStep("titles")
  /\ view' = [view EXCEPT !.step = "search"]
  /\ calls' = Superseded({"titles"}, calls)
  /\ PageUnchanged

(* One POST /runs at a time (a bound, too: the button of another wizard    *)
(* would allow a second one).                                              *)
Start ==
  /\ AtStep("search")
  /\ LiveCalls("create") = {}
  /\ Cardinality(calls) < MaxCalls
  /\ calls' = calls \cup {Ask("create", None)}
  /\ UNCHANGED view
  /\ PageUnchanged

(* handleStarted navigates to the new run, wherever the user is by now.    *)
Started(c) ==
  /\ c.call = "create" /\ c.answer # "none"
  /\ IF c.answer = "ok" /\ auth = "authenticated"
     THEN Show(Page("detail", c.of), calls \ {c})
     ELSE calls' = calls \ {c} /\ UNCHANGED <<page, view>>
  /\ UNCHANGED auth
  /\ ServerUnchanged

-----------------------------------------------------------------------------
Answer(c) ==
  \/ Refuse(c)
  \/ AnswerRun(c)
  \/ AnswerResults(c)
  \/ AnswerOther(c)
  \/ \E r \in Runs : AnswerCreate(c, r)
  \/ AnswerLogout(c)

(* The callback of the fetch runs.                                         *)
Continue(c) ==
  \/ ApplySession(c)
  \/ SignedOut(c)
  \/ Polled(c)
  \/ Counted(c)
  \/ ResultsLoaded(c)
  \/ Probed(c)
  \/ Uploaded(c)
  \/ TitlesSuggested(c)
  \/ Started(c)

Next ==
  \/ \E r \in Runs : Advance(r)
  \/ SessionEnds
  \/ \E c \in calls : Answer(c) \/ Continue(c)
  \/ \E p \in AppPages : Navigate(p) \/ (p = page /\ Load(p, FALSE))
  \/ Load(Page("dashboard", None), TRUE)
  \/ SignOut
  \/ TimerFires
  \/ ThresholdPasses
  \/ \E c \in Cvs \ NewCvs : UseCv(c)
  \/ \E c \in NewCvs : Upload(c)
  \/ UseTitle
  \/ Start

Spec == Init /\ [][Next]_vars

(* The browser runs its timers and callbacks, and while the tab keeps      *)
(* asking the API does not fail for ever: a request that is made again and *)
(* again is answered at last.  Clicks and sign-ins are not required.       *)
Fairness ==
  /\ WF_vars(TimerFires)
  /\ \A r \in Runs :
       /\ SF_vars(\E c \in LiveCalls("run") : c.of = r /\ AnswerRun(c))
       /\ WF_vars(\E c \in LiveCalls("run") : c.of = r /\ Polled(c))
  /\ SF_vars(\E c \in LiveCalls("health") : AnswerOther(c))
  /\ WF_vars(\E c \in LiveCalls("health") : Probed(c))

FairSpec == Spec /\ Fairness
-----------------------------------------------------------------------------
(* Correctness.                                                            *)

On(p) == auth = "authenticated" /\ page = p

Polls == Cardinality(LiveCalls("run")) + (IF view.timer THEN 1 ELSE 0)

(* While the run page is open one poll is under way or scheduled, never    *)
(* two, whatever mixture of slow answers, failures and jumps between runs  *)
(* came before; polling stops only with the outcome of the page's own run  *)
(* on screen.                                                              *)
OnePollWhileRunning ==
  \A r \in Runs : On(Page("detail", r)) =>
    /\ Polls <= 1
    /\ Polls = 0 => view.run.id = r /\ IsTerminal(view.run.status)

(* What appears on screen was fetched for what the screen is about now: a  *)
(* late answer to an earlier page, run or CV never does.  (What an earlier *)
(* run left on screen may stay until the answer for the new one is there.) *)
OnlyCurrentAnswersShown ==
  [][ /\ view'.run # view.run => view'.run.id \in {None, page'.id}
      /\ view'.count # view.count => view'.count \in {None, view'.run.id}
      /\ view'.results # view.results => view'.results \in {None, page'.id}
      /\ view'.titles # view.titles => view'.titles \in {None, view'.cv} ]_vars

(* Whoever stays on the page of a run sees its outcome, and whoever stays  *)
(* on the dashboard sees the warming banner go, however often polls and    *)
(* probes failed before.                                                   *)
PollingSucceeds ==
  /\ \A r \in Runs :
       On(Page("detail", r)) /\ IsTerminal(status[r])
         ~> \/ view.run = Snapshot(r, status[r])
            \/ ~session \/ ~On(Page("detail", r))
  /\ On(Page("dashboard", None))
       ~> view.warmup = "ready" \/ ~On(Page("dashboard", None))
=============================================================================
