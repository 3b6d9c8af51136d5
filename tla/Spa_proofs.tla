----------------------------- MODULE Spa_proofs -----------------------------
(***************************************************************************)
(* The tab shows what it was asked for, for any number of runs, CVs and    *)
(* fetches under way: each fetch that may still change the screen belongs  *)
(* to what the screen is about.                                            *)
(***************************************************************************)
EXTENDS Spa, FiniteSetTheorems, TLAPS

(* What each kind of fetch carries.                                        *)
CallSound(c) ==
  /\ c \in CallType
  /\ c.call \in {"run", "count", "results"} => c.of \in Runs
  /\ c.call \in {"titles", "upload"} => c.of \in Cvs
  /\ c.call = "create" /\ c.answer = "ok" => c.of \in Runs
  /\ c.call = "run" => c.answer # "ok"
  /\ c.call # "run" => c.answer \in {"none", "ok", "error"}
  /\ c.call = "me" <=> auth = "loading"

(* A fetch that is still wanted was made for what is on screen.            *)
CallWanted(c) ==
  c.live =>
    /\ c.call \in EffectCalls => auth = "authenticated"
    /\ c.call = "run" => page = Page("detail", c.of)
    /\ c.call = "results" => page = Page("results", c.of)
    /\ c.call = "count" => page.name = "detail" /\ c.of = view.run.id
    /\ c.call = "titles" => page.name = "wizard" /\ c.of = view.cv
    /\ c.call = "upload" => page.name = "wizard"
    /\ c.call = "health" => page.name = "dashboard"

CallsInv == \A c \in calls : CallSound(c) /\ CallWanted(c)

PageInv ==
  /\ auth = "anonymous" <=> page = LoginPage
  /\ auth = "loading" => \A c, d \in calls : c = d
  /\ view.timer => auth = "authenticated" /\ page.name \in {"detail", "dashboard"}

LiveRun(c) == c.call = "run" /\ c.live

PollInv ==
  /\ \A c, d \in calls : LiveRun(c) /\ LiveRun(d) => c = d
  /\ view.timer /\ page.name = "detail" => \A c \in calls : ~LiveRun(c)
  /\ auth = "authenticated" /\ page.name = "detail" =>
       \/ view.timer
       \/ \E c \in calls : LiveRun(c)
       \/ view.run.id = page.id /\ IsTerminal(view.run.status)

SpaInv == SpaTypeOK /\ CallsInv /\ PageInv /\ PollInv

(* A page of the application, and what it fetches when it mounts. *)
LEMMA Pages ==
  ASSUME NEW p \in AppPages
  PROVE  /\ p = [name |-> p.name, id |-> p.id]
         /\ p # LoginPage
         /\ p.name \in {"dashboard", "wizard", "detail", "results"}
         /\ p.name \in {"dashboard", "wizard"} => p.id = None /\ p = Page(p.name, None)
         /\ p.name \in {"detail", "results"} => p.id \in Runs /\ p = Page(p.name, p.id)
         /\ \A c \in MountCalls(p) :
              /\ c = Ask(c.call, c.of) /\ c \in CallType /\ c.live /\ c.answer = "none"
              /\ \/ p.name = "detail" /\ c.call = "run" /\ c.of = p.id
                 \/ p.name = "results" /\ c.call = "results" /\ c.of = p.id
                 \/ p.name = "dashboard" /\ c.call = "health" /\ c.of = None
         /\ p.name = "detail" => MountCalls(p) = {Ask("run", p.id)}
<1>1. /\ p = [name |-> p.name, id |-> p.id]
      /\ p # LoginPage
      /\ p.name \in {"dashboard", "wizard", "detail", "results"}
      /\ p.name \in {"dashboard", "wizard"} => p.id = None /\ p = Page(p.name, None)
      /\ p.name \in {"detail", "results"} => p.id \in Runs /\ p = Page(p.name, p.id)
  BY DEF AppPages, Page, LoginPage
<1>2. CASE p.name = "detail"
  <2>1. MountCalls(p) = {Ask("run", p.id)}
    BY <1>2 DEF MountCalls
  <2>2. Ask("run", p.id) \in CallType
    BY <1>1, <1>2 DEF Ask, CallType, EffectCalls
  <2> QED
    BY <1>1, <1>2, <2>1, <2>2 DEF Ask
<1>3. CASE p.name = "results"
  <2>1. MountCalls(p) = {Ask("results", p.id)}
    BY <1>3 DEF MountCalls
  <2>2. Ask("results", p.id) \in CallType
    BY <1>1, <1>3 DEF Ask, CallType, EffectCalls
  <2> QED
    BY <1>1, <1>3, <2>1, <2>2 DEF Ask
<1>4. CASE p.name = "dashboard"
  <2>1. MountCalls(p) = {Ask("health", None)}
    BY <1>4 DEF MountCalls
  <2>2. Ask("health", None) \in CallType
    BY <1>1, <1>4 DEF Ask, CallType, EffectCalls
  <2> QED
    BY <1>1, <1>4, <2>1, <2>2 DEF Ask
<1>5. CASE p.name = "wizard"
  <2>1. MountCalls(p) = {}
    BY <1>5 DEF MountCalls
  <2> QED
    BY <1>1, <1>5, <2>1
<1> QED
  BY <1>1, <1>2, <1>3, <1>4, <1>5

(* The invariant holds of a tab that has just been opened. *)
LEMMA InitSpaInv == Init => SpaInv
<1> SUFFICES ASSUME Init PROVE SpaInv
  OBVIOUS
<1> USE SpaAssumption DEF Init
<1>1. view \in ViewType /\ ~view.timer
  BY DEF FreshView, ViewType, NoSnapshot
<1>2. page # LoginPage
  BY Pages
<1>3. SpaTypeOK
  <2>1. Ask("me", None) \in CallType
    BY DEF Ask, CallType, EffectCalls
  <2> QED
    BY <1>1, <2>1 DEF SpaTypeOK
<1>4. CallsInv
  <2>1. calls = {Ask("me", None)} /\ auth = "loading"
    OBVIOUS
  <2>2. /\ Ask("me", None) \in CallType
        /\ Ask("me", None).call = "me" /\ Ask("me", None).answer = "none"
    BY DEF Ask, CallType, EffectCalls
  <2> QED
    <3>1. \A c \in calls : c \in CallType /\ c.call = "me" /\ c.answer = "none"
      BY <2>1, <2>2
    <3>2. \A c \in calls : CallSound(c)
      BY <2>1, <3>1 DEF CallSound
    <3>3. \A c \in calls : CallWanted(c)
      BY <3>1 DEF CallWanted, EffectCalls
    <3> QED
      BY <3>2, <3>3 DEF CallsInv
<1>5. PageInv
  BY <1>1, <1>2 DEF PageInv
<1>6. PollInv
  BY <1>1 DEF PollInv, LiveRun, Ask
<1> QED BY <1>3, <1>4, <1>5, <1>6 DEF SpaInv

(* What the API does to a fetch concerns neither page nor screen. *)
LEMMA AnsweredInv ==
  ASSUME SpaInv, NEW c \in calls, NEW of, NEW answer, Answered(c, of, answer),
         answer \in {"ok", "error"} \cup AnalysisRunStatus,
         of = c.of \/ (c.call = "create" /\ of \in Runs),
         c.call = "create" /\ answer = "ok" => of \in Runs,
         c.call = "run" => answer # "ok",
         c.call # "run" => answer \in {"ok", "error"},
         session' \in BOOLEAN,
         status' \in [Runs -> AnalysisRunStatus \cup {"absent"}]
  PROVE  SpaInv'
<1> DEFINE e == [c EXCEPT !.of = of, !.answer = answer]
<1>1. /\ e \in CallType /\ e.call = c.call /\ e.live = c.live
      /\ e.of = of /\ e.answer = answer
  BY DEF SpaInv, CallsInv, CallSound, CallType
<1>2. calls' = (calls \ {c}) \cup {e} /\ auth' = auth /\ page' = page /\ view' = view
  BY DEF Answered
<1> HIDE DEF e
<1>3. CallSound(e)' /\ CallWanted(e)'
  BY <1>1, <1>2 DEF SpaInv, CallsInv, CallSound, CallWanted, EffectCalls
<1>4. \A d \in calls : CallSound(d)' /\ CallWanted(d)'
  BY <1>2 DEF SpaInv, CallsInv, CallSound, CallWanted
<1>5. CallsInv'
  BY <1>2, <1>3, <1>4 DEF CallsInv
<1>6. SpaTypeOK'
  BY <1>1, <1>2 DEF SpaInv, SpaTypeOK
<1>7. PageInv'
  <2>1. auth = "loading" => calls = {c}
    BY DEF SpaInv, PageInv
  <2> QED
    BY <1>2, <2>1 DEF SpaInv, PageInv
<1>8. PollInv'
  BY <1>1, <1>2 DEF SpaInv, PollInv, LiveRun
<1> QED BY <1>5, <1>6, <1>7, <1>8 DEF SpaInv

(* Every answer of the API keeps the invariant. *)
LEMMA AnswerInv ==
  ASSUME SpaInv, NEW c \in calls, Answer(c)
  PROVE  SpaInv'
<1>0. /\ SpaTypeOK /\ CallSound(c)
      /\ session \in BOOLEAN
      /\ status \in [Runs -> AnalysisRunStatus \cup {"absent"}]
  BY DEF SpaInv, CallsInv, SpaTypeOK
<1>1. CASE Refuse(c)
  BY <1>0, <1>1, AnsweredInv DEF Refuse, CallSound
<1>2. CASE AnswerRun(c)
  <2>1. c.of \in Runs /\ status[c.of] \in AnalysisRunStatus
    BY <1>0, <1>2 DEF AnswerRun, CallSound
  <2>2. status[c.of] # "ok"
    BY <2>1 DEF AnalysisRunStatus
  <2>3. Answered(c, c.of, status[c.of]) /\ c.call = "run" /\ session' = session /\ status' = status
    BY <1>2 DEF AnswerRun
  <2> QED
    BY <1>0, <2>1, <2>2, <2>3, AnsweredInv
<1>3. CASE AnswerResults(c)
  BY <1>0, <1>3, AnsweredInv DEF AnswerResults
<1>4. CASE AnswerOther(c)
  BY <1>0, <1>4, AnsweredInv DEF AnswerOther
<1>5. ASSUME NEW r \in Runs, AnswerCreate(c, r) PROVE SpaInv'
  <2>1. status' \in [Runs -> AnalysisRunStatus \cup {"absent"}] /\ session' = session
    BY <1>0, <1>5 DEF AnswerCreate, AnalysisRunStatus
  <2>2. c.call = "create"
    BY <1>5 DEF AnswerCreate
  <2>3. Answered(c, r, "ok") \/ Answered(c, c.of, "error")
    BY <1>5 DEF AnswerCreate
  <2> QED
    BY <1>0, <2>1, <2>2, <2>3, AnsweredInv
<1>6. CASE AnswerLogout(c)
  <2>1. session' \in BOOLEAN /\ status' = status
    BY <1>0, <1>6 DEF AnswerLogout
  <2> QED
    BY <1>0, <1>6, <2>1, AnsweredInv DEF AnswerLogout
<1> QED
  BY <1>1, <1>2, <1>3, <1>4, <1>5, <1>6 DEF Answer

-----------------------------------------------------------------------------
(* Pages and routes.                                                       *)

(* A fetch that the cleanup of an effect marked is not wanted any more;    *)
(* the others are as they were.                                            *)
LEMMA Cleanup ==
  ASSUME NEW kinds, NEW cs \in SUBSET CallType, NEW c \in Superseded(kinds, cs)
  PROVE  \/ c \in cs /\ c.call \notin kinds
         \/ /\ ~c.live /\ c \in CallType
            /\ \E d \in cs : /\ c.call = d.call /\ c.of = d.of /\ c.answer = d.answer
                             /\ d.call \in kinds
<1>1. PICK d \in cs : c = IF d.call \in kinds THEN [d EXCEPT !.live = FALSE] ELSE d
  BY DEF Superseded
<1>2. CASE d.call \in kinds
  <2>1. c = [d EXCEPT !.live = FALSE] /\ d \in CallType
    BY <1>1, <1>2
  <2>2. /\ ~c.live /\ c \in CallType
        /\ c.call = d.call /\ c.of = d.of /\ c.answer = d.answer
    BY <2>1 DEF CallType
  <2> QED
    BY <1>2, <2>2
<1>3. CASE d.call \notin kinds
  BY <1>1, <1>3
<1> QED BY <1>2, <1>3

(* Moving to a page of the application keeps the invariant. *)
LEMMA ShowInv ==
  ASSUME SpaInv, auth = "authenticated", NEW p \in AppPages, NEW cs \in SUBSET calls,
         Show(p, cs), UNCHANGED <<session, status, auth>>,
         \A c \in calls \ cs : c.call \notin EffectCalls
  PROVE  SpaInv'
<1>0. /\ SpaTypeOK /\ CallsInv /\ PageInv /\ PollInv /\ page # LoginPage
      /\ cs \in SUBSET CallType /\ page \in AppPages /\ view \in ViewType
  BY DEF SpaInv, PageInv, SpaTypeOK
<1>1. CASE p = page
  <2>1. page' = page /\ view' = view /\ calls' = cs
    BY <1>1 DEF Show
  <2>2. CallsInv' /\ PageInv'
    BY <1>0, <2>1 DEF CallsInv, CallSound, CallWanted, PageInv
  <2>3. PollInv'
    BY <1>0, <2>1 DEF PollInv, LiveRun, EffectCalls
  <2>4. SpaTypeOK'
    BY <1>0, <2>1 DEF SpaTypeOK
  <2> QED BY <2>2, <2>3, <2>4 DEF SpaInv
<1>2. CASE p # page /\ p.name = page.name
  <2>1. /\ page' = p /\ view' = TimerCleared(view)
        /\ calls' = Superseded({"run", "results"}, cs) \cup MountCalls(p)
    BY <1>2 DEF Show
  <2>2. /\ view' \in ViewType /\ ~view'.timer /\ view'.run = view.run
        /\ view'.cv = view.cv
    BY <1>0, <2>1 DEF TimerCleared, ViewType
  <2>3. p.name \in {"detail", "results"} /\ p = Page(p.name, p.id) /\ p.id \in Runs
    BY <1>0, <1>2, Pages
  <2>4. ASSUME NEW c \in MountCalls(p) PROVE CallSound(c)' /\ CallWanted(c)'
    BY <1>0, <2>1, <2>3, Pages DEF CallSound, CallWanted, EffectCalls
  <2>5. ASSUME NEW c \in Superseded({"run", "results"}, cs)
        PROVE CallSound(c)' /\ CallWanted(c)' /\ ~LiveRun(c)
    <3>1. CASE c \in cs /\ c.call \notin {"run", "results"}
      BY <1>0, <1>2, <2>1, <2>2, <3>1 DEF CallsInv, CallSound, CallWanted, LiveRun
    <3>2. CASE /\ ~c.live /\ c \in CallType
               /\ \E d \in cs : /\ c.call = d.call /\ c.of = d.of /\ c.answer = d.answer
                                /\ d.call \in {"run", "results"}
      BY <1>0, <2>1, <3>2 DEF CallsInv, CallSound, CallWanted, LiveRun
    <3> QED BY <1>0, <2>5, <3>1, <3>2, Cleanup
  <2>6. CallsInv'
    BY <2>1, <2>4, <2>5 DEF CallsInv
  <2>7. PageInv'
    BY <1>0, <2>1, <2>2, Pages DEF PageInv
  <2>8. PollInv'
    <3>1. CASE p.name = "detail"
      <4>1. MountCalls(p) = {Ask("run", p.id)} /\ LiveRun(Ask("run", p.id))
        BY <3>1, Pages DEF LiveRun, Ask
      <4> QED
        BY <2>1, <2>2, <2>5, <4>1 DEF PollInv, LiveRun
    <3>2. CASE p.name # "detail"
      <4>1. \A c \in MountCalls(p) : ~LiveRun(c)
        BY <3>2, Pages DEF LiveRun
      <4> QED
        BY <2>1, <2>2, <2>5, <3>2, <4>1 DEF PollInv, LiveRun
    <3> QED BY <3>1, <3>2
  <2>9. SpaTypeOK'
    BY <1>0, <2>1, <2>2, <2>6 DEF SpaTypeOK, CallsInv, CallSound
  <2> QED BY <2>6, <2>7, <2>8, <2>9 DEF SpaInv
<1>3. CASE p # page /\ p.name # page.name
  <2>1. /\ page' = p /\ view' = FreshView
        /\ calls' = Superseded(EffectCalls, cs) \cup MountCalls(p)
    BY <1>3 DEF Show
  <2>2. FreshView \in ViewType /\ ~FreshView.timer
    BY DEF FreshView, ViewType, NoSnapshot
  <2>4. ASSUME NEW c \in MountCalls(p) PROVE CallSound(c)' /\ CallWanted(c)'
    BY <1>0, <2>1, Pages DEF CallSound, CallWanted, EffectCalls
  <2>5. ASSUME NEW c \in Superseded(EffectCalls, cs)
        PROVE CallSound(c)' /\ CallWanted(c)' /\ ~LiveRun(c)
    <3>1. CASE c \in cs /\ c.call \notin EffectCalls
      BY <1>0, <2>1, <3>1 DEF CallsInv, CallSound, CallWanted, LiveRun, EffectCalls
    <3>2. CASE /\ ~c.live /\ c \in CallType
               /\ \E d \in cs : /\ c.call = d.call /\ c.of = d.of /\ c.answer = d.answer
                                /\ d.call \in EffectCalls
      BY <1>0, <2>1, <3>2 DEF CallsInv, CallSound, CallWanted, LiveRun
    <3> QED BY <1>0, <2>5, <3>1, <3>2, Cleanup
  <2>6. CallsInv'
    BY <2>1, <2>4, <2>5 DEF CallsInv
  <2>7. PageInv'
    BY <1>0, <2>1, <2>2, Pages DEF PageInv
  <2>8. PollInv'
    <3>1. CASE p.name = "detail"
      <4>1. MountCalls(p) = {Ask("run", p.id)} /\ LiveRun(Ask("run", p.id))
        BY <3>1, Pages DEF LiveRun, Ask
      <4> QED
        BY <2>1, <2>2, <2>5, <4>1 DEF PollInv, LiveRun
    <3>2. CASE p.name # "detail"
      <4>1. \A c \in MountCalls(p) : ~LiveRun(c)
        BY <3>2, Pages DEF LiveRun
      <4> QED
        BY <2>1, <2>2, <2>5, <3>2, <4>1 DEF PollInv, LiveRun
    <3> QED BY <3>1, <3>2
  <2>9. SpaTypeOK'
    BY <1>0, <2>1, <2>2, <2>6 DEF SpaTypeOK, CallsInv, CallSound
  <2> QED BY <2>6, <2>7, <2>8, <2>9 DEF SpaInv
<1> QED BY <1>1, <1>2, <1>3

(* Signing out leaves nothing behind that may still change the screen. *)
LEMMA ShowLoginInv ==
  ASSUME SpaInv, auth = "authenticated", NEW cs \in SUBSET calls, Show(LoginPage, cs),
         auth' = "anonymous", UNCHANGED <<session, status>>
  PROVE  SpaInv'
<1>0. SpaTypeOK /\ CallsInv /\ PageInv /\ page # LoginPage /\ page \in AppPages
  BY DEF SpaInv, PageInv, SpaTypeOK
<1>1. page.name # "login" /\ LoginPage.name = "login"
  BY <1>0, Pages DEF LoginPage, Page
<1>2. /\ page' = LoginPage /\ view' = FreshView
      /\ calls' = Superseded(EffectCalls, cs)
  <2>1. MountCalls(LoginPage) = {}
    BY DEF MountCalls, LoginPage, Page
  <2> QED
    BY <1>0, <1>1, <2>1 DEF Show
<1>3. FreshView \in ViewType /\ ~FreshView.timer
  BY DEF FreshView, ViewType, NoSnapshot
<1>4. ASSUME NEW c \in Superseded(EffectCalls, cs)
      PROVE CallSound(c)' /\ CallWanted(c)' /\ ~LiveRun(c)
  <2>0. cs \in SUBSET CallType
    BY <1>0 DEF SpaTypeOK
  <2>1. CASE c \in cs /\ c.call \notin EffectCalls
    BY <1>0, <1>2, <2>1 DEF CallsInv, CallSound, CallWanted, LiveRun, EffectCalls
  <2>2. CASE /\ ~c.live /\ c \in CallType
             /\ \E d \in cs : /\ c.call = d.call /\ c.of = d.of /\ c.answer = d.answer
                              /\ d.call \in EffectCalls
    BY <1>0, <1>2, <2>2 DEF CallsInv, CallSound, CallWanted, LiveRun
  <2> QED BY <1>4, <2>0, <2>1, <2>2, Cleanup
<1>5. CallsInv'
  BY <1>2, <1>4 DEF CallsInv
<1>6. PageInv'
  BY <1>2, <1>3 DEF PageInv
<1>7. PollInv'
  BY <1>2, <1>3, <1>4 DEF PollInv, LiveRun
<1>8. SpaTypeOK'
  BY <1>0, <1>2, <1>3, <1>5 DEF SpaTypeOK, CallsInv, CallSound
<1> QED BY <1>5, <1>6, <1>7, <1>8 DEF SpaInv

(* A step that ends fetches other than the live poll, and touches neither  *)
(* the run on screen, the timer nor the chosen CV.                         *)
LEMMA QuietInv ==
  ASSUME SpaInv, calls' \subseteq calls, \A c \in calls \ calls' : ~LiveRun(c),
         UNCHANGED <<auth, page>>, session' \in BOOLEAN,
         status' \in [Runs -> AnalysisRunStatus \cup {"absent"}],
         view' \in ViewType, view'.timer = view.timer, view'.run = view.run,
         view'.cv = view.cv
  PROVE  SpaInv'
<1>1. CallsInv'
  BY DEF SpaInv, CallsInv, CallSound, CallWanted
<1>2. PageInv'
  BY DEF SpaInv, PageInv
<1>3. PollInv'
  BY DEF SpaInv, PollInv, LiveRun
<1>4. SpaTypeOK'
  BY DEF SpaInv, SpaTypeOK
<1> QED BY <1>1, <1>2, <1>3, <1>4 DEF SpaInv

(* A new fetch that is no poll. *)
LEMMA AskInv ==
  ASSUME SpaInv, auth = "authenticated",
         NEW a, calls' = calls \cup {a}, CallSound(a), CallWanted(a), ~LiveRun(a),
         UNCHANGED <<session, status, auth, page, view>>
  PROVE  SpaInv'
<1>1. CallsInv'
  BY DEF SpaInv, CallsInv, CallSound, CallWanted
<1>2. PageInv'
  BY DEF SpaInv, PageInv
<1>3. PollInv'
  BY DEF SpaInv, PollInv, LiveRun
<1>4. SpaTypeOK'
  BY DEF SpaInv, SpaTypeOK, CallSound
<1> QED BY <1>1, <1>2, <1>3, <1>4 DEF SpaInv

(* The next poll, or the next probe of the dashboard. *)
LEMMA TimerInv ==
  ASSUME SpaInv, TimerFires
  PROVE  SpaInv'
<1>0. /\ SpaTypeOK /\ CallsInv /\ PageInv /\ PollInv /\ view.timer
      /\ auth = "authenticated" /\ page.name \in {"detail", "dashboard"}
      /\ page \in AppPages /\ view \in ViewType
  BY DEF SpaInv, PageInv, SpaTypeOK, TimerFires
<1>1. /\ view' = [view EXCEPT !.timer = FALSE]
      /\ calls' = calls \cup MountCalls(page)
      /\ UNCHANGED <<session, status, auth, page>>
  BY DEF TimerFires, PageUnchanged
<1>2. view' \in ViewType /\ ~view'.timer /\ view'.run = view.run /\ view'.cv = view.cv
  BY <1>0, <1>1 DEF ViewType
<1>3. ASSUME NEW c \in MountCalls(page) PROVE CallSound(c) /\ CallWanted(c)
  BY <1>0, Pages DEF CallSound, CallWanted, EffectCalls
<1>4. CallsInv'
  BY <1>0, <1>1, <1>2, <1>3 DEF CallsInv, CallSound, CallWanted
<1>5. PageInv'
  BY <1>0, <1>1, <1>2 DEF PageInv
<1>6. PollInv'
  <2>1. CASE page.name = "detail"
    <3>1. MountCalls(page) = {Ask("run", page.id)} /\ LiveRun(Ask("run", page.id))
      BY <1>0, <2>1, Pages DEF LiveRun, Ask
    <3> QED
      BY <1>0, <1>1, <1>2, <2>1, <3>1 DEF PollInv, LiveRun
  <2>2. CASE page.name = "dashboard"
    <3>1. \A c \in calls' : ~LiveRun(c)
      BY <1>0, <1>1, <1>3, <2>2, Pages DEF CallsInv, CallWanted, LiveRun, Page
    <3> QED
      BY <1>1, <1>2, <2>2, <3>1 DEF PollInv, LiveRun
  <2> QED BY <1>0, <2>1, <2>2
<1>7. SpaTypeOK'
  BY <1>0, <1>1, <1>2, <1>4 DEF SpaTypeOK, CallsInv, CallSound
<1> QED BY <1>4, <1>5, <1>6, <1>7 DEF SpaInv

(* The answer to a poll. *)
LEMMA PolledInv ==
  ASSUME SpaInv, NEW c \in calls, Polled(c)
  PROVE  SpaInv'
<1>0. /\ SpaTypeOK /\ CallsInv /\ PageInv /\ PollInv /\ CallSound(c) /\ CallWanted(c)
      /\ view \in ViewType /\ calls \in SUBSET CallType
      /\ session \in BOOLEAN
      /\ status \in [Runs -> AnalysisRunStatus \cup {"absent"}]
      /\ c.call = "run" /\ c.answer # "none"
  BY DEF SpaInv, CallsInv, SpaTypeOK, Polled
<1>1. UNCHANGED <<session, status, auth, page>>
  BY DEF Polled, PageUnchanged
<1>2. CASE ~c.live
  <2>1. calls' = calls \ {c} /\ view' = view
    BY <1>2 DEF Polled
  <2> QED BY <1>0, <1>1, <1>2, <2>1, QuietInv DEF LiveRun
<1>3. CASE c.live
  <2> DEFINE snapshot == IF c.answer = "error" THEN view.run ELSE Snapshot(c.of, c.answer)
  <2>1. /\ view' = [view EXCEPT !.run = snapshot, !.timer = PollAgain(c)]
        /\ calls' = CountCalls(snapshot, calls \ {c})
    BY <1>3 DEF Polled
  <2>2. /\ auth = "authenticated" /\ page = Page("detail", c.of) /\ c.of \in Runs
        /\ page.name = "detail" /\ page.id = c.of
    BY <1>0, <1>3 DEF CallSound, CallWanted, EffectCalls, Page
  <2>3. c.answer = "error" \/ c.answer \in AnalysisRunStatus
    BY <1>0 DEF CallSound, CallType
  <2>4. snapshot \in {NoSnapshot} \cup [id : Runs, status : AnalysisRunStatus]
    BY <1>0, <2>2, <2>3 DEF ViewType, Snapshot
  <2>5. PollAgain(c) \in BOOLEAN /\ (PollAgain(c) <=> ~IsTerminal(c.answer))
    BY DEF PollAgain, IsTerminal
  <2>6. ~PollAgain(c) => c.answer # "error" /\ snapshot.id = page.id /\ IsTerminal(snapshot.status)
    BY <2>2, <2>5 DEF IsTerminal, TerminalStatuses, Snapshot
  <2> HIDE DEF snapshot
  <2>7. /\ view' \in ViewType /\ view'.run = snapshot /\ view'.timer = PollAgain(c)
        /\ view'.cv = view.cv
    BY <1>0, <2>1, <2>4, <2>5 DEF ViewType
  <2>8. ASSUME NEW d \in calls' PROVE CallSound(d)' /\ CallWanted(d)' /\ ~LiveRun(d)
    <3>1. CASE d \in calls /\ d # c /\ (d.call # "count" \/ snapshot = view.run)
      BY <1>0, <1>1, <1>3, <2>7, <3>1
         DEF CallsInv, CallSound, CallWanted, PollInv, LiveRun
    <3>2. CASE /\ ~d.live /\ d \in CallType
               /\ \E e \in calls : /\ d.call = e.call /\ d.of = e.of /\ d.answer = e.answer
                                   /\ e.call \in {"count"}
      BY <1>0, <1>1, <3>2 DEF CallsInv, CallSound, CallWanted, LiveRun
    <3>3. CASE d = Ask("count", snapshot.id) /\ snapshot.status = "complete"
      <4>1. snapshot.id \in Runs
        BY <2>4, <3>3 DEF NoSnapshot
      <4>2. d \in CallType /\ d.call = "count" /\ d.of = snapshot.id /\ d.answer = "none"
        BY <3>3, <4>1 DEF Ask, CallType, EffectCalls
      <4> QED
        BY <1>1, <2>2, <2>7, <4>1, <4>2 DEF CallSound, CallWanted, LiveRun
    <3>4. CASE snapshot = view.run
      <4>1. d \in calls /\ d # c
        BY <2>1, <2>8, <3>4 DEF CountCalls
      <4> QED BY <3>1, <3>4, <4>1
    <3>5. CASE snapshot # view.run
      <4>1. \/ d \in Superseded({"count"}, calls \ {c})
            \/ d = Ask("count", snapshot.id) /\ snapshot.status = "complete"
        BY <2>1, <2>8, <3>5 DEF CountCalls
      <4>2. ASSUME d \in Superseded({"count"}, calls \ {c})
            PROVE  CallSound(d)' /\ CallWanted(d)' /\ ~LiveRun(d)
        <5>1. calls \ {c} \in SUBSET CallType
          BY <1>0
        <5> QED BY <4>2, <5>1, <3>1, <3>2, Cleanup
      <4> QED BY <4>1, <4>2, <3>3
    <3> QED BY <3>4, <3>5
  <2>9. CallsInv'
    BY <2>8 DEF CallsInv
  <2>10. PageInv'
    BY <1>0, <1>1, <2>2 DEF PageInv
  <2>11. PollInv'
    BY <1>1, <2>5, <2>6, <2>7, <2>8 DEF PollInv, LiveRun
  <2>12. SpaTypeOK'
    BY <1>0, <1>1, <2>7, <2>9 DEF SpaTypeOK, CallsInv, CallSound
  <2> QED BY <2>9, <2>10, <2>11, <2>12 DEF SpaInv
<1> QED BY <1>2, <1>3

(* The answer to a warm-up probe. *)
LEMMA ProbedInv ==
  ASSUME SpaInv, NEW c \in calls, Probed(c)
  PROVE  SpaInv'
<1>0. /\ SpaTypeOK /\ CallsInv /\ PageInv /\ PollInv /\ CallSound(c) /\ CallWanted(c)
      /\ view \in ViewType /\ calls \in SUBSET CallType
      /\ session \in BOOLEAN
      /\ status \in [Runs -> AnalysisRunStatus \cup {"absent"}]
      /\ c.call = "health"
  BY DEF SpaInv, CallsInv, SpaTypeOK, Probed
<1>1. UNCHANGED <<session, status, auth, page>> /\ calls' = calls \ {c}
  BY DEF Probed, Take, PageUnchanged
<1>2. CASE ~c.live \/ c.answer = "ok"
  <2>1. /\ view' \in ViewType /\ view'.timer = view.timer /\ view'.run = view.run
        /\ view'.cv = view.cv
    BY <1>0, <1>2 DEF Probed, Take, ViewType
  <2> QED BY <1>0, <1>1, <2>1, QuietInv DEF LiveRun
<1>3. CASE c.live /\ c.answer # "ok"
  <2>1. /\ view' \in ViewType /\ view'.timer /\ view'.run = view.run
        /\ view'.cv = view.cv
    BY <1>0, <1>3 DEF Probed, Take, ViewType
  <2>2. auth = "authenticated" /\ page.name = "dashboard"
    BY <1>0, <1>3 DEF CallWanted, EffectCalls
  <2>3. CallsInv'
    BY <1>0, <1>1, <2>1 DEF CallsInv, CallSound, CallWanted
  <2>4. PageInv'
    BY <1>0, <1>1, <2>2 DEF PageInv
  <2>5. PollInv'
    BY <1>0, <1>1, <2>2 DEF PollInv, LiveRun
  <2>6. SpaTypeOK'
    BY <1>0, <1>1, <2>1 DEF SpaTypeOK
  <2> QED BY <2>3, <2>4, <2>5, <2>6 DEF SpaInv
<1> QED BY <1>2, <1>3

(* In the wizard the fetches for an earlier CV are given up, and no poll   *)
(* is under way.                                                           *)
LEMMA WizardInv ==
  ASSUME SpaInv, auth = "authenticated", page.name = "wizard",
         UNCHANGED <<session, status, auth, page>>,
         view' \in ViewType, view'.timer = view.timer,
         \A c \in calls' :
           \/ c \in calls /\ (view'.cv = view.cv \/ c.call # "titles")
           \/ /\ ~c.live /\ c \in CallType
              /\ \E d \in calls : /\ c.call = d.call /\ c.of = d.of
                                  /\ c.answer = d.answer /\ d.call = "titles"
           \/ c = Ask("titles", view'.cv) /\ view'.cv \in Cvs
  PROVE  SpaInv'
<1>0. SpaTypeOK /\ CallsInv /\ PageInv /\ PollInv
  BY DEF SpaInv
<1>1. ASSUME NEW c \in calls' PROVE CallSound(c)' /\ CallWanted(c)'
  <2>1. CASE c \in calls /\ (view'.cv = view.cv \/ c.call # "titles")
    BY <1>0, <2>1 DEF CallsInv, CallSound, CallWanted
  <2>2. CASE /\ ~c.live /\ c \in CallType
             /\ \E d \in calls : /\ c.call = d.call /\ c.of = d.of
                                 /\ c.answer = d.answer /\ d.call = "titles"
    BY <1>0, <2>2 DEF CallsInv, CallSound, CallWanted
  <2>3. CASE c = Ask("titles", view'.cv) /\ view'.cv \in Cvs
    <3>1. c \in CallType /\ c.call = "titles" /\ c.of = view'.cv /\ c.answer = "none"
      BY <2>3 DEF Ask, CallType, EffectCalls
    <3> QED
      BY <2>3, <3>1 DEF CallSound, CallWanted
  <2> QED BY <1>1, <2>1, <2>2, <2>3
<1>2. CallsInv'
  BY <1>1 DEF CallsInv
<1>3. PageInv'
  BY <1>0 DEF PageInv
<1>4. PollInv'
  BY <1>2 DEF PollInv, CallsInv, CallWanted, LiveRun, Page
<1>5. SpaTypeOK'
  BY <1>0, <1>2 DEF SpaTypeOK, CallsInv, CallSound
<1> QED BY <1>2, <1>3, <1>4, <1>5 DEF SpaInv

(* Choosing a CV, by hand or by a late upload. *)
LEMMA ToTitlesInv ==
  ASSUME SpaInv, auth = "authenticated", page.name = "wizard", NEW c \in Cvs,
         NEW cs \in SUBSET calls, ToTitles(c, cs), UNCHANGED <<session, status, auth, page>>
  PROVE  SpaInv'
<1>0. view \in ViewType /\ calls \in SUBSET CallType /\ cs \in SUBSET CallType
  BY DEF SpaInv, SpaTypeOK
<1>1. /\ view' \in ViewType /\ view'.timer = view.timer /\ view'.cv = c
  BY <1>0 DEF ToTitles, ViewType
<1>2. ASSUME NEW d \in calls'
      PROVE  \/ d \in calls /\ (view'.cv = view.cv \/ d.call # "titles")
             \/ /\ ~d.live /\ d \in CallType
                /\ \E e \in calls : /\ d.call = e.call /\ d.of = e.of
                                    /\ d.answer = e.answer /\ e.call = "titles"
             \/ d = Ask("titles", view'.cv) /\ view'.cv \in Cvs
  <2>1. CASE view.step = "titles" /\ view.cv = c
    BY <1>1, <1>2, <2>1 DEF ToTitles
  <2>2. CASE ~(view.step = "titles" /\ view.cv = c)
    <3>1. d \in Superseded({"titles"}, cs) \/ d = Ask("titles", c)
      BY <1>2, <2>2 DEF ToTitles
    <3> QED BY <1>0, <1>1, <3>1, Cleanup
  <2> QED BY <2>1, <2>2
<1> QED BY <1>1, <1>2, WizardInv

(* Choosing a role. *)
LEMMA UseTitleInv ==
  ASSUME SpaInv, UseTitle
  PROVE  SpaInv'
<1>0. view \in ViewType /\ calls \in SUBSET CallType
  BY DEF SpaInv, SpaTypeOK
<1>1. /\ view' \in ViewType /\ view'.timer = view.timer /\ view'.cv = view.cv
      /\ calls' = Superseded({"titles"}, calls)
      /\ UNCHANGED <<session, status, auth, page>>
      /\ auth = "authenticated" /\ page.name = "wizard"
  BY <1>0 DEF UseTitle, AtStep, PageUnchanged, ViewType
<1>2. ASSUME NEW d \in calls'
      PROVE  \/ d \in calls /\ (view'.cv = view.cv \/ d.call # "titles")
             \/ /\ ~d.live /\ d \in CallType
                /\ \E e \in calls : /\ d.call = e.call /\ d.of = e.of
                                    /\ d.answer = e.answer /\ e.call = "titles"
  BY <1>0, <1>1, <1>2, Cleanup
<1> QED BY <1>1, <1>2, WizardInv

(* A document just loaded knows nothing and asks who is signed in. *)
LEMMA LoadInv ==
  ASSUME SpaInv, NEW p \in AppPages, NEW signedIn \in BOOLEAN, Load(p, signedIn)
  PROVE  SpaInv'
<1>1. /\ auth' = "loading" /\ page' = p /\ view' = FreshView
      /\ calls' = {Ask("me", None)} /\ session' \in BOOLEAN /\ status' = status
  BY DEF Load, SpaInv, SpaTypeOK
<1>2. FreshView \in ViewType /\ ~FreshView.timer
  BY SpaAssumption DEF FreshView, ViewType, NoSnapshot
<1>3. /\ Ask("me", None) \in CallType
      /\ Ask("me", None).call = "me" /\ Ask("me", None).answer = "none"
  BY DEF Ask, CallType, EffectCalls
<1>4. \A c \in calls' : c \in CallType /\ c.call = "me" /\ c.answer = "none"
  BY <1>1, <1>3
<1>5. CallsInv'
  BY <1>1, <1>4 DEF CallsInv, CallSound, CallWanted, EffectCalls
<1>6. PageInv'
  BY <1>1, <1>2, Pages DEF PageInv
<1>7. PollInv'
  BY <1>1, <1>2, <1>4 DEF PollInv, LiveRun
<1>8. SpaTypeOK'
  BY <1>1, <1>2, <1>4 DEF SpaInv, SpaTypeOK
<1> QED BY <1>5, <1>6, <1>7, <1>8 DEF SpaInv

(* The probe decides between the page and the sign-in page. *)
LEMMA ApplySessionInv ==
  ASSUME SpaInv, NEW c \in calls, ApplySession(c)
  PROVE  SpaInv'
<1>0. /\ SpaTypeOK /\ CallsInv /\ PageInv /\ c.call = "me" /\ auth = "loading"
      /\ page \in AppPages /\ page # LoginPage
      /\ \A d \in calls : d.call = "me" /\ d.answer \in {"none", "ok", "error"} /\ d \in CallType
      /\ view' = FreshView /\ UNCHANGED <<session, status>>
  BY Pages DEF SpaInv, CallsInv, CallSound, PageInv, SpaTypeOK, ApplySession, ServerUnchanged
<1>1. FreshView \in ViewType /\ ~FreshView.timer
  BY SpaAssumption DEF FreshView, ViewType, NoSnapshot
<1>2. CASE c.answer = "ok"
  <2>1. /\ auth' = "authenticated" /\ page' = page
        /\ calls' = (calls \ {c}) \cup MountCalls(page)
    BY <1>2 DEF ApplySession
  <2>2. calls = {c}
    BY <1>0 DEF PageInv
  <2>3. calls' = MountCalls(page)
    BY <2>1, <2>2
  <2>4. CallsInv'
    BY <1>0, <2>1, <2>3, Pages DEF CallsInv, CallSound, CallWanted, EffectCalls
  <2>5. PageInv'
    BY <1>0, <1>1, <2>1 DEF PageInv
  <2>6. PollInv'
    <3>1. CASE page.name = "detail"
      <4>1. MountCalls(page) = {Ask("run", page.id)} /\ LiveRun(Ask("run", page.id))
        BY <1>0, <3>1, Pages DEF LiveRun, Ask
      <4> QED
        BY <1>0, <1>1, <2>1, <2>3, <4>1 DEF PollInv, LiveRun
    <3>2. CASE page.name # "detail"
      <4>1. \A d \in MountCalls(page) : ~LiveRun(d)
        BY <1>0, <3>2, Pages DEF LiveRun
      <4> QED
        BY <1>0, <1>1, <2>1, <2>3, <3>2, <4>1 DEF PollInv, LiveRun
    <3> QED BY <3>1, <3>2
  <2>7. SpaTypeOK'
    BY <1>0, <1>1, <2>1, <2>4 DEF SpaTypeOK, CallsInv, CallSound
  <2> QED BY <2>4, <2>5, <2>6, <2>7 DEF SpaInv
<1>3. CASE c.answer # "ok"
  <2>1. auth' = "anonymous" /\ page' = LoginPage /\ calls' = calls \ {c}
    BY <1>3 DEF ApplySession
  <2>2. calls' = {}
    BY <1>0, <2>1 DEF PageInv
  <2>3. CallsInv' /\ PollInv'
    BY <2>1, <2>2 DEF CallsInv, PollInv
  <2>4. PageInv'
    BY <1>0, <1>1, <2>1 DEF PageInv
  <2>5. SpaTypeOK'
    BY <1>0, <1>1, <2>1, <2>2 DEF SpaTypeOK
  <2> QED BY <2>3, <2>4, <2>5 DEF SpaInv
<1> QED BY <1>2, <1>3

(* Every callback keeps the invariant. *)
LEMMA ContinueInv ==
  ASSUME SpaInv, NEW c \in calls, Continue(c)
  PROVE  SpaInv'
<1>0. /\ SpaTypeOK /\ CallsInv /\ PageInv /\ CallSound(c) /\ CallWanted(c)
      /\ view \in ViewType
      /\ session \in BOOLEAN
      /\ status \in [Runs -> AnalysisRunStatus \cup {"absent"}]
  BY DEF SpaInv, CallsInv, SpaTypeOK
<1>1. ASSUME calls' = calls \ {c}, ~LiveRun(c), UNCHANGED <<session, status, auth, page>>,
             view' \in ViewType, view'.timer = view.timer, view'.run = view.run,
             view'.cv = view.cv
      PROVE  SpaInv'
  BY <1>0, <1>1, QuietInv
<1>2. CASE ApplySession(c)
  BY <1>2, ApplySessionInv
<1>3. CASE SignedOut(c)
  <2>1. auth \in {"authenticated", "anonymous"} /\ ~LiveRun(c)
    BY <1>0, <1>3 DEF SignedOut, CallSound, SpaTypeOK, LiveRun
  <2>2. CASE c.answer = "ok" /\ auth = "authenticated"
    BY <1>3, <2>2, ShowLoginInv DEF SignedOut, ServerUnchanged
  <2>3. CASE c.answer = "ok" /\ auth = "anonymous"
    <3>1. page = LoginPage
      BY <1>0, <2>3 DEF PageInv
    <3> QED
      BY <1>0, <1>1, <1>3, <2>1, <2>3, <3>1 DEF SignedOut, Show, ServerUnchanged
  <2>4. CASE c.answer # "ok"
    BY <1>0, <1>1, <1>3, <2>1, <2>4 DEF SignedOut, ServerUnchanged
  <2> QED BY <2>1, <2>2, <2>3, <2>4
<1>4. CASE Polled(c)
  BY <1>4, PolledInv
<1>5. CASE Counted(c)
  <2>1. c.of \in Runs /\ ~LiveRun(c)
    BY <1>0, <1>5 DEF Counted, CallSound, LiveRun
  <2> QED
    BY <1>0, <1>1, <1>5, <2>1 DEF Counted, Take, PageUnchanged, ViewType
<1>6. CASE ResultsLoaded(c)
  <2>1. c.of \in Runs /\ ~LiveRun(c)
    BY <1>0, <1>6 DEF ResultsLoaded, CallSound, LiveRun
  <2> QED
    BY <1>0, <1>1, <1>6, <2>1 DEF ResultsLoaded, Take, PageUnchanged, ViewType
<1>7. CASE Probed(c)
  BY <1>7, ProbedInv
<1>8. CASE Uploaded(c)
  <2>1. CASE c.live /\ c.answer = "ok"
    <3>1. c.of \in Cvs /\ auth = "authenticated" /\ page.name = "wizard"
      BY <1>0, <1>8, <2>1 DEF Uploaded, CallSound, CallWanted, EffectCalls
    <3> QED
      BY <1>8, <2>1, <3>1, ToTitlesInv DEF Uploaded, PageUnchanged
  <2>2. CASE ~(c.live /\ c.answer = "ok")
    BY <1>0, <1>1, <1>8, <2>2 DEF Uploaded, PageUnchanged, LiveRun
  <2> QED BY <2>1, <2>2
<1>9. CASE TitlesSuggested(c)
  <2>1. c.of \in Cvs /\ ~LiveRun(c)
    BY <1>0, <1>9 DEF TitlesSuggested, CallSound, LiveRun
  <2> QED
    BY <1>0, <1>1, <1>9, <2>1 DEF TitlesSuggested, Take, PageUnchanged, ViewType
<1>10. CASE Started(c)
  <2>1. CASE c.answer = "ok" /\ auth = "authenticated"
    <3>1. Page("detail", c.of) \in AppPages
      BY <1>0, <1>10, <2>1 DEF Started, CallSound, AppPages, Page
    <3>2. /\ Show(Page("detail", c.of), calls \ {c})
          /\ UNCHANGED <<session, status, auth>> /\ c.call = "create"
      BY <1>10, <2>1 DEF Started, ServerUnchanged
    <3> QED
      BY <2>1, <3>1, <3>2, ShowInv DEF EffectCalls
  <2>2. CASE ~(c.answer = "ok" /\ auth = "authenticated")
    BY <1>0, <1>1, <1>10, <2>2 DEF Started, ServerUnchanged, LiveRun
  <2> QED BY <2>1, <2>2
<1> QED
  BY <1>2, <1>3, <1>4, <1>5, <1>6, <1>7, <1>8, <1>9, <1>10 DEF Continue

(* Every step keeps the invariant. *)
LEMMA NextSpaInv == SpaInv /\ [Next]_vars => SpaInv'
<1> SUFFICES ASSUME SpaInv, [Next]_vars PROVE SpaInv'
  OBVIOUS
<1>0. /\ SpaTypeOK /\ PageInv /\ view \in ViewType /\ page \in AppPages \cup {LoginPage}
      /\ session \in BOOLEAN
      /\ status \in [Runs -> AnalysisRunStatus \cup {"absent"}]
  BY DEF SpaInv, SpaTypeOK
<1>1. ASSUME NEW r \in Runs, Advance(r) PROVE SpaInv'
  <2>1. status' \in [Runs -> AnalysisRunStatus \cup {"absent"}] /\ session' = session
    BY <1>0, <1>1 DEF Advance
  <2>2. UNCHANGED <<auth, page, view, calls>>
    BY <1>1 DEF Advance, ClientUnchanged
  <2> QED BY <1>0, <2>1, <2>2, QuietInv
<1>2. CASE SessionEnds
  <2>1. session' \in BOOLEAN /\ UNCHANGED <<status, auth, page, view, calls>>
    BY <1>2 DEF SessionEnds, ClientUnchanged
  <2> QED BY <1>0, <2>1, QuietInv
<1>3. ASSUME NEW c \in calls, Answer(c) PROVE SpaInv'
  BY <1>3, AnswerInv
<1>4. ASSUME NEW c \in calls, Continue(c) PROVE SpaInv'
  BY <1>4, ContinueInv
<1>5. ASSUME NEW p \in AppPages, Navigate(p) PROVE SpaInv'
  <2>1. /\ auth = "authenticated" /\ Show(p, calls) /\ UNCHANGED <<session, status, auth>>
        /\ calls \in SUBSET calls /\ calls \ calls = {}
    BY <1>5 DEF Navigate, ServerUnchanged
  <2> QED BY <2>1, ShowInv
<1>6. ASSUME NEW p \in AppPages, NEW signedIn \in BOOLEAN, Load(p, signedIn) PROVE SpaInv'
  BY <1>6, LoadInv
<1>7. CASE SignOut
  <2>1. /\ Ask("logout", None) \in CallType /\ Ask("logout", None).call = "logout"
        /\ Ask("logout", None).answer = "none"
    BY DEF Ask, CallType, EffectCalls
  <2>2. /\ auth = "authenticated" /\ calls' = calls \cup {Ask("logout", None)}
        /\ UNCHANGED <<session, status, auth, page, view>>
    BY <1>7 DEF SignOut, ServerUnchanged
  <2>3. /\ CallSound(Ask("logout", None)) /\ CallWanted(Ask("logout", None))
        /\ ~LiveRun(Ask("logout", None))
    BY <2>1, <2>2 DEF CallSound, CallWanted, LiveRun, EffectCalls
  <2> QED BY <2>2, <2>3, AskInv
<1>8. CASE TimerFires
  BY <1>8, TimerInv
<1>9. CASE ThresholdPasses
  <2>1. /\ view' \in ViewType /\ view'.timer = view.timer /\ view'.run = view.run
        /\ view'.cv = view.cv
    BY <1>0, <1>9 DEF ThresholdPasses, ViewType
  <2>2. UNCHANGED <<session, status, auth, page, calls>>
    BY <1>9 DEF ThresholdPasses, PageUnchanged
  <2> QED BY <1>0, <2>1, <2>2, QuietInv
<1>10. ASSUME NEW c \in Cvs, UseCv(c) PROVE SpaInv'
  <2>1. /\ auth = "authenticated" /\ page.name = "wizard" /\ ToTitles(c, calls)
        /\ UNCHANGED <<session, status, auth, page>> /\ calls \in SUBSET calls
    BY <1>10 DEF UseCv, AtStep, PageUnchanged
  <2> QED BY <2>1, ToTitlesInv
<1>11. ASSUME NEW c \in Cvs, Upload(c) PROVE SpaInv'
  <2>1. /\ Ask("upload", c) \in CallType /\ Ask("upload", c).call = "upload"
        /\ Ask("upload", c).of = c /\ Ask("upload", c).answer = "none"
    BY DEF Ask, CallType, EffectCalls
  <2>2. /\ auth = "authenticated" /\ page.name = "wizard"
        /\ calls' = calls \cup {Ask("upload", c)}
        /\ UNCHANGED <<session, status, auth, page, view>>
    BY <1>11 DEF Upload, AtStep, PageUnchanged
  <2>3. CallSound(Ask("upload", c)) /\ CallWanted(Ask("upload", c)) /\ ~LiveRun(Ask("upload", c))
    BY <2>1, <2>2 DEF CallSound, CallWanted, LiveRun, EffectCalls
  <2> QED BY <2>2, <2>3, AskInv
<1>12. CASE UseTitle
  BY <1>12, UseTitleInv
<1>13. CASE Start
  <2>1. /\ Ask("create", None) \in CallType /\ Ask("create", None).call = "create"
        /\ Ask("create", None).answer = "none"
    BY DEF Ask, CallType, EffectCalls
  <2>2. /\ auth = "authenticated" /\ calls' = calls \cup {Ask("create", None)}
        /\ UNCHANGED <<session, status, auth, page, view>>
    BY <1>13 DEF Start, AtStep, PageUnchanged
  <2>3. /\ CallSound(Ask("create", None)) /\ CallWanted(Ask("create", None))
        /\ ~LiveRun(Ask("create", None))
    BY <2>1, <2>2 DEF CallSound, CallWanted, LiveRun, EffectCalls
  <2> QED BY <2>2, <2>3, AskInv
<1>14. CASE UNCHANGED vars
  <2>1. UNCHANGED <<session, status, auth, page, view, calls>>
    BY <1>14 DEF vars
  <2> QED BY <1>0, <2>1, QuietInv
<1>15. Page("dashboard", None) \in AppPages
  BY DEF AppPages
<1> QED
  BY <1>1, <1>2, <1>3, <1>4, <1>5, <1>6, <1>7, <1>8, <1>9, <1>10, <1>11, <1>12, <1>13,
     <1>14, <1>15, SpaAssumption DEF Next

(* The inductive invariant of the tab. *)
LEMMA SpaInvariant == Spec => []SpaInv
<1> QED
  BY InitSpaInv, NextSpaInv, PTL DEF Spec

(* Every reachable state of the tab is well typed. *)
THEOREM SpaTypeCorrect == Spec => []SpaTypeOK
<1>1. SpaInv => SpaTypeOK
  BY DEF SpaInv
<1> QED BY <1>1, SpaInvariant, PTL

(* On a run's page one poll is under way or scheduled, never two, until    *)
(* the run's outcome is on screen, whatever came before.                   *)
THEOREM OnePoll == Spec => []OnePollWhileRunning
<1>1. SpaInv => OnePollWhileRunning
  <2> SUFFICES ASSUME SpaInv, NEW r \in Runs, On(Page("detail", r))
               PROVE  /\ Polls <= 1
                      /\ Polls = 0 => view.run.id = r /\ IsTerminal(view.run.status)
    BY DEF OnePollWhileRunning
  <2>1. auth = "authenticated" /\ page.name = "detail" /\ page.id = r /\ PollInv
    BY DEF On, Page, SpaInv
  <2>2. LiveCalls("run") = {c \in calls : LiveRun(c)}
    BY DEF LiveCalls, LiveRun
  <2>3. CASE LiveCalls("run") = {}
    <3>1. Cardinality(LiveCalls("run")) = 0
      BY <2>3, FS_EmptySet
    <3>2. Polls = 0 => ~view.timer
      BY <3>1 DEF Polls
    <3>3. ~view.timer => view.run.id = page.id /\ IsTerminal(view.run.status)
      BY <2>1, <2>2, <2>3 DEF PollInv
    <3> QED
      BY <2>1, <3>1, <3>2, <3>3 DEF Polls
  <2>4. ASSUME NEW c \in LiveCalls("run")
        PROVE  Polls = 1
    <3>1. LiveCalls("run") = {c}
      BY <2>1, <2>2, <2>4 DEF PollInv
    <3>2. Cardinality(LiveCalls("run")) = 1
      BY <3>1, FS_Singleton
    <3>3. ~view.timer
      BY <2>1, <2>2, <2>4 DEF PollInv
    <3> QED
      BY <3>2, <3>3 DEF Polls
  <2> QED BY <2>3, <2>4
<1> QED BY <1>1, SpaInvariant, PTL

-----------------------------------------------------------------------------
(* What may appear on screen in a step. *)
CurrentAnswers ==
  /\ view'.run # view.run => view'.run.id \in {None, page'.id}
  /\ view'.count # view.count => view'.count \in {None, view'.run.id}
  /\ view'.results # view.results => view'.results \in {None, page'.id}
  /\ view'.titles # view.titles => view'.titles \in {None, view'.cv}

(* A page that mounts or stays shows nothing of its own accord. *)
LEMMA ShowCurrent ==
  ASSUME view \in ViewType, NEW p, NEW cs, Show(p, cs)
  PROVE  CurrentAnswers
<1>1. \/ view' = view
      \/ view' = TimerCleared(view)
      \/ view' = FreshView
  BY DEF Show
<1> QED
  BY <1>1 DEF CurrentAnswers, TimerCleared, ViewType, FreshView, NoSnapshot

(* An answer that is still wanted is about what is on screen. *)
LEMMA ContinueCurrent ==
  ASSUME SpaInv, NEW c \in calls, Continue(c)
  PROVE  CurrentAnswers
<1>0. /\ view \in ViewType /\ CallSound(c) /\ CallWanted(c)
  BY DEF SpaInv, CallsInv, SpaTypeOK
<1>1. view' = view => CurrentAnswers
  BY DEF CurrentAnswers
<1>2. CASE ApplySession(c)
  BY <1>2 DEF ApplySession, CurrentAnswers, FreshView, NoSnapshot
<1>3. CASE SignedOut(c)
  BY <1>0, <1>1, <1>3, ShowCurrent DEF SignedOut
<1>4. CASE Polled(c)
  <2>1. CASE c.live
    <3>1. page = Page("detail", c.of) /\ page' = page
      BY <1>0, <1>4, <2>1 DEF Polled, PageUnchanged, CallWanted
    <3> DEFINE snapshot == IF c.answer = "error" THEN view.run ELSE Snapshot(c.of, c.answer)
    <3>2. view' = [view EXCEPT !.run = snapshot, !.timer = PollAgain(c)]
      BY <1>4, <2>1 DEF Polled
    <3>3. /\ view'.run = snapshot
          /\ view'.count = view.count
          /\ view'.results = view.results
          /\ view'.titles = view.titles
      BY <1>0, <3>2 DEF ViewType
    <3>4. snapshot = view.run \/ snapshot.id = c.of
      BY DEF Snapshot
    <3>5. page'.id = c.of
      BY <3>1 DEF Page
    <3> HIDE DEF snapshot
    <3> QED
      BY <3>3, <3>4, <3>5 DEF CurrentAnswers
  <2>2. CASE ~c.live
    BY <1>1, <1>4, <2>2 DEF Polled
  <2> QED BY <2>1, <2>2
<1>5. CASE Counted(c)
  BY <1>0, <1>5 DEF Counted, Take, CurrentAnswers, CallWanted, ViewType
<1>6. CASE ResultsLoaded(c)
  <2>1. c.live => page' = Page("results", c.of)
    BY <1>0, <1>6 DEF ResultsLoaded, Take, PageUnchanged, CallWanted
  <2> QED
    BY <1>0, <1>6, <2>1 DEF ResultsLoaded, Take, CurrentAnswers, ViewType, Page
<1>7. CASE Probed(c)
  BY <1>0, <1>7 DEF Probed, Take, CurrentAnswers, ViewType
<1>8. CASE Uploaded(c)
  BY <1>0, <1>1, <1>8 DEF Uploaded, ToTitles, CurrentAnswers, ViewType
<1>9. CASE TitlesSuggested(c)
  BY <1>0, <1>9 DEF TitlesSuggested, Take, CurrentAnswers, CallWanted, ViewType
<1>10. CASE Started(c)
  BY <1>0, <1>1, <1>10, ShowCurrent DEF Started
<1> QED
  BY <1>2, <1>3, <1>4, <1>5, <1>6, <1>7, <1>8, <1>9, <1>10 DEF Continue

(* No step puts a superseded answer on screen. *)
LEMMA NextCurrent == SpaInv /\ [Next]_vars => [CurrentAnswers]_vars
<1> SUFFICES ASSUME SpaInv, Next PROVE CurrentAnswers
  OBVIOUS
<1>0. view \in ViewType
  BY DEF SpaInv, SpaTypeOK
<1>1. view' = view => CurrentAnswers
  BY DEF CurrentAnswers
<1>2. ASSUME NEW r \in Runs, Advance(r) PROVE CurrentAnswers
  BY <1>1, <1>2 DEF Advance, ClientUnchanged
<1>3. CASE SessionEnds
  BY <1>1, <1>3 DEF SessionEnds, ClientUnchanged
<1>4. ASSUME NEW c \in calls, Answer(c) PROVE CurrentAnswers
  BY <1>1, <1>4 DEF Answer, Refuse, AnswerRun, AnswerResults, AnswerOther, AnswerCreate,
     AnswerLogout, Answered
<1>5. ASSUME NEW c \in calls, Continue(c) PROVE CurrentAnswers
  BY <1>5, ContinueCurrent
<1>6. ASSUME NEW p \in AppPages, Navigate(p) PROVE CurrentAnswers
  BY <1>0, <1>6, ShowCurrent DEF Navigate
<1>7. ASSUME NEW p \in AppPages, NEW signedIn \in BOOLEAN, Load(p, signedIn)
      PROVE CurrentAnswers
  BY <1>7 DEF Load, CurrentAnswers, FreshView, NoSnapshot
<1>8. CASE SignOut \/ Start \/ \E c \in Cvs : Upload(c)
  BY <1>1, <1>8 DEF SignOut, Start, Upload
<1>9. CASE TimerFires \/ ThresholdPasses \/ UseTitle \/ \E c \in Cvs : UseCv(c)
  BY SMTT(15), ZenonT(30), <1>0, <1>9
  DEF TimerFires, ThresholdPasses, UseTitle, UseCv, ToTitles, CurrentAnswers, ViewType
<1>10. Page("dashboard", None) \in AppPages
  BY DEF AppPages
<1> QED
  BY <1>2, <1>3, <1>4, <1>5, <1>6, <1>7, <1>8, <1>9, <1>10, SpaAssumption DEF Next

(* Whatever appears on screen was fetched for what the screen is about: a  *)
(* late answer to an earlier page, run or CV never does.                   *)
THEOREM OnlyCurrentAnswers == Spec => OnlyCurrentAnswersShown
<1>1. SpaInv /\ [Next]_vars => [CurrentAnswers]_vars
  BY NextCurrent
<1>2. OnlyCurrentAnswersShown <=> [][CurrentAnswers]_vars
  BY DEF OnlyCurrentAnswersShown, CurrentAnswers
<1> QED BY <1>1, <1>2, SpaInvariant, PTL DEF Spec
=============================================================================
