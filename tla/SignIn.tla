------------------------------- MODULE SignIn -------------------------------
(***************************************************************************)
(* Signing in, being signed in and signing out: the routes of              *)
(* app/api/routes/auth.py, the session dependency of app/api/deps.py, the  *)
(* admin toggle of app/api/routes/admin.py and scripts/seed_admin.py, over *)
(* the tables of Accounts, Sessions and RateLimit.                         *)
(*                                                                         *)
(* One action stands for the code between two points at which another      *)
(* request can see or change a table: a read that is used later, a commit. *)
(* Who interleaves with whom is decided by the event loop.  The route      *)
(* handlers are async functions with synchronous database calls, so those  *)
(* of one replica run one after the other, except across the await of the  *)
(* Google exchange; get_current_user is a plain function, which FastAPI    *)
(* runs in a thread pool next to everything else; replicas share nothing   *)
(* but the database.  Entries of audit_log that no property relates to     *)
(* another table (failures, link requests, sign-outs) are left out, as are *)
(* answers that change nothing and are not waited for (400, 401, 404).     *)
(***************************************************************************)
EXTENDS Accounts, Sessions, RateLimit, FiniteSets

CONSTANTS
  Slots,               \* requests in progress at a time
  Browsers, Links, Flows, Ips,
  Profiles,            \* verified profiles Google may answer: [sub, email]
  Scenarios,           \* what happens in a behaviour, see ScenarioType
  LinkLife,            \* MAGIC_LINK_EXPIRY, in ticks
  Operator,            \* address of the account seeded before the start
  NoAccount, NoLink, NoFlow, NoBrowser, NoProfile, NoFlag

Kinds == {"ask", "open", "google", "call", "admin", "logout", "seed"}

(* kinds: the requests made; oneReplica: whether one API container serves  *)
(* them all or each its own; aborts: whether requests may die half-way     *)
(* (failing statement or mail, lost connection, killed container, lost     *)
(* answer); signedIn: whether the operator has a session at the start;     *)
(* browsers, addresses: those in use; ticks: how far the clock goes.       *)
ScenarioType ==
  [kinds : SUBSET Kinds, oneReplica : BOOLEAN, aborts : BOOLEAN,
   signedIn : BOOLEAN, browsers : SUBSET Browsers,
   addresses : SUBSET Emails, ticks : 0..MaxClock]

ASSUME SignInAssumption ==
  /\ Scenarios \subseteq ScenarioType
  /\ Profiles \subseteq [sub : Subs, email : Emails]
  /\ Operator \in Emails
  /\ Browsers # {} /\ AccountIds # {} /\ SessionIds # {}
  /\ IsFiniteSet(Slots) /\ IsFiniteSet(Links) /\ IsFiniteSet(SessionIds)
  /\ Buckets = Emails \cup Ips
  /\ Emails \cap Ips = {} /\ NoEmail \notin Ips
  /\ LinkLife \in Nat
  /\ NoAccount \notin AccountIds /\ NoLink \notin Links
  /\ NoFlow \notin Flows /\ NoBrowser \notin Browsers
  /\ NoProfile \notin Profiles
  /\ NoFlag \notin BOOLEAN
  /\ Links \subseteq Nat /\ Flows \subseteq Nat

VARIABLES
  scenario, clock,
  linkEmail, linkExpires, linkUsed, mailed,   \* magic_link_token, inboxes
  askedIn,                                    \* window a link was counted in
  oauthState, begunBy,                        \* oauth_state cookies, nonces
  cookie,                                     \* session_id cookies
  byLink, byProfile,     \* history: what opened each session
  given,                 \* history: sessions whose cookie was delivered
  logins, toggled,       \* audit_log: successes per account, last toggle
  pc, loc                \* requests in progress

proofVars   == <<byLink, byProfile>>
linkVars    == <<linkEmail, linkExpires, linkUsed, mailed, askedIn>>
browserVars == <<oauthState, begunBy, cookie, given>>
auditVars   == <<logins, toggled>>
vars == <<scenario, clock, accountVars, sessionVars, requestCount, linkVars,
          browserVars, proofVars, auditVars, pc, loc>>

(* Steps of a handler that occupy the event loop of its replica.           *)
AskSteps    == {"countIp", "issue", "mail"}
OpenSteps   == {"findByLink", "burn"}
GoogleSteps == {"findByEmail", "linkSub", "insert"}
TailSteps   == {"rotate", "create", "auditLogin"}

(* Fault for the checks: the handlers await their database calls.          *)
BugLoopSteps == AskSteps \cup GoogleSteps \cup {"findByLink"}

LoopSteps ==
  AskSteps \cup OpenSteps \cup GoogleSteps \cup TailSteps
    \cup {"auditToggle"}

Steps == LoopSteps
  \cup {"idle", "exchange", "respond", "signedOut", "seed",
        "expire", "touch", "load", "handle"}

Local == [browser : Browsers \cup {NoBrowser}, address : Emails \cup {NoEmail},
          ip : Ips \cup {NoEmail}, link : Links \cup {NoLink},
          flow : Flows \cup {NoFlow}, profile : Profiles \cup {NoProfile},
          account : AccountIds \cup {NoAccount},
          presented : SessionIds \cup {NoSession},
          opened : SessionIds \cup {NoSession},
          now : Nat, flag : BOOLEAN]

NoLocal == [browser |-> NoBrowser, address |-> NoEmail, ip |-> NoEmail,
            link |-> NoLink, flow |-> NoFlow, profile |-> NoProfile,
            account |-> NoAccount, presented |-> NoSession,
            opened |-> NoSession, now |-> 0, flag |-> FALSE]

SignInTypeOK ==
  /\ scenario \in Scenarios
  /\ clock \in 0..MaxClock
  /\ AccountsTypeOK
  /\ SessionsTypeOK(AccountIds \cup {NoAccount})
  /\ RateLimitTypeOK
  /\ linkEmail \in [Links -> Emails \cup {NoEmail}]
  /\ linkExpires \in [Links -> Nat]
  /\ linkUsed \in [Links -> BOOLEAN]
  /\ mailed \in SUBSET Links
  /\ askedIn \in [Links -> Windows]
  /\ oauthState \in [Browsers -> Flows \cup {NoFlow}]
  /\ begunBy \in [Flows -> Browsers \cup {NoBrowser}]
  /\ cookie \in [Browsers -> SessionIds \cup {NoSession}]
  /\ given \in SUBSET SessionIds
  /\ byLink \in [SessionIds -> Links \cup {NoLink}]
  /\ byProfile \in [SessionIds -> Profiles \cup {NoProfile}]
  /\ logins \in [AccountIds -> Nat]
  /\ toggled \in [AccountIds -> BOOLEAN \cup {NoFlag}]
  /\ pc \in [Slots -> Steps]
  /\ loc \in [Slots -> Local]

(* A behaviour starts with empty tables, or with the operator's account    *)
(* seeded and signed in at one browser.                                    *)
FirstAccount == CHOOSE a \in AccountIds : \A b \in AccountIds : a <= b
FirstSession == CHOOSE s \in SessionIds : \A r \in SessionIds : s <= r
OperatorsBrowser == CHOOSE b \in scenario.browsers : TRUE

Seeded(a)   == scenario.signedIn /\ a = FirstAccount
SignedIn(s) == scenario.signedIn /\ s = FirstSession

Init ==
  /\ scenario \in Scenarios
  /\ clock = 0
  /\ email = [a \in AccountIds |-> IF Seeded(a) THEN Operator ELSE NoEmail]
  /\ googleSub = [a \in AccountIds |-> NoSub]
  /\ isAdmin = [a \in AccountIds |-> Seeded(a)]
  /\ isUnlimited = [a \in AccountIds |-> Seeded(a)]
  /\ phase = [s \in SessionIds |-> IF SignedIn(s) THEN "open" ELSE "unused"]
  /\ owner = [s \in SessionIds |-> IF SignedIn(s) THEN FirstAccount ELSE NoAccount]
  /\ lastSeen = [s \in SessionIds |-> 0]
  /\ idleExpires = [s \in SessionIds |-> IF SignedIn(s) THEN IdleTimeout ELSE 0]
  /\ absoluteExpires =
       [s \in SessionIds |-> IF SignedIn(s) THEN AbsoluteTimeout ELSE 0]
  /\ requestCount = [b \in Buckets |-> [w \in Windows |-> 0]]
  /\ linkEmail = [t \in Links |-> NoEmail]
  /\ linkExpires = [t \in Links |-> 0]
  /\ linkUsed = [t \in Links |-> FALSE]
  /\ mailed = {}
  /\ askedIn = [t \in Links |-> 0]
  /\ oauthState = [b \in Browsers |-> NoFlow]
  /\ begunBy = [f \in Flows |-> NoBrowser]
  /\ cookie = [b \in Browsers |->
                 IF scenario.signedIn /\ b = OperatorsBrowser
                 THEN FirstSession ELSE NoSession]
  /\ given = {s \in SessionIds : SignedIn(s)}
  /\ byLink = [s \in SessionIds |-> NoLink]
  /\ byProfile = [s \in SessionIds |-> NoProfile]
  /\ logins = [a \in AccountIds |-> IF Seeded(a) THEN 1 ELSE 0]
  /\ toggled = [a \in AccountIds |-> NoFlag]
  /\ pc = [q \in Slots |-> "idle"]
  /\ loc = [q \in Slots |-> NoLocal]

-----------------------------------------------------------------------------
(* Requests and the event loop.                                            *)

(* An async handler may run its first step, or go on after an await.       *)
LoopFree(q) ==
  scenario.oneReplica => \A p \in Slots \ {q} : pc[p] \notin LoopSteps

Arrive(q, kind) == kind \in scenario.kinds /\ pc[q] = "idle"

Goto(q, step) == pc' = [pc EXCEPT ![q] = step]

(* The request is over: answered, refused or dead.                         *)
Done(q) ==
  /\ pc' = [pc EXCEPT ![q] = "idle"]
  /\ loc' = [loc EXCEPT ![q] = NoLocal]

Abort(q) ==
  /\ scenario.aborts
  /\ pc[q] # "idle"
  /\ Done(q)
  /\ UNCHANGED <<scenario, clock, accountVars, sessionVars, requestCount,
                 linkVars, browserVars, proofVars, auditVars>>

Tick ==
  /\ clock < scenario.ticks
  /\ clock' = clock + 1
  /\ UNCHANGED <<scenario, accountVars, sessionVars, requestCount, linkVars,
                 browserVars, proofVars, auditVars, pc, loc>>

-----------------------------------------------------------------------------
(* POST /auth/magic-link: request_magic_link.                              *)

AskUnchanged == UNCHANGED <<scenario, clock, accountVars, sessionVars,
                            browserVars, proofVars, auditVars>>

(* The address' counter; beyond the limit the answer is 429.               *)
AskLink(q, e, ip) ==
  /\ Arrive(q, "ask") /\ LoopFree(q)
  /\ Increment(e, clock)
  /\ IF Allowed(e, EmailLimit, clock)
     THEN /\ Goto(q, "countIp")
          /\ loc' = [loc EXCEPT ![q] = [NoLocal EXCEPT !.address = e, !.ip = ip,
                                                       !.now = clock]]
     ELSE UNCHANGED <<pc, loc>>
  /\ UNCHANGED linkVars
  /\ AskUnchanged

(* The client IP's counter.  The address stays counted if this one refuses.*)
CountIp(q) ==
  /\ pc[q] = "countIp"
  /\ Increment(loc[q].ip, clock)
  /\ IF Allowed(loc[q].ip, IpLimit, clock)
     THEN Goto(q, "issue") /\ UNCHANGED loc
     ELSE Done(q)
  /\ UNCHANGED linkVars
  /\ AskUnchanged

NextLink(t) ==
  /\ t \in Links
  /\ linkEmail[t] = NoEmail
  /\ \A u \in Links : linkEmail[u] = NoEmail => t <= u

(* issue_magic_link_token.                                                 *)
IssueLink(q) ==
  /\ pc[q] = "issue"
  /\ \E t \in Links :
       /\ NextLink(t)
       /\ linkEmail' = [linkEmail EXCEPT ![t] = loc[q].address]
       /\ linkExpires' = [linkExpires EXCEPT ![t] = clock + LinkLife]
       /\ askedIn' = [askedIn EXCEPT ![t] = WindowStart(loc[q].now)]
       /\ loc' = [loc EXCEPT ![q].link = t]
  /\ Goto(q, "mail")
  /\ UNCHANGED <<linkUsed, mailed, requestCount>>
  /\ AskUnchanged

(* The plain token leaves in the mail; a mail that fails is an Abort.      *)
MailLink(q) ==
  /\ pc[q] = "mail"
  /\ mailed' = mailed \cup {loc[q].link}
  /\ Done(q)
  /\ UNCHANGED <<linkEmail, linkExpires, linkUsed, askedIn, requestCount>>
  /\ AskUnchanged

-----------------------------------------------------------------------------
(* GET /auth/magic-link/verify: verify_magic_link.                         *)

Usable(t) == ~linkUsed[t] /\ clock < linkExpires[t]

(* Read the token; a used or expired one is refused.                       *)
OpenLink(q, b, t) ==
  /\ Arrive(q, "open") /\ LoopFree(q)
  /\ t \in mailed
  /\ Usable(t)
  /\ Goto(q, "findByLink")
  /\ loc' = [loc EXCEPT ![q] = [NoLocal EXCEPT !.browser = b, !.link = t,
                                               !.presented = cookie[b]]]
  /\ UNCHANGED <<scenario, clock, accountVars, sessionVars, requestCount,
                 linkVars, browserVars, proofVars, auditVars>>

AccountOf(rows) == IF rows = {} THEN NoAccount ELSE CHOOSE a \in rows : TRUE

FindByLink(q) ==
  /\ pc[q] = "findByLink"
  /\ loc' = [loc EXCEPT ![q].account = AccountOf(ByEmail(linkEmail[loc[q].link]))]
  /\ Goto(q, "burn")
  /\ UNCHANGED <<scenario, clock, accountVars, sessionVars, requestCount,
                 linkVars, browserVars, proofVars, auditVars>>

(* One commit: used_at, and the account if none was found.                 *)
BurnLink(q) ==
  /\ pc[q] = "burn"
  /\ IF loc[q].account # NoAccount
     THEN UNCHANGED <<accountVars, loc>>
     ELSE \E a \in AccountIds :
            /\ InsertAccount(a, linkEmail[loc[q].link], NoSub, FALSE)
            /\ loc' = [loc EXCEPT ![q].account = a]
  /\ linkUsed' = [linkUsed EXCEPT ![loc[q].link] = TRUE]
  /\ Goto(q, "rotate")
  /\ UNCHANGED <<scenario, clock, sessionVars, requestCount, linkEmail,
                 linkExpires, mailed, askedIn, browserVars, proofVars, auditVars>>

(* The account was inserted meanwhile: IntegrityError, rollback, 500; the  *)
(* link stays unused.                                                      *)
BurnRefused(q) ==
  /\ pc[q] = "burn"
  /\ loc[q].account = NoAccount
  /\ ~UniqueOk(linkEmail[loc[q].link], NoSub)
  /\ Done(q)
  /\ UNCHANGED <<scenario, clock, accountVars, sessionVars, requestCount,
                 linkVars, browserVars, proofVars, auditVars>>

-----------------------------------------------------------------------------
(* GET /auth/google/login and /auth/google/callback.                       *)

GoogleUnchanged == UNCHANGED <<scenario, clock, sessionVars, requestCount,
                               linkVars, proofVars, auditVars, cookie, given, begunBy>>

(* A fresh state nonce, kept in the browser's oauth_state cookie.          *)
GoogleLogin(b, f) ==
  /\ "google" \in scenario.kinds
  /\ begunBy[f] = NoBrowser
  /\ \A g \in Flows : begunBy[g] = NoBrowser => f <= g
  /\ begunBy' = [begunBy EXCEPT ![f] = b]
  /\ oauthState' = [oauthState EXCEPT ![b] = f]
  /\ UNCHANGED <<scenario, clock, accountVars, sessionVars, requestCount,
                 linkVars, cookie, given, proofVars, auditVars, pc, loc>>

(* Fault for the checks: any state that was sent back will do.             *)
BugStatesMatch(expected, received) == received # NoFlow

(* oauth_states_match.                                                     *)
StatesMatch(expected, received) == expected # NoFlow /\ expected = received

(* The callback up to its await; the loop is free while Google answers.    *)
Callback(q, b, f) ==
  /\ Arrive(q, "google") /\ LoopFree(q)
  /\ begunBy[f] # NoBrowser
  /\ StatesMatch(oauthState[b], f)
  /\ Goto(q, "exchange")
  /\ loc' = [loc EXCEPT ![q] = [NoLocal EXCEPT !.browser = b, !.flow = f,
                                               !.presented = cookie[b]]]
  /\ oauthState' = oauthState
  /\ UNCHANGED accountVars
  /\ GoogleUnchanged

(* _oauth_failure_response: the answer clears the oauth_state cookie, the  *)
(* one of another tab's flow included.                                     *)
CallbackRefused(b, f) ==
  /\ "google" \in scenario.kinds
  /\ begunBy[f] # NoBrowser
  /\ ~StatesMatch(oauthState[b], f)
  /\ oauthState' = [oauthState EXCEPT ![b] = NoFlow]
  /\ UNCHANGED <<accountVars, pc, loc>>
  /\ GoogleUnchanged

Refuse(q) ==
  /\ Done(q)
  /\ oauthState' = [oauthState EXCEPT ![loc[q].browser] = NoFlow]
  /\ UNCHANGED accountVars
  /\ GoogleUnchanged

(* Google refuses the code, answers without the required fields, or with   *)
(* an unverified address.                                                  *)
ExchangeFails(q) ==
  /\ pc[q] = "exchange" /\ LoopFree(q)
  /\ Refuse(q)

(* upsert_user_from_google_profile, first read: by subject.                *)
FindBySub(q, p) ==
  /\ pc[q] = "exchange" /\ LoopFree(q)
  /\ loc' = [loc EXCEPT ![q].profile = p, ![q].account = AccountOf(BySub(p.sub))]
  /\ Goto(q, IF BySub(p.sub) # {} THEN "rotate" ELSE "findByEmail")
  /\ UNCHANGED <<accountVars, oauthState>>
  /\ GoogleUnchanged

(* Fault for the checks: the subject of the account found is not compared. *)
BugMismatch(a, s) == FALSE

Mismatch(a, s) == googleSub[a] # NoSub /\ googleSub[a] # s

(* Second read: by address.                                                *)
FindByEmail(q) ==
  /\ pc[q] = "findByEmail"
  /\ LET a == AccountOf(ByEmail(loc[q].profile.email))
         s == loc[q].profile.sub
     IN /\ a # NoAccount => ~Mismatch(a, s)
        /\ Goto(q, IF a = NoAccount THEN "insert"
                   ELSE IF googleSub[a] = s THEN "rotate" ELSE "linkSub")
        /\ loc' = [loc EXCEPT ![q].account = a]
  /\ UNCHANGED <<accountVars, oauthState>>
  /\ GoogleUnchanged

(* The account with the address belongs to another Google subject.         *)
EmailOfOtherSub(q) ==
  /\ pc[q] = "findByEmail"
  /\ \E a \in ByEmail(loc[q].profile.email) : Mismatch(a, loc[q].profile.sub)
  /\ Refuse(q)

LinkSub(q) ==
  /\ pc[q] = "linkSub"
  /\ SetGoogleSub(loc[q].account, loc[q].profile.sub)
  /\ Goto(q, "rotate")
  /\ UNCHANGED <<loc, oauthState>>
  /\ GoogleUnchanged

InsertGoogle(q) ==
  /\ pc[q] = "insert"
  /\ \E a \in AccountIds :
       /\ InsertAccount(a, loc[q].profile.email, loc[q].profile.sub, FALSE)
       /\ loc' = [loc EXCEPT ![q].account = a]
  /\ Goto(q, "rotate")
  /\ UNCHANGED oauthState
  /\ GoogleUnchanged

(* IntegrityError is none of the errors the callback handles: 500.         *)
UpsertRefused(q) ==
  /\ \/ pc[q] = "linkSub" /\ ~(BySub(loc[q].profile.sub) \subseteq {loc[q].account})
     \/ pc[q] = "insert" /\ ~UniqueOk(loc[q].profile.email, loc[q].profile.sub)
  /\ Done(q)
  /\ UNCHANGED <<accountVars, oauthState>>
  /\ GoogleUnchanged

-----------------------------------------------------------------------------
(* The tail both sign-ins share: rotate_session, audit, answer.            *)

TailUnchanged ==
  UNCHANGED <<scenario, clock, accountVars, requestCount, linkVars, begunBy>>

(* The session the browser presented is deleted in a commit of its own.    *)
DropPresented(q) ==
  /\ pc[q] = "rotate"
  /\ InvalidateSession(loc[q].presented)
  /\ Goto(q, "create")
  /\ UNCHANGED <<loc, oauthState, cookie, given, proofVars, auditVars>>
  /\ TailUnchanged

OpenSession(q) ==
  /\ pc[q] = "create"
  /\ \E s \in SessionIds :
       /\ CreateSession(s, loc[q].account, clock)
       /\ loc' = [loc EXCEPT ![q].opened = s]
       /\ byLink' = [byLink EXCEPT ![s] = loc[q].link]
       /\ byProfile' = [byProfile EXCEPT ![s] = loc[q].profile]
  /\ Goto(q, "auditLogin")
  /\ UNCHANGED <<oauthState, cookie, given, auditVars>>
  /\ TailUnchanged

(* Fault for the checks: the entry is written when the account is new only.*)
BugRecordLogin(a) ==
  logins' = [logins EXCEPT ![a] = IF @ = 0 THEN 1 ELSE @]

RecordLogin(a) == logins' = [logins EXCEPT ![a] = @ + 1]

AuditLogin(q) ==
  /\ pc[q] = "auditLogin"
  /\ RecordLogin(loc[q].account)
  /\ Goto(q, "respond")
  /\ UNCHANGED <<loc, sessionVars, oauthState, cookie, given, proofVars, toggled>>
  /\ TailUnchanged

(* The redirect arrives and sets the cookies; answers to one browser may   *)
(* overtake each other.                                                    *)
Respond(q) ==
  /\ pc[q] = "respond"
  /\ cookie' = [cookie EXCEPT ![loc[q].browser] = loc[q].opened]
  /\ given' = given \cup {loc[q].opened}
  /\ oauthState' = [oauthState EXCEPT ![loc[q].browser] =
                      IF loc[q].flow # NoFlow THEN NoFlow ELSE @]
  /\ Done(q)
  /\ UNCHANGED <<sessionVars, proofVars, auditVars>>
  /\ TailUnchanged

-----------------------------------------------------------------------------
(* Authenticated calls: get_current_user, resolve_session.                 *)

CallUnchanged == UNCHANGED <<scenario, clock, email, googleSub, isAdmin,
                             requestCount, linkVars, browserVars, proofVars, logins>>

(* The session is read; `now` was taken just before.                       *)
Call(q, b) ==
  /\ Arrive(q, "call")
  /\ cookie[b] # NoSession
  /\ phase[cookie[b]] = "open"
  /\ Goto(q, IF Expired(cookie[b], clock) THEN "expire" ELSE "touch")
  /\ loc' = [loc EXCEPT ![q] = [NoLocal EXCEPT !.browser = b, !.now = clock,
                                               !.presented = cookie[b]]]
  /\ UNCHANGED <<isUnlimited, sessionVars, toggled>>
  /\ CallUnchanged

ExpireSession(q) ==
  /\ pc[q] = "expire"
  /\ InvalidateSession(loc[q].presented)
  /\ Done(q)
  /\ UNCHANGED <<isUnlimited, toggled>>
  /\ CallUnchanged

Touch(q) ==
  /\ pc[q] = "touch"
  /\ RefreshSession(loc[q].presented, loc[q].now)
  /\ Goto(q, "load")
  /\ UNCHANGED <<loc, isUnlimited, toggled>>
  /\ CallUnchanged

(* The row is reloaded after the commit, for its user_id.                  *)
LoadUser(q) ==
  /\ pc[q] = "load"
  /\ phase[loc[q].presented] = "open"
  /\ loc' = [loc EXCEPT ![q].account = owner[loc[q].presented]]
  /\ Goto(q, "handle")
  /\ UNCHANGED <<isUnlimited, sessionVars, toggled>>
  /\ CallUnchanged

(* Deleted by another request: StaleDataError, ObjectDeletedError, 500.    *)
SessionGone(q) ==
  /\ pc[q] \in {"touch", "load"}
  /\ phase[loc[q].presented] # "open"
  /\ Done(q)
  /\ UNCHANGED <<isUnlimited, sessionVars, toggled>>
  /\ CallUnchanged

(* Any route but the admin's; what it does is modelled elsewhere.          *)
HandleCall(q) ==
  /\ pc[q] = "handle" /\ LoopFree(q)
  /\ Done(q)
  /\ UNCHANGED <<isUnlimited, sessionVars, toggled>>
  /\ CallUnchanged

(* PATCH /admin/users/{user_id}: require_admin, set_unlimited.             *)
ToggleUnlimited(q, a, f) ==
  /\ "admin" \in scenario.kinds
  /\ pc[q] = "handle" /\ LoopFree(q)
  /\ isAdmin[loc[q].account]
  /\ SetUnlimited(a, f)
  /\ loc' = [loc EXCEPT ![q].account = a, ![q].flag = f]
  /\ Goto(q, "auditToggle")
  /\ UNCHANGED <<sessionVars, toggled>>
  /\ CallUnchanged

AuditToggle(q) ==
  /\ pc[q] = "auditToggle"
  /\ toggled' = [toggled EXCEPT ![loc[q].account] = loc[q].flag]
  /\ Done(q)
  /\ UNCHANGED <<isUnlimited, sessionVars>>
  /\ CallUnchanged

(* POST /auth/logout; a session that is gone already is no error.          *)
Logout(q, b) ==
  /\ Arrive(q, "logout") /\ LoopFree(q)
  /\ cookie[b] # NoSession
  /\ InvalidateSession(cookie[b])
  /\ Goto(q, "signedOut")
  /\ loc' = [loc EXCEPT ![q] = [NoLocal EXCEPT !.browser = b,
                                               !.presented = cookie[b]]]
  /\ UNCHANGED <<isUnlimited, toggled>>
  /\ CallUnchanged

SignedOut(q) ==
  /\ pc[q] = "signedOut"
  /\ cookie' = [cookie EXCEPT ![loc[q].browser] = NoSession]
  /\ Done(q)
  /\ UNCHANGED <<scenario, clock, accountVars, sessionVars, requestCount, linkVars,
                 oauthState, begunBy, given, proofVars, auditVars>>

-----------------------------------------------------------------------------
(* scripts/seed_admin.py, a process of its own.                            *)

SeedUnchanged == UNCHANGED <<scenario, clock, sessionVars, requestCount,
                             linkVars, browserVars, proofVars, auditVars>>

Seed(q, e) ==
  /\ Arrive(q, "seed")
  /\ loc' = [loc EXCEPT ![q] = [NoLocal EXCEPT !.address = e,
                                               !.account = AccountOf(ByEmail(e))]]
  /\ Goto(q, "seed")
  /\ UNCHANGED accountVars
  /\ SeedUnchanged

SeedAdmin(q) ==
  /\ pc[q] = "seed"
  /\ IF loc[q].account # NoAccount
     THEN PromoteAccount(loc[q].account)
     ELSE \E a \in AccountIds : InsertAccount(a, loc[q].address, NoSub, TRUE)
  /\ Done(q)
  /\ SeedUnchanged

(* The account was inserted meanwhile: the script ends with the error.     *)
SeedRefused(q) ==
  /\ pc[q] = "seed"
  /\ loc[q].account = NoAccount
  /\ ~UniqueOk(loc[q].address, NoSub)
  /\ Done(q)
  /\ UNCHANGED accountVars
  /\ SeedUnchanged

-----------------------------------------------------------------------------
AskNext(q) ==
  \/ \E e \in scenario.addresses, ip \in Ips : AskLink(q, e, ip)
  \/ CountIp(q)
  \/ IssueLink(q)
  \/ MailLink(q)

LinkNext(q) ==
  \/ \E b \in scenario.browsers, t \in Links : OpenLink(q, b, t)
  \/ FindByLink(q)
  \/ BurnLink(q)
  \/ BurnRefused(q)

GoogleNext(q) ==
  \/ \E b \in scenario.browsers, f \in Flows : Callback(q, b, f)
  \/ ExchangeFails(q)
  \/ \E p \in Profiles : FindBySub(q, p)
  \/ FindByEmail(q)
  \/ EmailOfOtherSub(q)
  \/ LinkSub(q)
  \/ InsertGoogle(q)
  \/ UpsertRefused(q)

TailNext(q) ==
  \/ DropPresented(q)
  \/ OpenSession(q)
  \/ AuditLogin(q)
  \/ Respond(q)

CallNext(q) ==
  \/ \E b \in scenario.browsers : Call(q, b)
  \/ ExpireSession(q)
  \/ Touch(q)
  \/ LoadUser(q)
  \/ SessionGone(q)
  \/ HandleCall(q)
  \/ \E a \in AccountIds, f \in BOOLEAN : ToggleUnlimited(q, a, f)
  \/ AuditToggle(q)
  \/ \E b \in scenario.browsers : Logout(q, b)
  \/ SignedOut(q)

SeedNext(q) ==
  \/ \E e \in scenario.addresses : Seed(q, e)
  \/ SeedAdmin(q)
  \/ SeedRefused(q)

Next ==
  \/ \E q \in Slots :
       \/ AskNext(q)
       \/ LinkNext(q)
       \/ GoogleNext(q)
       \/ TailNext(q)
       \/ CallNext(q)
       \/ SeedNext(q)
       \/ Abort(q)
  \/ \E b \in scenario.browsers, f \in Flows : GoogleLogin(b, f) \/ CallbackRefused(b, f)
  \/ Tick

Spec == Init /\ [][Next]_vars

-----------------------------------------------------------------------------
(* Correctness.                                                            *)

(* Anti-abuse limit: in one window of the clock no address is sent more    *)
(* than EmailLimit links, however many replicas count at a time and        *)
(* however long a request takes from the counter to the mail.              *)
EmailLimitPerWindow ==
  \A e \in Emails, w \in Windows :
    Cardinality({t \in Links : linkEmail[t] = e /\ askedIn[t] = w}) <= EmailLimit

(* Single use: with one API replica a link opens at most one session,      *)
(* although the check of used_at and its commit are two statements without *)
(* a row lock.  With two replicas both may accept it.                      *)
LinkUsedOnce ==
  scenario.oneReplica =>
    \A r, s \in SessionIds : byLink[r] # NoLink /\ byLink[r] = byLink[s] => r = s

(* Who signed in is who proved it: a session opened by a link belongs to   *)
(* the account of the address the link was mailed to, whatever other       *)
(* requests, replicas and scripts insert and link meanwhile.               *)
SessionOfLinkOwner ==
  \A s \in SessionIds :
    byLink[s] # NoLink => email[owner[s]] = linkEmail[byLink[s]]

(* The same for Google, with one replica: the account carries the subject  *)
(* Google vouched for.  (Two replicas may both find it unlinked and the    *)
(* later commit wins.)                                                     *)
SessionOfGoogleSubject ==
  scenario.oneReplica =>
    \A s \in SessionIds :
      byProfile[s] # NoProfile => googleSub[owner[s]] = byProfile[s].sub

(* "Existing accounts match on google_sub first": once linked an account   *)
(* keeps its Google subject.                                               *)
GoogleLinkStable ==
  [][scenario.oneReplica =>
       \A a \in AccountIds : googleSub[a] # NoSub => googleSub'[a] = googleSub[a]]_vars

(* The operator sees every sign-in: an account has at least as many        *)
(* auth.login.success entries as sessions were handed to browsers for it.  *)
CookieAudited ==
  \A a \in AccountIds :
    Cardinality({s \in given : owner[s] = a}) <= logins[a]

(* The last admin.user.unlimited_toggled entry tells the flag an account   *)
(* has, as long as one replica serves, no request dies half-way and the    *)
(* seed script is not run.                                                 *)
FlagMatchesAudit ==
  scenario.oneReplica /\ ~scenario.aborts /\ "seed" \notin scenario.kinds =>
    \A a \in AccountIds :
      \/ toggled[a] \in {NoFlag, isUnlimited[a]}
      \/ \E q \in Slots : pc[q] = "auditToggle" /\ loc[q].account = a

(* One person, one account: racing first sign-ins never leave two rows     *)
(* with the address or the subject, and the loser's link is not used up:   *)
(* a used link always has its account.                                     *)
OneAccountPerIdentity ==
  /\ \A a, b \in AccountIds :
       Exists(a) /\ (email[a] = email[b] \/ (googleSub[a] # NoSub
                                             /\ googleSub[a] = googleSub[b]))
         => a = b
  /\ \A t \in Links : linkUsed[t] => ByEmail(linkEmail[t]) # {}

(* A callback goes on only in the browser that began the sign-in.          *)
CallbackFromOwnBrowser ==
  \A q \in Slots :
    loc[q].flow # NoFlow => begunBy[loc[q].flow] = loc[q].browser

Lifetime == INSTANCE SessionLifetime
  WITH Instants <- 0..MaxClock, phase <- phase, owner <- owner,
       lastSeen <- lastSeen, idleExpires <- idleExpires,
       absoluteExpires <- absoluteExpires

(* Whatever the requests do to it, a session keeps its promise.            *)
ImplementsSessionLifetime == Lifetime!LifetimeSpec
=============================================================================
