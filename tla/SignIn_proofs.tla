--------------------------- MODULE SignIn_proofs ---------------------------
(***************************************************************************)
(* Signing in keeps its promises for any number of accounts, sessions,     *)
(* links, browsers, replicas and requests in progress.  What a request     *)
(* read before is compared with the tables as they are now: tables only    *)
(* grow (Grows), so what was read of a row that exists stays true.         *)
(***************************************************************************)
EXTENDS SignIn, FiniteSetTheorems, WellFoundedInduction, TLAPS

(* What a request carries at a step.                                       *)
Sound(step, l) ==
  /\ l.now \in 0..MaxClock
  /\ step \in AskSteps => l.address \in Emails /\ l.ip \in Ips
  /\ step \in OpenSteps \cup {"mail"} => l.link \in Links
  /\ step \in OpenSteps => l.profile = NoProfile
  /\ step \in GoogleSteps => l.profile \in Profiles
  /\ step \in GoogleSteps \cup {"exchange"} => l.link = NoLink
  /\ step \in {"linkSub", "respond", "auditToggle"} \cup TailSteps =>
       l.account \in AccountIds
  /\ step \in {"auditLogin", "respond"} => l.opened \in SessionIds
  /\ step \in {"expire", "touch", "load"} => l.presented \in SessionIds
  /\ step \in {"respond", "exchange", "signedOut"} \cup OpenSteps \cup GoogleSteps
       \cup TailSteps => l.browser \in Browsers
  /\ step = "seed" => l.address \in Emails

RequestsOK ==
  /\ pc \in [Slots -> Steps]
  /\ loc \in [Slots -> Local]
  /\ \A q \in Slots : Sound(pc[q], loc[q])

ClockOK == scenario \in Scenarios /\ clock \in 0..MaxClock

LinksOK ==
  /\ linkEmail \in [Links -> Emails \cup {NoEmail}]
  /\ linkExpires \in [Links -> Nat]
  /\ linkUsed \in [Links -> BOOLEAN]
  /\ mailed \in SUBSET Links
  /\ askedIn \in [Links -> Windows]

BrowsersOK ==
  /\ oauthState \in [Browsers -> Flows \cup {NoFlow}]
  /\ begunBy \in [Flows -> Browsers \cup {NoBrowser}]
  /\ cookie \in [Browsers -> SessionIds \cup {NoSession}]
  /\ given \in SUBSET SessionIds

ProofsOK ==
  /\ byLink \in [SessionIds -> Links \cup {NoLink}]
  /\ byProfile \in [SessionIds -> Profiles \cup {NoProfile}]

AuditOK ==
  /\ logins \in [AccountIds -> Nat]
  /\ toggled \in [AccountIds -> BOOLEAN \cup {NoFlag}]

SessionsOK == SessionsTypeOK(AccountIds \cup {NoAccount})

TypeInv ==
  /\ ClockOK /\ AccountsTypeOK /\ SessionsOK /\ RateLimitTypeOK
  /\ LinksOK /\ BrowsersOK /\ ProofsOK /\ AuditOK /\ RequestsOK

(* The parts of the type invariant make up the whole. *)
LEMMA TypeParts == TypeInv => SignInTypeOK
BY DEF TypeInv, SignInTypeOK, ClockOK, SessionsOK, LinksOK, BrowsersOK, ProofsOK, AuditOK,
       RequestsOK

(* The first account and the first session are rows. *)
LEMMA First == FirstAccount \in AccountIds /\ FirstSession \in SessionIds
<1>1. ASSUME NEW S, S \subseteq Nat, S # {}
      PROVE  \E x \in S : \A y \in S : x <= y
  <2>1. PICK x \in S : \A y \in S : ~(<<y, x>> \in OpToRel(<, Nat))
    BY <1>1, NatLessThanWellFounded, WFMin
  <2>2. ASSUME NEW y \in S PROVE x <= y
    <3>1. x \in Nat /\ y \in Nat
      BY <1>1
    <3>2. ~(<<y, x>> \in OpToRel(<, Nat))
      BY <2>1
    <3> QED
      BY <3>1, <3>2 DEF OpToRel
  <2> QED
    BY <2>2
<1>2. FirstAccount \in AccountIds
  BY <1>1, AccountsAssumption, SignInAssumption DEF FirstAccount
<1>3. FirstSession \in SessionIds
  BY <1>1, SessionsAssumption, SignInAssumption DEF FirstSession
<1> QED
  BY <1>2, <1>3

(* A behaviour starts in states of the types. *)
LEMMA InitTypeInv == Init => TypeInv
<1> SUFFICES ASSUME Init PROVE TypeInv
  OBVIOUS
<1> USE SignInAssumption, AccountsAssumption, SessionsAssumption, RateLimitAssumption
<1>1. scenario \in ScenarioType /\ NoLocal \in Local /\ 0 \in 0..MaxClock
  BY DEF Init, NoLocal, Local
<1>2. AccountsTypeOK
  BY First DEF Init, AccountsTypeOK, Seeded
<1>3. SessionsTypeOK(AccountIds \cup {NoAccount})
  BY First DEF Init, SessionsTypeOK, Phases
<1>4. RateLimitTypeOK
  BY DEF Init, RateLimitTypeOK
<1>5. 0 \in Windows
  <2>1. WindowStart(0) = 0
    BY DEF WindowStart
  <2> QED
    BY <1>1, <2>1 DEF Windows
<1>6. /\ ClockOK /\ LinksOK /\ BrowsersOK /\ ProofsOK /\ AuditOK
  BY <1>1, <1>5, First DEF Init, ClockOK, LinksOK, BrowsersOK, ProofsOK, AuditOK
<1>7. RequestsOK
  BY <1>1 DEF Init, RequestsOK, Sound, NoLocal, Steps, AskSteps, OpenSteps, GoogleSteps,
              TailSteps
<1> QED
  BY <1>2, <1>3, <1>4, <1>6, <1>7 DEF TypeInv, SessionsOK

-----------------------------------------------------------------------------
(* What the statements on one table do to its type.                        *)

(* Tables a step leaves alone keep their types. *)
LEMMA Kept ==
  ASSUME TypeInv
  PROVE  /\ UNCHANGED <<scenario, clock>> => ClockOK'
         /\ UNCHANGED accountVars => AccountsTypeOK'
         /\ UNCHANGED sessionVars => SessionsOK'
         /\ UNCHANGED requestCount => RateLimitTypeOK'
         /\ UNCHANGED linkVars => LinksOK'
         /\ UNCHANGED browserVars => BrowsersOK'
         /\ UNCHANGED proofVars => ProofsOK'
         /\ UNCHANGED auditVars => AuditOK'
         /\ UNCHANGED <<pc, loc>> => RequestsOK'
BY DEF TypeInv, ClockOK, AccountsTypeOK, SessionsOK, SessionsTypeOK, RateLimitTypeOK,
       LinksOK, BrowsersOK, ProofsOK, AuditOK, RequestsOK, accountVars, sessionVars,
       linkVars, browserVars, proofVars, auditVars

(* Every statement on the account table keeps its type. *)
LEMMA AccountStatements ==
  ASSUME TypeInv, NEW a \in AccountIds
  PROVE  /\ \A e \in Emails \cup {NoEmail}, s \in Subs \cup {NoSub}, admin \in BOOLEAN :
              InsertAccount(a, e, s, admin) => AccountsTypeOK'
         /\ \A s \in Subs : SetGoogleSub(a, s) => AccountsTypeOK'
         /\ \A f \in BOOLEAN : SetUnlimited(a, f) => AccountsTypeOK'
         /\ PromoteAccount(a) => AccountsTypeOK'
BY SMTT(15), ZenonT(30)
DEF TypeInv, AccountsTypeOK, InsertAccount, SetGoogleSub, SetUnlimited, PromoteAccount

(* Every statement on the session table keeps its type. *)
LEMMA SessionStatements ==
  ASSUME TypeInv
  PROVE  /\ \A s \in SessionIds, a \in AccountIds, now \in Nat :
              CreateSession(s, a, now) => SessionsOK'
         /\ \A s \in SessionIds, now \in Nat : RefreshSession(s, now) => SessionsOK'
         /\ \A s : InvalidateSession(s) => SessionsOK'
<1> USE SessionsAssumption DEF TypeInv, SessionsOK, SessionsTypeOK, Phases
<1>1. ASSUME NEW s \in SessionIds, NEW a \in AccountIds, NEW now \in Nat,
             CreateSession(s, a, now)
      PROVE  SessionsOK'
  BY <1>1 DEF CreateSession
<1>2. ASSUME NEW s \in SessionIds, NEW now \in Nat, RefreshSession(s, now)
      PROVE  SessionsOK'
  <2>1. RefreshedIdle(s, now) \in Nat
    BY DEF RefreshedIdle
  <2> QED
    BY <1>2, <2>1 DEF RefreshSession
<1>3. ASSUME NEW s, InvalidateSession(s) PROVE SessionsOK'
  BY <1>3 DEF InvalidateSession
<1> QED
  BY <1>1, <1>2, <1>3

(* Counting keeps the type of the counters. *)
LEMMA CounterStatements ==
  ASSUME TypeInv, NEW bucket, NEW now, Increment(bucket, now)
  PROVE  RateLimitTypeOK'
<1> DEFINE w == WindowStart(now)
           counts == [requestCount[bucket] EXCEPT ![w] = @ + 1]
<1>1. requestCount \in [Buckets -> [Windows -> Nat]]
  BY DEF TypeInv, RateLimitTypeOK
<1>2. requestCount' = [requestCount EXCEPT ![bucket] = counts]
  BY <1>1 DEF Increment
<1>3. ASSUME bucket \in Buckets PROVE counts \in [Windows -> Nat]
  <2>1. requestCount[bucket] \in [Windows -> Nat]
    BY <1>1, <1>3
  <2> DEFINE f == requestCount[bucket]
  <2>2. counts = [x \in Windows |-> IF x = w THEN f[w] + 1 ELSE f[x]]
    BY <2>1
  <2>3. \A x \in Windows : (IF x = w THEN f[w] + 1 ELSE f[x]) \in Nat
    BY <2>1
  <2> HIDE DEF w, f, counts
  <2> QED
    BY <2>2, <2>3
<1> HIDE DEF counts
<1> QED
  BY <1>1, <1>2, <1>3 DEF RateLimitTypeOK

(* A request that carries nothing. *)
LEMMA NoLocalFields == NoLocal \in Local /\ Sound("idle", NoLocal)
BY RateLimitAssumption DEF NoLocal, Local, Sound, AskSteps, OpenSteps, GoogleSteps, TailSteps

(* What each step needs. *)
LEMMA Needs ==
  ASSUME NEW l, l.now \in 0..MaxClock
  PROVE  /\ \A step \in {"countIp", "issue"} :
              Sound(step, l) <=> l.address \in Emails /\ l.ip \in Ips
         /\ Sound("mail", l) <=> l.address \in Emails /\ l.ip \in Ips /\ l.link \in Links
         /\ \A step \in OpenSteps :
              Sound(step, l) <=> l.link \in Links /\ l.profile = NoProfile /\ l.browser \in Browsers
         /\ Sound("exchange", l) <=> l.link = NoLink /\ l.browser \in Browsers
         /\ \A step \in {"findByEmail", "insert"} :
              Sound(step, l) <=> l.link = NoLink /\ l.browser \in Browsers
                                 /\ l.profile \in Profiles
         /\ Sound("linkSub", l) <=> l.link = NoLink /\ l.browser \in Browsers
                                    /\ l.profile \in Profiles /\ l.account \in AccountIds
         /\ \A step \in {"rotate", "create"} :
              Sound(step, l) <=> l.account \in AccountIds /\ l.browser \in Browsers
         /\ \A step \in {"auditLogin", "respond"} :
              Sound(step, l) <=> l.account \in AccountIds /\ l.browser \in Browsers
                                 /\ l.opened \in SessionIds
         /\ \A step \in {"expire", "touch", "load"} :
              Sound(step, l) <=> l.presented \in SessionIds
         /\ Sound("handle", l)
         /\ Sound("auditToggle", l) <=> l.account \in AccountIds
         /\ Sound("signedOut", l) <=> l.browser \in Browsers
         /\ Sound("seed", l) <=> l.address \in Emails
BY DEF Sound, AskSteps, OpenSteps, GoogleSteps, TailSteps

(* What is known of a request and its surroundings. *)
LEMMA Here ==
  ASSUME TypeInv, NEW q \in Slots
  PROVE  /\ loc[q] \in Local /\ Sound(pc[q], loc[q]) /\ loc[q].now \in 0..MaxClock
         /\ pc[q] \in Steps
         /\ clock \in Nat /\ clock \in 0..MaxClock
         /\ scenario.browsers \subseteq Browsers
         /\ scenario.addresses \subseteq Emails
         /\ scenario.ticks \in 0..MaxClock
         /\ \A b \in Browsers : cookie[b] \in SessionIds \cup {NoSession}
<1>1. scenario \in ScenarioType
  BY SignInAssumption DEF TypeInv, ClockOK
<1>2. Sound(pc[q], loc[q]) /\ loc[q] \in Local /\ pc[q] \in Steps
  BY DEF TypeInv, RequestsOK
<1>3. clock \in 0..MaxClock
  BY DEF TypeInv, ClockOK
<1>4. \A b \in Browsers : cookie[b] \in SessionIds \cup {NoSession}
  BY DEF TypeInv, BrowsersOK
<1> QED
  BY <1>1, <1>2, <1>3, <1>4, RateLimitAssumption DEF Sound, ScenarioType

(* The first of some rows is one of them. *)
LEMMA AccountOfRows ==
  ASSUME NEW rows
  PROVE  /\ rows = {} => AccountOf(rows) = NoAccount
         /\ rows # {} => AccountOf(rows) \in rows
BY DEF AccountOf

(* A request that moves to a step with what the step needs. *)
LEMMA MoveInv ==
  ASSUME TypeInv, NEW q \in Slots, NEW step \in Steps, NEW l \in Local,
         Goto(q, step), loc' = [loc EXCEPT ![q] = l], Sound(step, l)
  PROVE  RequestsOK'
BY DEF TypeInv, RequestsOK, Goto

(* A request that goes on with what it has. *)
LEMMA GoOnInv ==
  ASSUME TypeInv, NEW q \in Slots, NEW step \in Steps,
         Goto(q, step), UNCHANGED loc, Sound(step, loc[q])
  PROVE  RequestsOK'
BY DEF TypeInv, RequestsOK, Goto

(* A request that is over. *)
LEMMA DoneInv ==
  ASSUME TypeInv, NEW q \in Slots, Done(q)
  PROVE  RequestsOK'
BY NoLocalFields DEF TypeInv, RequestsOK, Done, Steps

-----------------------------------------------------------------------------
(* Every step keeps the types and what requests carry.                     *)

(* Asking for a link keeps the types. *)
LEMMA AskTypeInv ==
  ASSUME TypeInv, NEW q \in Slots, AskNext(q)
  PROVE  TypeInv'
<1> USE Here DEF AskUnchanged
<1>1. ASSUME NEW e \in scenario.addresses, NEW ip \in Ips, AskLink(q, e, ip)
      PROVE  TypeInv'
  <2> DEFINE l == [NoLocal EXCEPT !.address = e, !.ip = ip, !.now = clock]
  <2>1. e \in Emails /\ clock \in Nat
    OBVIOUS
  <2>2. l \in Local
    BY <2>1, NoLocalFields DEF Local
  <2>3. l.now = clock /\ l.address = e /\ l.ip = ip
    BY DEF NoLocal
  <2>4. Sound("countIp", l) /\ "countIp" \in Steps
    BY <2>1, <2>3, Needs DEF Steps, LoopSteps, AskSteps
  <2>5. RequestsOK'
    <3>1. CASE Allowed(e, EmailLimit, clock)
      <4> HIDE DEF l
      <4> QED
        BY <1>1, <2>2, <2>4, <3>1, MoveInv DEF AskLink, l
    <3>2. CASE ~Allowed(e, EmailLimit, clock)
      BY <1>1, <3>2, Kept DEF AskLink
    <3> QED
      BY <3>1, <3>2
  <2> QED
    BY <1>1, <2>5, Kept, CounterStatements DEF AskLink, TypeInv
<1>2. CASE CountIp(q)
  <2>1. Sound("issue", loc[q]) /\ "issue" \in Steps
    BY <1>2, Needs DEF CountIp, Steps, LoopSteps, AskSteps
  <2>2. RequestsOK'
    BY <1>2, <2>1, GoOnInv, DoneInv DEF CountIp
  <2> QED
    BY <1>2, <2>2, Kept, CounterStatements DEF CountIp, TypeInv
<1>3. CASE IssueLink(q)
  <2>1. PICK t \in Links : /\ linkEmail' = [linkEmail EXCEPT ![t] = loc[q].address]
                           /\ linkExpires' = [linkExpires EXCEPT ![t] = clock + LinkLife]
                           /\ askedIn' = [askedIn EXCEPT ![t] = WindowStart(loc[q].now)]
                           /\ loc' = [loc EXCEPT ![q].link = t]
    BY <1>3 DEF IssueLink
  <2> DEFINE l == [loc[q] EXCEPT !.link = t]
  <2>2. l \in Local /\ loc' = [loc EXCEPT ![q] = l]
    BY <2>1 DEF Local
  <2>3. loc[q].address \in Emails /\ loc[q].ip \in Ips /\ loc[q].now \in 0..MaxClock
    BY <1>3, Needs DEF IssueLink
  <2>4. Sound("mail", l) /\ "mail" \in Steps
    <3>1. l.now = loc[q].now /\ l.address = loc[q].address /\ l.ip = loc[q].ip /\ l.link = t
      BY DEF Local
    <3> QED
      BY <2>3, <3>1, Needs DEF Steps, LoopSteps, AskSteps
  <2>5. RequestsOK'
    BY <1>3, <2>2, <2>4, MoveInv DEF IssueLink
  <2>6. LinksOK'
    BY <1>3, <2>1, <2>3, SignInAssumption DEF IssueLink, TypeInv, LinksOK, Windows
  <2> QED
    BY <1>3, <2>5, <2>6, Kept DEF IssueLink, TypeInv
<1>4. CASE MailLink(q)
  <2>1. loc[q].link \in Links
    BY <1>4, Needs DEF MailLink
  <2>2. LinksOK'
    BY <1>4, <2>1 DEF MailLink, TypeInv, LinksOK
  <2> QED
    BY <1>4, <2>2, Kept, DoneInv DEF MailLink, TypeInv
<1> QED
  BY <1>1, <1>2, <1>3, <1>4 DEF AskNext

(* Opening a link keeps the types. *)
LEMMA LinkTypeInv ==
  ASSUME TypeInv, NEW q \in Slots, LinkNext(q)
  PROVE  TypeInv'
<1> USE Here
<1>1. ASSUME NEW b \in scenario.browsers, NEW t \in Links, OpenLink(q, b, t)
      PROVE  TypeInv'
  <2> DEFINE l == [NoLocal EXCEPT !.browser = b, !.link = t, !.presented = cookie[b]]
  <2>1. b \in Browsers /\ cookie[b] \in SessionIds \cup {NoSession}
    OBVIOUS
  <2>2. l \in Local
    BY <2>1, NoLocalFields DEF Local
  <2>3. l.now = 0 /\ l.browser = b /\ l.link = t /\ l.profile = NoProfile
    BY DEF NoLocal
  <2> HIDE DEF l
  <2>4. Sound("findByLink", l) /\ "findByLink" \in Steps
    <3>1. l.now \in 0..MaxClock /\ "findByLink" \in OpenSteps
      BY <2>3, RateLimitAssumption DEF OpenSteps
    <3> QED
      BY <1>1, <2>1, <2>3, <3>1, Needs DEF Steps, LoopSteps
  <2>5. RequestsOK'
    BY <1>1, <2>2, <2>4, MoveInv DEF OpenLink, l
  <2> QED
    BY <1>1, <2>5, Kept DEF OpenLink, TypeInv
<1>2. CASE FindByLink(q)
  <2> DEFINE a == AccountOf(ByEmail(linkEmail[loc[q].link]))
             l == [loc[q] EXCEPT !.account = a]
  <2>1. a \in AccountIds \cup {NoAccount}
    BY AccountOfRows DEF ByEmail
  <2> HIDE DEF a
  <2>2. l \in Local
    BY <2>1 DEF Local
  <2>3. l.now = loc[q].now /\ l.browser = loc[q].browser /\ l.link = loc[q].link
        /\ l.profile = loc[q].profile
    BY DEF Local
  <2>4. Sound("burn", l) /\ "burn" \in Steps
    BY <1>2, <2>3, Needs DEF FindByLink, Steps, LoopSteps, OpenSteps
  <2>5. loc' = [loc EXCEPT ![q] = l]
    BY <1>2 DEF FindByLink, a
  <2> HIDE DEF l
  <2>6. RequestsOK'
    BY <1>2, <2>2, <2>4, <2>5, MoveInv DEF FindByLink
  <2> QED
    BY <1>2, <2>6, Kept DEF FindByLink, TypeInv
<1>3. CASE BurnLink(q)
  <2>1. /\ loc[q].link \in Links /\ loc[q].browser \in Browsers
    BY <1>3, Needs DEF BurnLink, OpenSteps
  <2>2. PICK a \in AccountIds :
          /\ loc' = [loc EXCEPT ![q].account = a]
          /\ AccountsTypeOK'
    <3>1. CASE loc[q].account # NoAccount
      <4>1. loc[q].account \in AccountIds
        BY <3>1 DEF Local
      <4>2. loc' = [loc EXCEPT ![q].account = loc[q].account]
        BY <1>3, <3>1 DEF BurnLink, TypeInv, RequestsOK, Local
      <4> QED
        BY <1>3, <3>1, <4>1, <4>2, Kept DEF BurnLink
    <3>2. CASE loc[q].account = NoAccount
      <4>1. PICK a \in AccountIds : /\ InsertAccount(a, linkEmail[loc[q].link], NoSub, FALSE)
                                    /\ loc' = [loc EXCEPT ![q].account = a]
        BY <1>3, <3>2 DEF BurnLink
      <4>2. linkEmail[loc[q].link] \in Emails \cup {NoEmail}
        BY <2>1 DEF TypeInv, LinksOK
      <4> QED
        BY <4>1, <4>2, AccountStatements
    <3> QED
      BY <3>1, <3>2
  <2> DEFINE l == [loc[q] EXCEPT !.account = a]
  <2>3. l \in Local /\ loc' = [loc EXCEPT ![q] = l]
    BY <2>2 DEF Local
  <2>4. l.now = loc[q].now /\ l.browser = loc[q].browser /\ l.account = a
    BY DEF Local
  <2>5. Sound("rotate", l) /\ "rotate" \in Steps
    BY <2>1, <2>4, Needs DEF Steps, LoopSteps, TailSteps
  <2> HIDE DEF l
  <2>6. RequestsOK'
    BY <1>3, <2>3, <2>5, MoveInv DEF BurnLink
  <2>7. LinksOK'
    BY <1>3 DEF BurnLink, TypeInv, LinksOK
  <2> QED
    BY <1>3, <2>2, <2>6, <2>7, Kept DEF BurnLink, TypeInv
<1>4. CASE BurnRefused(q)
  BY <1>4, Kept, DoneInv DEF BurnRefused, TypeInv
<1> QED
  BY <1>1, <1>2, <1>3, <1>4 DEF LinkNext

(* Signing in with Google keeps the types. *)
LEMMA GoogleTypeInv ==
  ASSUME TypeInv, NEW q \in Slots, GoogleNext(q)
  PROVE  TypeInv'
<1> USE Here DEF GoogleUnchanged
<1>0. \A p \in Profiles : p.sub \in Subs /\ p.email \in Emails
  BY SignInAssumption
<1>1. ASSUME NEW b \in scenario.browsers, NEW f \in Flows, Callback(q, b, f)
      PROVE  TypeInv'
  <2> DEFINE l == [NoLocal EXCEPT !.browser = b, !.flow = f, !.presented = cookie[b]]
  <2>1. b \in Browsers /\ cookie[b] \in SessionIds \cup {NoSession}
    OBVIOUS
  <2>2. l \in Local
    BY <2>1, NoLocalFields DEF Local
  <2>3. l.now = 0 /\ l.browser = b /\ l.link = NoLink
    BY DEF NoLocal
  <2> HIDE DEF l
  <2>4. Sound("exchange", l) /\ "exchange" \in Steps
    <3>1. l.now \in 0..MaxClock
      BY <2>3, RateLimitAssumption
    <3> QED
      BY <2>1, <2>3, <3>1, Needs DEF Steps
  <2>5. RequestsOK'
    BY <1>1, <2>2, <2>4, MoveInv DEF Callback, l
  <2>6. BrowsersOK'
    BY <1>1 DEF Callback, TypeInv, BrowsersOK
  <2> QED
    BY <1>1, <2>5, <2>6, Kept DEF Callback, TypeInv
<1>2. ASSUME Refuse(q) PROVE TypeInv'
  <2>1. BrowsersOK'
    BY <1>2 DEF Refuse, TypeInv, BrowsersOK
  <2> QED
    BY <1>2, <2>1, Kept, DoneInv DEF Refuse, TypeInv
<1>3. CASE ExchangeFails(q)
  BY <1>2, <1>3 DEF ExchangeFails
<1>4. CASE EmailOfOtherSub(q)
  BY <1>2, <1>4 DEF EmailOfOtherSub
<1>5. ASSUME UNCHANGED oauthState, GoogleUnchanged, RequestsOK', AccountsTypeOK'
      PROVE  TypeInv'
  BY <1>5, Kept DEF TypeInv, browserVars
<1>6. ASSUME NEW p \in Profiles, FindBySub(q, p) PROVE TypeInv'
  <2> DEFINE a == AccountOf(BySub(p.sub))
             l == [loc[q] EXCEPT !.profile = p, !.account = a]
  <2>1. /\ a \in AccountIds \cup {NoAccount}
        /\ BySub(p.sub) # {} => a \in AccountIds
    BY AccountOfRows DEF BySub
  <2>2. loc[q].browser \in Browsers /\ loc[q].link = NoLink
    BY <1>6, Needs DEF FindBySub
  <2> HIDE DEF a
  <2>3. l \in Local /\ loc' = [loc EXCEPT ![q] = l]
    BY SMTT(15), ZenonT(30), <1>6, <2>1 DEF Local, FindBySub, a, TypeInv, RequestsOK
  <2>4. l.now = loc[q].now /\ l.browser = loc[q].browser /\ l.link = loc[q].link
        /\ l.profile = p /\ l.account = a
    BY DEF Local
  <2> HIDE DEF l
  <2>5. l.now \in 0..MaxClock
    BY <2>4
  <2>6. CASE BySub(p.sub) # {}
    <3>1. Sound("rotate", l) /\ "rotate" \in Steps
      BY <2>1, <2>2, <2>4, <2>5, <2>6, Needs DEF Steps, LoopSteps, TailSteps
    <3>2. RequestsOK'
      BY <1>6, <2>3, <2>6, <3>1, MoveInv DEF FindBySub
    <3> QED
      BY <1>5, <1>6, <3>2, Kept DEF FindBySub
  <2>7. CASE BySub(p.sub) = {}
    <3>1. Sound("findByEmail", l) /\ "findByEmail" \in Steps
      BY <2>1, <2>2, <2>4, <2>5, Needs DEF Steps, LoopSteps, GoogleSteps
    <3>2. RequestsOK'
      BY <1>6, <2>3, <2>7, <3>1, MoveInv DEF FindBySub
    <3> QED
      BY <1>5, <1>6, <3>2, Kept DEF FindBySub
  <2> QED
    BY <2>6, <2>7
<1>7. CASE FindByEmail(q)
  <2> DEFINE a == AccountOf(ByEmail(loc[q].profile.email))
             l == [loc[q] EXCEPT !.account = a]
             step == IF a = NoAccount THEN "insert"
                     ELSE IF googleSub[a] = loc[q].profile.sub THEN "rotate" ELSE "linkSub"
  <2>1. a \in AccountIds \cup {NoAccount}
    BY AccountOfRows DEF ByEmail
  <2>2. loc[q].browser \in Browsers /\ loc[q].link = NoLink /\ loc[q].profile \in Profiles
    BY <1>7, Needs DEF FindByEmail
  <2>0. Goto(q, step)
    BY <1>7 DEF FindByEmail
  <2> HIDE DEF a
  <2>3. l \in Local /\ loc' = [loc EXCEPT ![q] = l]
    BY <1>7, <2>1 DEF Local, FindByEmail, a, TypeInv, RequestsOK
  <2>4. l.now = loc[q].now /\ l.browser = loc[q].browser /\ l.link = loc[q].link
        /\ l.profile = loc[q].profile /\ l.account = a
    BY DEF Local
  <2> HIDE DEF l
  <2>5. l.now \in 0..MaxClock
    BY <2>4
  <2>6. Sound(step, l) /\ step \in Steps
    <3>1. CASE a = NoAccount
      BY <2>2, <2>4, <2>5, <3>1, Needs DEF Steps, LoopSteps, GoogleSteps
    <3>2. CASE a # NoAccount
      <4>1. step \in {"rotate", "linkSub"}
        BY <3>2
      <4> HIDE DEF step
      <4> QED
        BY <2>1, <2>2, <2>4, <2>5, <3>2, <4>1, Needs
           DEF Steps, LoopSteps, GoogleSteps, TailSteps
    <3> QED
      BY <3>1, <3>2
  <2> HIDE DEF step
  <2>7. RequestsOK'
    BY <2>0, <2>3, <2>6, MoveInv
  <2> QED
    BY <1>5, <1>7, <2>7, Kept DEF FindByEmail
<1>8. CASE LinkSub(q)
  <2>1. loc[q].browser \in Browsers /\ loc[q].profile \in Profiles /\ loc[q].account \in AccountIds
    BY <1>8, Needs DEF LinkSub
  <2>2. Sound("rotate", loc[q]) /\ "rotate" \in Steps
    BY <2>1, Needs DEF Steps, LoopSteps, TailSteps
  <2>3. AccountsTypeOK'
    BY <1>0, <1>8, <2>1, AccountStatements DEF LinkSub
  <2> QED
    BY <1>5, <1>8, <2>2, <2>3, GoOnInv DEF LinkSub
<1>9. CASE InsertGoogle(q)
  <2>1. loc[q].browser \in Browsers /\ loc[q].profile \in Profiles
    BY <1>9, Needs DEF InsertGoogle
  <2>2. PICK a \in AccountIds :
          /\ InsertAccount(a, loc[q].profile.email, loc[q].profile.sub, FALSE)
          /\ loc' = [loc EXCEPT ![q].account = a]
    BY <1>9 DEF InsertGoogle
  <2>3. AccountsTypeOK'
    BY <1>0, <2>1, <2>2, AccountStatements
  <2> DEFINE l == [loc[q] EXCEPT !.account = a]
  <2>4. l \in Local /\ loc' = [loc EXCEPT ![q] = l]
    BY <2>2 DEF Local
  <2>5. l.now = loc[q].now /\ l.browser = loc[q].browser /\ l.account = a
    BY DEF Local
  <2> HIDE DEF l
  <2>6. Sound("rotate", l) /\ "rotate" \in Steps
    BY <2>1, <2>5, Needs DEF Steps, LoopSteps, TailSteps
  <2>7. RequestsOK'
    BY <1>9, <2>4, <2>6, MoveInv DEF InsertGoogle
  <2> QED
    BY <1>5, <1>9, <2>3, <2>7 DEF InsertGoogle
<1>10. CASE UpsertRefused(q)
  BY <1>5, <1>10, Kept, DoneInv DEF UpsertRefused
<1> QED
  BY <1>1, <1>3, <1>4, <1>6, <1>7, <1>8, <1>9, <1>10 DEF GoogleNext

(* The end of a sign-in keeps the types. *)
LEMMA TailTypeInv ==
  ASSUME TypeInv, NEW q \in Slots, TailNext(q)
  PROVE  TypeInv'
<1> USE Here DEF TailUnchanged
<1>1. CASE DropPresented(q)
  <2>1. loc[q].browser \in Browsers /\ loc[q].account \in AccountIds
    BY <1>1, Needs DEF DropPresented
  <2>2. Sound("create", loc[q]) /\ "create" \in Steps
    BY <2>1, Needs DEF Steps, LoopSteps, TailSteps
  <2>3. SessionsOK'
    BY <1>1, SessionStatements DEF DropPresented
  <2> QED
    BY <1>1, <2>2, <2>3, GoOnInv, Kept DEF DropPresented, TypeInv, browserVars
<1>2. CASE OpenSession(q)
  <2>1. loc[q].browser \in Browsers /\ loc[q].account \in AccountIds
    BY <1>2, Needs DEF OpenSession
  <2>2. PICK s \in SessionIds :
          /\ CreateSession(s, loc[q].account, clock)
          /\ loc' = [loc EXCEPT ![q].opened = s]
          /\ byLink' = [byLink EXCEPT ![s] = loc[q].link]
          /\ byProfile' = [byProfile EXCEPT ![s] = loc[q].profile]
    BY <1>2 DEF OpenSession
  <2> DEFINE l == [loc[q] EXCEPT !.opened = s]
  <2>3. l \in Local /\ loc' = [loc EXCEPT ![q] = l]
    BY <2>2 DEF Local
  <2>4. l.now = loc[q].now /\ l.browser = loc[q].browser /\ l.account = loc[q].account
        /\ l.opened = s
    BY DEF Local
  <2> HIDE DEF l
  <2>5. Sound("auditLogin", l) /\ "auditLogin" \in Steps
    BY <2>1, <2>4, Needs DEF Steps, LoopSteps, TailSteps
  <2>6. RequestsOK'
    BY <1>2, <2>3, <2>5, MoveInv DEF OpenSession
  <2>7. SessionsOK'
    BY <2>1, <2>2, SessionStatements
  <2>8. ProofsOK'
    <3>1. loc[q].link \in Links \cup {NoLink} /\ loc[q].profile \in Profiles \cup {NoProfile}
      BY DEF Local
    <3> QED
      BY <2>2, <3>1 DEF TypeInv, ProofsOK
  <2> QED
    BY <1>2, <2>6, <2>7, <2>8, Kept DEF OpenSession, TypeInv, browserVars, auditVars
<1>3. CASE AuditLogin(q)
  <2>1. loc[q].browser \in Browsers /\ loc[q].account \in AccountIds
        /\ loc[q].opened \in SessionIds
    BY <1>3, Needs DEF AuditLogin
  <2>2. Sound("respond", loc[q]) /\ "respond" \in Steps
    BY <2>1, Needs DEF Steps
  <2>3. AuditOK'
    <3> DEFINE a == loc[q].account
    <3>1. logins \in [AccountIds -> Nat] /\ logins' = [logins EXCEPT ![a] = logins[a] + 1]
      BY <1>3 DEF AuditLogin, RecordLogin, TypeInv, AuditOK
    <3>2. a \in AccountIds
      BY <2>1
    <3> HIDE DEF a
    <3>3. logins' \in [AccountIds -> Nat]
      BY <3>1, <3>2
    <3> QED
      BY <1>3, <3>3 DEF AuditLogin, TypeInv, AuditOK
  <2> QED
    BY <1>3, <2>2, <2>3, GoOnInv, Kept DEF AuditLogin, TypeInv, browserVars
<1>4. CASE Respond(q)
  <2>1. loc[q].browser \in Browsers /\ loc[q].opened \in SessionIds
    BY <1>4, Needs DEF Respond
  <2>2. BrowsersOK'
    <3>1. oauthState' \in [Browsers -> Flows \cup {NoFlow}]
      BY <1>4, <2>1 DEF Respond, TypeInv, BrowsersOK
    <3>2. cookie' \in [Browsers -> SessionIds \cup {NoSession}]
      BY <1>4, <2>1 DEF Respond, TypeInv, BrowsersOK
    <3> QED
      BY <1>4, <2>1, <3>1, <3>2 DEF Respond, TypeInv, BrowsersOK
  <2> QED
    BY <1>4, <2>2, DoneInv, Kept DEF Respond, TypeInv, auditVars
<1> QED
  BY <1>1, <1>2, <1>3, <1>4 DEF TailNext

(* Calls, the toggle and signing out keep the types. *)
LEMMA CallTypeInv ==
  ASSUME TypeInv, NEW q \in Slots, CallNext(q)
  PROVE  TypeInv'
<1> USE Here DEF CallUnchanged
<1>0. ASSUME UNCHANGED <<scenario, clock, accountVars, requestCount, linkVars, browserVars,
                         proofVars, auditVars>>,
             SessionsOK', RequestsOK'
      PROVE  TypeInv'
  BY <1>0, Kept DEF TypeInv
<1>1. ASSUME NEW b \in scenario.browsers, Call(q, b) PROVE TypeInv'
  <2> DEFINE l == [NoLocal EXCEPT !.browser = b, !.now = clock, !.presented = cookie[b]]
             step == IF Expired(cookie[b], clock) THEN "expire" ELSE "touch"
  <2>1. b \in Browsers /\ cookie[b] \in SessionIds /\ clock \in Nat
    BY <1>1 DEF Call
  <2>2. l \in Local
    BY <2>1, NoLocalFields DEF Local
  <2>3. l.now = clock /\ l.presented = cookie[b]
    BY DEF NoLocal
  <2>4. step \in {"expire", "touch"}
    OBVIOUS
  <2>5. Goto(q, step) /\ loc' = [loc EXCEPT ![q] = l]
    BY <1>1 DEF Call
  <2> HIDE DEF l, step
  <2>6. Sound(step, l) /\ step \in Steps
    BY <2>1, <2>3, <2>4, Needs DEF Steps
  <2>7. RequestsOK'
    BY <2>2, <2>5, <2>6, MoveInv
  <2> QED
    BY <1>0, <1>1, <2>7, Kept DEF Call, accountVars, auditVars
<1>2. CASE ExpireSession(q)
  BY <1>0, <1>2, SessionStatements, DoneInv DEF ExpireSession, accountVars, auditVars
<1>3. CASE Touch(q)
  <2>1. loc[q].presented \in SessionIds /\ loc[q].now \in Nat
    BY <1>3, Needs DEF Touch, Local
  <2>2. Sound("load", loc[q]) /\ "load" \in Steps
    BY <2>1, Needs DEF Steps
  <2>3. RequestsOK'
    BY <1>3, <2>2, GoOnInv DEF Touch
  <2>4. SessionsOK'
    BY <1>3, <2>1, SessionStatements DEF Touch
  <2> QED
    BY <1>0, <1>3, <2>3, <2>4 DEF Touch, accountVars, auditVars
<1>4. CASE SessionGone(q)
  BY <1>0, <1>4, Kept, DoneInv DEF SessionGone, accountVars, auditVars
<1>5. CASE HandleCall(q)
  BY <1>0, <1>5, Kept, DoneInv DEF HandleCall, accountVars, auditVars
<1>6. ASSUME NEW a \in AccountIds, NEW f \in BOOLEAN, ToggleUnlimited(q, a, f)
      PROVE  TypeInv'
  <2> DEFINE l == [loc[q] EXCEPT !.account = a, !.flag = f]
  <2>1. l \in Local /\ loc' = [loc EXCEPT ![q] = l]
    <3>1. l \in Local
      BY SMTT(15), ZenonT(30) DEF Local
    <3>2. loc' = [loc EXCEPT ![q].account = a, ![q].flag = f]
      BY <1>6 DEF ToggleUnlimited
    <3>3. loc \in [Slots -> Local]
      BY DEF TypeInv, RequestsOK
    <3> QED
      BY <3>1, <3>2, <3>3 DEF Local
  <2>2. l.now = loc[q].now /\ l.account = a
    BY DEF Local
  <2> HIDE DEF l
  <2>3. Sound("auditToggle", l) /\ "auditToggle" \in Steps
    BY <2>2, Needs DEF Steps, LoopSteps
  <2>4. RequestsOK'
    BY <1>6, <2>1, <2>3, MoveInv DEF ToggleUnlimited
  <2>5. AccountsTypeOK'
    BY <1>6, AccountStatements DEF ToggleUnlimited
  <2> QED
    BY <1>6, <2>4, <2>5, Kept DEF ToggleUnlimited, TypeInv, auditVars
<1>7. CASE AuditToggle(q)
  <2>1. loc[q].flag \in BOOLEAN
    BY DEF Local
  <2>2. AuditOK'
    BY <1>7, <2>1 DEF AuditToggle, TypeInv, AuditOK
  <2> QED
    BY <1>7, <2>2, Kept, DoneInv DEF AuditToggle, TypeInv, accountVars
<1>8. ASSUME NEW b \in scenario.browsers, Logout(q, b) PROVE TypeInv'
  <2> DEFINE l == [NoLocal EXCEPT !.browser = b, !.presented = cookie[b]]
  <2>1. b \in Browsers /\ cookie[b] \in SessionIds \cup {NoSession}
    OBVIOUS
  <2>2. l \in Local
    BY <2>1, NoLocalFields DEF Local
  <2>3. l.now = 0 /\ l.browser = b
    BY DEF NoLocal
  <2>4. loc' = [loc EXCEPT ![q] = l]
    BY <1>8 DEF Logout
  <2> HIDE DEF l
  <2>5. Sound("signedOut", l) /\ "signedOut" \in Steps
    <3>1. l.now \in 0..MaxClock
      BY <2>3, RateLimitAssumption
    <3> QED
      BY <2>1, <2>3, <3>1, Needs DEF Steps
  <2>6. RequestsOK'
    BY <1>8, <2>2, <2>4, <2>5, MoveInv DEF Logout
  <2> QED
    BY <1>0, <1>8, <2>6, SessionStatements DEF Logout, accountVars, auditVars
<1>9. CASE SignedOut(q)
  <2>1. BrowsersOK'
    BY <1>9 DEF SignedOut, TypeInv, BrowsersOK
  <2> QED
    BY <1>9, <2>1, Kept, DoneInv DEF SignedOut, TypeInv
<1>10. CASE LoadUser(q)
  <2> DEFINE a == owner[loc[q].presented]
             l == [loc[q] EXCEPT !.account = a]
  <2>1. loc[q].presented \in SessionIds
    BY <1>10, Needs DEF LoadUser
  <2>2. a \in AccountIds \cup {NoAccount}
    BY <2>1 DEF TypeInv, SessionsOK, SessionsTypeOK
  <2> HIDE DEF a
  <2>3. l \in Local /\ loc' = [loc EXCEPT ![q] = l]
    BY SMTT(15), ZenonT(30), <1>10, <2>2 DEF LoadUser, Local, TypeInv, RequestsOK, a
  <2>4. l.now = loc[q].now
    BY DEF Local
  <2> HIDE DEF l
  <2>5. Sound("handle", l) /\ "handle" \in Steps
    BY <2>4, Needs DEF Steps
  <2>6. RequestsOK'
    BY <1>10, <2>3, <2>5, MoveInv DEF LoadUser
  <2> QED
    BY <1>0, <1>10, <2>6, Kept DEF LoadUser, accountVars, auditVars
<1> QED
  BY <1>1, <1>2, <1>3, <1>4, <1>5, <1>6, <1>7, <1>8, <1>9, <1>10 DEF CallNext

(* The seed script keeps the types. *)
LEMMA SeedTypeInv ==
  ASSUME TypeInv, NEW q \in Slots, SeedNext(q)
  PROVE  TypeInv'
<1> USE Here DEF SeedUnchanged
<1>1. ASSUME NEW e \in scenario.addresses, Seed(q, e) PROVE TypeInv'
  <2> DEFINE a == AccountOf(ByEmail(e))
             l == [NoLocal EXCEPT !.address = e, !.account = a]
  <2>1. e \in Emails
    OBVIOUS
  <2>2. a \in AccountIds \cup {NoAccount}
    BY AccountOfRows DEF ByEmail
  <2> HIDE DEF a
  <2>3. l \in Local
    BY <2>1, <2>2, NoLocalFields DEF Local
  <2>4. l.now = 0 /\ l.address = e
    BY DEF NoLocal
  <2>5. loc' = [loc EXCEPT ![q] = l]
    BY <1>1 DEF Seed, a
  <2> HIDE DEF l
  <2>6. Sound("seed", l) /\ "seed" \in Steps
    <3>1. l.now \in 0..MaxClock
      BY <2>4, RateLimitAssumption
    <3> QED
      BY <2>1, <2>4, <3>1, Needs DEF Steps
  <2>7. RequestsOK'
    BY <1>1, <2>3, <2>5, <2>6, MoveInv DEF Seed
  <2> QED
    BY <1>1, <2>7, Kept DEF Seed, TypeInv
<1>2. CASE SeedAdmin(q)
  <2>1. loc[q].address \in Emails
    BY <1>2, Needs DEF SeedAdmin
  <2>2. AccountsTypeOK'
    <3>1. CASE loc[q].account # NoAccount
      <4>1. loc[q].account \in AccountIds
        BY <3>1 DEF Local
      <4> QED
        BY <1>2, <3>1, <4>1, AccountStatements DEF SeedAdmin
    <3>2. CASE loc[q].account = NoAccount
      BY <1>2, <2>1, <3>2, AccountStatements DEF SeedAdmin
    <3> QED
      BY <3>1, <3>2
  <2> QED
    BY <1>2, <2>2, Kept, DoneInv DEF SeedAdmin, TypeInv
<1>3. CASE SeedRefused(q)
  BY <1>3, Kept, DoneInv DEF SeedRefused, TypeInv
<1> QED
  BY <1>1, <1>2, <1>3 DEF SeedNext

(* Every step keeps the type invariant. *)
LEMMA NextTypeInv == TypeInv /\ [Next]_vars => TypeInv'
<1> SUFFICES ASSUME TypeInv, [Next]_vars PROVE TypeInv'
  OBVIOUS
<1>1. ASSUME NEW q \in Slots, Abort(q) PROVE TypeInv'
  BY <1>1, Kept, DoneInv DEF Abort, TypeInv
<1>2. ASSUME NEW b \in scenario.browsers, NEW f \in Flows, GoogleLogin(b, f) PROVE TypeInv'
  <2>1. scenario.browsers \subseteq Browsers
    BY SignInAssumption DEF TypeInv, ClockOK, ScenarioType
  <2>2. BrowsersOK'
    BY <1>2, <2>1 DEF GoogleLogin, TypeInv, BrowsersOK
  <2> QED
    BY <1>2, <2>2, Kept DEF GoogleLogin, TypeInv
<1>3. ASSUME NEW b \in scenario.browsers, NEW f \in Flows, CallbackRefused(b, f)
      PROVE  TypeInv'
  <2>1. BrowsersOK'
    BY <1>3 DEF CallbackRefused, GoogleUnchanged, TypeInv, BrowsersOK
  <2> QED
    BY <1>3, <2>1, Kept DEF CallbackRefused, GoogleUnchanged, TypeInv
<1>4. CASE Tick
  <2>1. ClockOK'
    BY <1>4, SignInAssumption, RateLimitAssumption DEF Tick, TypeInv, ClockOK, ScenarioType
  <2> QED
    BY <1>4, <2>1, Kept DEF Tick, TypeInv
<1>5. CASE UNCHANGED vars
  BY <1>5, Kept DEF vars, TypeInv
<1> QED
  BY <1>1, <1>2, <1>3, <1>4, <1>5, AskTypeInv, LinkTypeInv, GoogleTypeInv, TailTypeInv,
     CallTypeInv, SeedTypeInv DEF Next

(* The type invariant holds in every reachable state. *)
LEMMA TypeInvariant == Spec => []TypeInv
BY InitTypeInv, NextTypeInv, PTL DEF Spec

(* Every variable of the sign-in keeps its type, whatever requests race or *)
(* die.                                                                    *)
THEOREM SignInTypeCorrect == Spec => []SignInTypeOK
BY TypeInvariant, TypeParts, PTL

-----------------------------------------------------------------------------
(* Tables only grow: what was read of a row stays true.                    *)

AccountsGrow == \A a \in AccountIds : Exists(a) => email'[a] = email[a]

LinksGrow ==
  \A t \in Links : /\ linkEmail[t] # NoEmail => linkEmail'[t] = linkEmail[t]
                   /\ linkUsed[t] => linkUsed'[t]

SessionsGrow ==
  \A s \in SessionIds : phase[s] # "unused" =>
    /\ phase'[s] # "unused"
    /\ owner'[s] = owner[s]
    /\ absoluteExpires'[s] = absoluteExpires[s]
    /\ byLink'[s] = byLink[s]
    /\ byProfile'[s] = byProfile[s]

FlowsGrow == \A f \in Flows : begunBy[f] # NoBrowser => begunBy'[f] = begunBy[f]

Grows ==
  /\ scenario' = scenario
  /\ AccountsGrow /\ LinksGrow /\ SessionsGrow /\ FlowsGrow

(* A table that a step leaves alone has only grown. *)
LEMMA KeptGrows ==
  ASSUME TypeInv
  PROVE  /\ UNCHANGED accountVars => AccountsGrow
         /\ UNCHANGED linkVars => LinksGrow
         /\ UNCHANGED <<sessionVars, proofVars>> => SessionsGrow
         /\ UNCHANGED begunBy => FlowsGrow
         /\ UNCHANGED browserVars => FlowsGrow
BY DEF AccountsGrow, LinksGrow, SessionsGrow, FlowsGrow, accountVars, linkVars, sessionVars,
       proofVars, browserVars

(* No statement on accounts changes the address of a row. *)
LEMMA AccountsOnlyGrow ==
  ASSUME TypeInv, NEW a \in AccountIds
  PROVE  /\ \A e, s, admin : InsertAccount(a, e, s, admin) => AccountsGrow
         /\ \A s : SetGoogleSub(a, s) => AccountsGrow
         /\ \A f : SetUnlimited(a, f) => AccountsGrow
         /\ PromoteAccount(a) => AccountsGrow
BY DEF TypeInv, AccountsTypeOK, AccountsGrow, InsertAccount, NextId, SetGoogleSub,
       SetUnlimited, PromoteAccount

(* No statement on sessions brings a session back or gives it away. *)
LEMMA SessionsOnlyGrow ==
  ASSUME TypeInv, UNCHANGED proofVars
  PROVE  /\ \A s \in SessionIds : \A now : RefreshSession(s, now) => SessionsGrow
         /\ \A s : InvalidateSession(s) => SessionsGrow
<1>1. ASSUME NEW s \in SessionIds, NEW now, RefreshSession(s, now) PROVE SessionsGrow
  BY <1>1 DEF SessionsGrow, RefreshSession, proofVars
<1>2. ASSUME NEW s, InvalidateSession(s) PROVE SessionsGrow
  BY <1>2 DEF SessionsGrow, InvalidateSession, proofVars, TypeInv, SessionsOK, SessionsTypeOK
<1> QED
  BY <1>1, <1>2

(* Asking for a link adds a link and changes no row. *)
LEMMA AskGrows ==
  ASSUME TypeInv, NEW q \in Slots, AskNext(q)
  PROVE  Grows
<1> USE KeptGrows DEF AskUnchanged
<1>1. ASSUME NEW e \in scenario.addresses, NEW ip \in Ips, AskLink(q, e, ip)
      PROVE  Grows
  BY <1>1 DEF AskLink, Grows
<1>2. CASE CountIp(q)
  BY <1>2 DEF CountIp, Grows
<1>3. CASE IssueLink(q)
  <2>1. LinksGrow
    BY <1>3 DEF IssueLink, NextLink, LinksGrow, TypeInv, LinksOK
  <2> QED
    BY <1>3, <2>1 DEF IssueLink, Grows
<1>4. CASE MailLink(q)
  <2>1. LinksGrow
    BY <1>4 DEF MailLink, LinksGrow
  <2> QED
    BY <1>4, <2>1 DEF MailLink, Grows
<1> QED
  BY <1>1, <1>2, <1>3, <1>4 DEF AskNext

(* Opening a link adds an account and uses the link. *)
LEMMA LinkGrows ==
  ASSUME TypeInv, NEW q \in Slots, LinkNext(q)
  PROVE  Grows
<1> USE KeptGrows, Here
<1>1. ASSUME NEW b \in scenario.browsers, NEW t \in Links, OpenLink(q, b, t)
      PROVE  Grows
  BY <1>1 DEF OpenLink, Grows
<1>2. CASE FindByLink(q)
  BY <1>2 DEF FindByLink, Grows
<1>3. CASE BurnLink(q)
  <2>1. AccountsGrow
    BY <1>3, AccountsOnlyGrow DEF BurnLink
  <2>2. LinksGrow
    BY <1>3 DEF BurnLink, LinksGrow, TypeInv, LinksOK
  <2> QED
    BY <1>3, <2>1, <2>2 DEF BurnLink, Grows
<1>4. CASE BurnRefused(q)
  BY <1>4 DEF BurnRefused, Grows
<1> QED
  BY <1>1, <1>2, <1>3, <1>4 DEF LinkNext

(* Signing in with Google keeps the address of every account. *)
LEMMA GoogleGrows ==
  ASSUME TypeInv, NEW q \in Slots, GoogleNext(q)
  PROVE  Grows
<1> USE KeptGrows, Here DEF GoogleUnchanged
<1>1. ASSUME GoogleUnchanged, AccountsGrow PROVE Grows
  BY <1>1 DEF Grows
<1>2. ASSUME NEW b \in scenario.browsers, NEW f \in Flows, Callback(q, b, f)
      PROVE  Grows
  BY <1>1, <1>2 DEF Callback
<1>3. CASE ExchangeFails(q)
  BY <1>1, <1>3 DEF ExchangeFails, Refuse
<1>4. ASSUME NEW p \in Profiles, FindBySub(q, p) PROVE Grows
  BY <1>1, <1>4 DEF FindBySub
<1>5. CASE FindByEmail(q)
  BY <1>1, <1>5 DEF FindByEmail
<1>6. CASE EmailOfOtherSub(q)
  BY <1>1, <1>6 DEF EmailOfOtherSub, Refuse
<1>7. CASE LinkSub(q)
  <2>1. loc[q].account \in AccountIds
    BY <1>7, Needs DEF LinkSub
  <2> QED
    BY <1>1, <1>7, <2>1, AccountsOnlyGrow DEF LinkSub
<1>8. CASE InsertGoogle(q)
  BY <1>1, <1>8, AccountsOnlyGrow DEF InsertGoogle
<1>9. CASE UpsertRefused(q)
  BY <1>1, <1>9 DEF UpsertRefused
<1> QED
  BY <1>2, <1>3, <1>4, <1>5, <1>6, <1>7, <1>8, <1>9 DEF GoogleNext

(* The end of a sign-in opens a session of its own. *)
LEMMA TailGrows ==
  ASSUME TypeInv, NEW q \in Slots, TailNext(q)
  PROVE  Grows
<1> USE KeptGrows, Here DEF TailUnchanged
<1>1. CASE DropPresented(q)
  BY <1>1, SessionsOnlyGrow DEF DropPresented, Grows
<1>2. CASE OpenSession(q)
  <2>1. SessionsGrow
    BY <1>2 DEF OpenSession, CreateSession, NextSession, SessionsGrow, TypeInv, SessionsOK,
                SessionsTypeOK, ProofsOK
  <2> QED
    BY <1>2, <2>1 DEF OpenSession, Grows
<1>3. CASE AuditLogin(q)
  BY <1>3 DEF AuditLogin, Grows
<1>4. CASE Respond(q)
  BY <1>4 DEF Respond, Grows
<1> QED
  BY <1>1, <1>2, <1>3, <1>4 DEF TailNext

(* Calls and signing out close sessions and give none away. *)
LEMMA CallGrows ==
  ASSUME TypeInv, NEW q \in Slots, CallNext(q)
  PROVE  Grows
<1> USE KeptGrows, Here DEF CallUnchanged
<1>1. ASSUME CallUnchanged, SessionsGrow PROVE Grows
  <2>1. AccountsGrow
    BY <1>1 DEF AccountsGrow
  <2> QED
    BY <1>1, <2>1 DEF Grows
<1>2. ASSUME NEW b \in scenario.browsers, Call(q, b) PROVE Grows
  BY <1>1, <1>2 DEF Call
<1>3. CASE ExpireSession(q)
  BY <1>1, <1>3, SessionsOnlyGrow DEF ExpireSession
<1>4. CASE Touch(q)
  <2>1. loc[q].presented \in SessionIds
    BY <1>4, Needs DEF Touch
  <2> QED
    BY <1>1, <1>4, <2>1, SessionsOnlyGrow DEF Touch
<1>5. CASE LoadUser(q)
  BY <1>1, <1>5 DEF LoadUser
<1>6. CASE SessionGone(q)
  BY <1>1, <1>6 DEF SessionGone
<1>7. CASE HandleCall(q)
  BY <1>1, <1>7 DEF HandleCall
<1>8. ASSUME NEW a \in AccountIds, NEW f \in BOOLEAN, ToggleUnlimited(q, a, f)
      PROVE  Grows
  BY <1>1, <1>8 DEF ToggleUnlimited
<1>9. CASE AuditToggle(q)
  BY <1>1, <1>9 DEF AuditToggle
<1>10. ASSUME NEW b \in scenario.browsers, Logout(q, b) PROVE Grows
  BY <1>1, <1>10, SessionsOnlyGrow DEF Logout
<1>11. CASE SignedOut(q)
  BY <1>11 DEF SignedOut, Grows
<1> QED
  BY <1>2, <1>3, <1>4, <1>5, <1>6, <1>7, <1>8, <1>9, <1>10, <1>11 DEF CallNext

(* The seed script keeps the address of every account. *)
LEMMA SeedGrows ==
  ASSUME TypeInv, NEW q \in Slots, SeedNext(q)
  PROVE  Grows
<1> USE KeptGrows, Here DEF SeedUnchanged
<1>1. ASSUME SeedUnchanged, AccountsGrow PROVE Grows
  BY <1>1 DEF Grows
<1>2. ASSUME NEW e \in scenario.addresses, Seed(q, e) PROVE Grows
  BY <1>1, <1>2 DEF Seed
<1>3. CASE SeedAdmin(q)
  <2>1. loc[q].account # NoAccount => loc[q].account \in AccountIds
    BY DEF Local
  <2> QED
    BY <1>1, <1>3, <2>1, AccountsOnlyGrow DEF SeedAdmin
<1>4. CASE SeedRefused(q)
  BY <1>1, <1>4 DEF SeedRefused
<1> QED
  BY <1>2, <1>3, <1>4 DEF SeedNext

(* A step of a request leaves the other requests where they are. *)
LEMMA OthersStay ==
  ASSUME TypeInv, NEW q \in Slots,
         AskNext(q) \/ LinkNext(q) \/ GoogleNext(q) \/ TailNext(q) \/ CallNext(q)
           \/ SeedNext(q) \/ Abort(q),
         NEW p \in Slots, p # q
  PROVE  pc'[p] = pc[p] /\ loc'[p] = loc[p]
<1> USE DEF TypeInv, RequestsOK, Goto, Done
<1>1. CASE AskNext(q)
  BY <1>1 DEF AskNext, AskLink, CountIp, IssueLink, MailLink
<1>2. CASE LinkNext(q)
  BY <1>2 DEF LinkNext, OpenLink, FindByLink, BurnLink, BurnRefused
<1>3. CASE GoogleNext(q)
  BY <1>3 DEF GoogleNext, Callback, ExchangeFails, Refuse, FindBySub, FindByEmail,
              EmailOfOtherSub, LinkSub, InsertGoogle, UpsertRefused
<1>4. CASE TailNext(q)
  BY <1>4 DEF TailNext, DropPresented, OpenSession, AuditLogin, Respond
<1>5. CASE CallNext(q)
  BY <1>5 DEF CallNext, Call, ExpireSession, Touch, LoadUser, SessionGone, HandleCall,
              ToggleUnlimited, AuditToggle, Logout, SignedOut
<1>6. CASE SeedNext(q)
  BY <1>6 DEF SeedNext, Seed, SeedAdmin, SeedRefused
<1>7. CASE Abort(q)
  BY <1>7 DEF Abort
<1> QED
  BY <1>1, <1>2, <1>3, <1>4, <1>5, <1>6, <1>7

-----------------------------------------------------------------------------
(* What requests and rows say about each other.                            *)

UniqueInv ==
  /\ \A a, b \in AccountIds : Exists(a) /\ email[a] = email[b] => a = b
  /\ \A a, b \in AccountIds : googleSub[a] # NoSub /\ googleSub[a] = googleSub[b] => a = b
  /\ \A a \in AccountIds : ~Exists(a) => googleSub[a] = NoSub /\ toggled[a] = NoFlag

LinkInv ==
  /\ \A t \in mailed : linkEmail[t] # NoEmail
  /\ \A t \in Links : linkUsed[t] =>
       linkEmail[t] # NoEmail /\ \E a \in AccountIds : email[a] = linkEmail[t]

SessionInv ==
  \A s \in SessionIds :
    /\ phase[s] # "unused" => owner[s] \in AccountIds /\ Exists(owner[s])
    /\ byLink[s] # NoLink =>
         /\ phase[s] # "unused"
         /\ linkEmail[byLink[s]] # NoEmail
         /\ email[owner[s]] = linkEmail[byLink[s]]
    /\ byProfile[s] # NoProfile => phase[s] # "unused"
    /\ s \in given => phase[s] # "unused"

FlowInv ==
  \A b \in Browsers : oauthState[b] # NoFlow => begunBy[oauthState[b]] = b

(* What a request read is still true of the rows it names.                 *)
Agree(q) ==
  /\ pc[q] \in OpenSteps \cup {"mail"} => linkEmail[loc[q].link] # NoEmail
  /\ pc[q] = "burn" /\ loc[q].account # NoAccount =>
       email[loc[q].account] = linkEmail[loc[q].link]
  /\ pc[q] \in {"linkSub", "respond", "auditToggle"} \cup TailSteps => Exists(loc[q].account)
  /\ pc[q] \in {"respond"} \cup TailSteps /\ loc[q].link # NoLink =>
       /\ linkEmail[loc[q].link] # NoEmail
       /\ email[loc[q].account] = linkEmail[loc[q].link]
  /\ pc[q] \in {"auditLogin", "respond"} =>
       phase[loc[q].opened] # "unused" /\ owner[loc[q].opened] = loc[q].account
  /\ pc[q] \in {"expire", "touch", "load"} => phase[loc[q].presented] # "unused"
  /\ pc[q] = "touch" => loc[q].now < absoluteExpires[loc[q].presented]
  /\ loc[q].flow # NoFlow => loc[q].browser \in Browsers /\ begunBy[loc[q].flow] = loc[q].browser
  /\ pc[q] = "seed" => "seed" \in scenario.kinds

AgreeInv == \A q \in Slots : Agree(q)

DataInv == UniqueInv /\ LinkInv /\ SessionInv /\ FlowInv /\ AgreeInv

(* Rows that a step leaves alone stay as consistent as they were. *)
LEMMA KeptData ==
  ASSUME TypeInv, DataInv, Grows
  PROVE  /\ UNCHANGED <<accountVars, auditVars>> => UniqueInv'
         /\ UNCHANGED <<linkUsed, mailed>> => LinkInv'
         /\ UNCHANGED <<sessionVars, proofVars, given>> => SessionInv'
         /\ UNCHANGED oauthState => FlowInv'
<1> USE DEF TypeInv, DataInv, Grows
<1>1. UNCHANGED <<accountVars, auditVars>> => UniqueInv'
  BY DEF UniqueInv, accountVars, auditVars, Exists
<1>2. UNCHANGED <<linkUsed, mailed>> => LinkInv'
  BY DEF LinkInv, LinksGrow, AccountsGrow, LinksOK, Exists
<1>3. UNCHANGED <<sessionVars, proofVars, given>> => SessionInv'
  BY DEF SessionInv, sessionVars, proofVars, AccountsGrow, LinksGrow, ProofsOK, Exists
<1>4. UNCHANGED oauthState => FlowInv'
  BY SignInAssumption DEF FlowInv, FlowsGrow, BrowsersOK
<1> QED
  BY <1>1, <1>2, <1>3, <1>4

(* What a request carries stays true while others move. *)
LEMMA AgreeStays ==
  ASSUME TypeInv, Grows, NEW p \in Slots, Agree(p), pc'[p] = pc[p], loc'[p] = loc[p]
  PROVE  Agree(p)'
<1> DEFINE l == loc[p]
<1>1. /\ l.link \in Links \cup {NoLink} /\ l.account \in AccountIds \cup {NoAccount}
      /\ l.opened \in SessionIds \cup {NoSession} /\ l.presented \in SessionIds \cup {NoSession}
      /\ l.flow \in Flows \cup {NoFlow}
      /\ Sound(pc[p], l)
  BY DEF TypeInv, RequestsOK, Local
<1>2. /\ pc[p] \in OpenSteps \cup {"mail"} => l.link \in Links
      /\ pc[p] \in {"linkSub", "respond", "auditToggle"} \cup TailSteps => l.account \in AccountIds
      /\ pc[p] \in {"auditLogin", "respond"} => l.opened \in SessionIds
      /\ pc[p] \in {"expire", "touch", "load"} => l.presented \in SessionIds
  BY <1>1 DEF Sound
<1>3. /\ loc'[p] = l /\ pc'[p] = pc[p]
      /\ scenario' = scenario /\ AccountsGrow /\ LinksGrow /\ SessionsGrow /\ FlowsGrow
  BY DEF Grows
<1>4. /\ l.link \in Links /\ linkEmail[l.link] # NoEmail =>
           linkEmail'[l.link] = linkEmail[l.link]
      /\ l.account \in AccountIds /\ email[l.account] # NoEmail =>
           email'[l.account] = email[l.account]
      /\ l.opened \in SessionIds /\ phase[l.opened] # "unused" =>
           phase'[l.opened] # "unused" /\ owner'[l.opened] = owner[l.opened]
      /\ l.presented \in SessionIds /\ phase[l.presented] # "unused" =>
           /\ phase'[l.presented] # "unused"
           /\ absoluteExpires'[l.presented] = absoluteExpires[l.presented]
      /\ l.flow \in Flows /\ begunBy[l.flow] # NoBrowser => begunBy'[l.flow] = begunBy[l.flow]
  BY <1>3 DEF AccountsGrow, LinksGrow, SessionsGrow, FlowsGrow, Exists
<1>5. /\ pc[p] \in OpenSteps \cup {"mail"} => linkEmail'[l.link] # NoEmail
      /\ pc[p] = "burn" /\ l.account # NoAccount => email'[l.account] = linkEmail'[l.link]
      /\ pc[p] \in {"linkSub", "respond", "auditToggle"} \cup TailSteps =>
           email'[l.account] # NoEmail
      /\ pc[p] \in {"respond"} \cup TailSteps /\ l.link # NoLink =>
           linkEmail'[l.link] # NoEmail /\ email'[l.account] = linkEmail'[l.link]
  BY <1>1, <1>2, <1>4 DEF Agree, Exists, OpenSteps
<1>6. /\ pc[p] \in {"auditLogin", "respond"} =>
           phase'[l.opened] # "unused" /\ owner'[l.opened] = l.account
      /\ pc[p] \in {"expire", "touch", "load"} => phase'[l.presented] # "unused"
      /\ pc[p] = "touch" => l.now < absoluteExpires'[l.presented]
      /\ l.flow # NoFlow => l.browser \in Browsers /\ begunBy'[l.flow] = l.browser
      /\ pc[p] = "seed" => "seed" \in scenario'.kinds
  BY <1>1, <1>2, <1>3, <1>4, SignInAssumption DEF Agree
<1> QED
  BY <1>3, <1>5, <1>6 DEF Agree, Exists

(* A request that is over agrees with everything. *)
LEMMA DoneAgree ==
  ASSUME TypeInv, NEW q \in Slots, Done(q)
  PROVE  Agree(q)'
<1>1. pc'[q] = "idle" /\ loc'[q] = NoLocal
  BY DEF TypeInv, RequestsOK, Done
<1> QED
  BY <1>1 DEF Agree, NoLocal, OpenSteps, TailSteps

(* One request moves. *)
LEMMA AgreeStep ==
  ASSUME TypeInv, AgreeInv, Grows, NEW q \in Slots,
         AskNext(q) \/ LinkNext(q) \/ GoogleNext(q) \/ TailNext(q) \/ CallNext(q)
           \/ SeedNext(q) \/ Abort(q),
         Agree(q)'
  PROVE  AgreeInv'
BY OthersStay, AgreeStays DEF AgreeInv

(* A new row has an address and a subject of its own. *)
LEMMA InsertUnique ==
  ASSUME TypeInv, UniqueInv, UNCHANGED toggled, NEW a \in AccountIds, NEW e \in Emails,
         NEW s \in Subs \cup {NoSub}, NEW admin, InsertAccount(a, e, s, admin)
  PROVE  UniqueInv' /\ email'[a] = e /\ googleSub'[a] = s /\ Exists(a)'
<1>1. /\ email' = [email EXCEPT ![a] = e] /\ googleSub' = [googleSub EXCEPT ![a] = s]
      /\ \A b \in AccountIds : email[b] # e
      /\ s # NoSub => \A b \in AccountIds : googleSub[b] # s
      /\ ~Exists(a)
  BY DEF InsertAccount, NextId, UniqueOk, ByEmail, BySub
<1> QED
  BY <1>1, AccountsAssumption DEF UniqueInv, Exists, TypeInv, AccountsTypeOK

(* Asking for a link. *)
LEMMA AskData ==
  ASSUME TypeInv, DataInv, NEW q \in Slots, AskNext(q)
  PROVE  DataInv'
<1>1. Grows
  BY AskGrows
<1> USE <1>1, Here, KeptData DEF AskUnchanged
<1>2. UniqueInv' /\ SessionInv' /\ FlowInv'
  BY DEF AskNext, AskLink, CountIp, IssueLink, MailLink, browserVars
<1>3. ASSUME LinkInv', Agree(q)' PROVE DataInv'
  BY <1>2, <1>3, AgreeStep DEF DataInv
<1>4. ASSUME NEW e \in scenario.addresses, NEW ip \in Ips, AskLink(q, e, ip)
      PROVE  DataInv'
  <2>1. LinkInv'
    BY <1>4 DEF AskLink, linkVars
  <2>2. CASE Allowed(e, EmailLimit, clock)
    <3>1. pc'[q] = "countIp" /\ loc'[q].flow = NoFlow
      BY SMTT(15), ZenonT(30), <1>4, <2>2 DEF AskLink, Goto, NoLocal, TypeInv, RequestsOK
    <3> QED
      BY <1>3, <2>1, <3>1 DEF Agree, OpenSteps, TailSteps
  <2>3. CASE ~Allowed(e, EmailLimit, clock)
    <3>1. Agree(q)'
      BY <1>4, <2>3, AgreeStays DEF AskLink, DataInv, AgreeInv
    <3> QED
      BY <1>3, <2>1, <3>1
  <2> QED
    BY <2>2, <2>3
<1>5. CASE CountIp(q)
  <2>1. LinkInv'
    BY <1>5 DEF CountIp, linkVars
  <2>2. CASE Done(q)
    BY <1>3, <2>1, <2>2, DoneAgree
  <2>3. CASE Goto(q, "issue") /\ UNCHANGED loc
    <3>1. pc'[q] = "issue" /\ loc'[q] = loc[q] /\ Agree(q)
      BY <2>3 DEF Goto, TypeInv, RequestsOK, DataInv, AgreeInv
    <3>2. loc[q].flow # NoFlow =>
            loc[q].browser \in Browsers /\ begunBy'[loc[q].flow] = loc[q].browser
      BY <1>5, <3>1 DEF CountIp, Agree, browserVars
    <3> QED
      BY <1>3, <2>1, <3>1, <3>2 DEF Agree, OpenSteps, TailSteps
  <2> QED
    BY <1>5, <2>2, <2>3 DEF CountIp
<1>6. CASE IssueLink(q)
  <2>1. LinkInv'
    BY <1>6 DEF IssueLink
  <2>2. PICK t \in Links : /\ linkEmail' = [linkEmail EXCEPT ![t] = loc[q].address]
                          /\ loc' = [loc EXCEPT ![q].link = t]
    BY <1>6 DEF IssueLink
  <2>3. /\ pc'[q] = "mail" /\ loc'[q].link = t /\ loc'[q].flow = loc[q].flow
        /\ loc'[q].browser = loc[q].browser /\ Agree(q)
    BY <1>6, <2>2 DEF IssueLink, Goto, TypeInv, RequestsOK, Local, DataInv, AgreeInv
  <2>4. loc[q].address \in Emails
    BY <1>6, Needs DEF IssueLink
  <2>5. linkEmail'[t] # NoEmail
    BY <2>2, <2>4, AccountsAssumption DEF TypeInv, LinksOK
  <2>6. loc'[q].flow # NoFlow =>
          loc'[q].browser \in Browsers /\ begunBy'[loc'[q].flow] = loc'[q].browser
    BY <1>6, <2>3 DEF IssueLink, Agree, browserVars
  <2>7. Agree(q)'
    BY <2>3, <2>5, <2>6 DEF Agree, OpenSteps, TailSteps
  <2> QED
    BY <1>3, <2>1, <2>7
<1>7. CASE MailLink(q)
  <2>1. linkEmail[loc[q].link] # NoEmail
    BY <1>7 DEF MailLink, DataInv, AgreeInv, Agree
  <2>2. LinkInv'
    BY <1>7, <2>1 DEF MailLink, DataInv, LinkInv, AskUnchanged, accountVars
  <2> QED
    BY <1>3, <1>7, <2>2, DoneAgree DEF MailLink
<1> QED
  BY <1>4, <1>5, <1>6, <1>7 DEF AskNext

(* Opening a link. *)
LEMMA LinkData ==
  ASSUME TypeInv, DataInv, NEW q \in Slots, LinkNext(q)
  PROVE  DataInv'
<1>1. Grows
  BY LinkGrows
<1> USE <1>1, Here, KeptData
<1>2. SessionInv' /\ FlowInv'
  BY DEF LinkNext, OpenLink, FindByLink, BurnLink, BurnRefused, browserVars
<1>3. ASSUME UniqueInv', LinkInv', Agree(q)' PROVE DataInv'
  BY <1>2, <1>3, AgreeStep DEF DataInv
<1>4. ASSUME UNCHANGED <<accountVars, auditVars, linkVars>>, Agree(q)' PROVE DataInv'
  BY <1>3, <1>4 DEF linkVars
<1>5. ASSUME NEW b \in scenario.browsers, NEW t \in Links, OpenLink(q, b, t)
      PROVE  DataInv'
  <2>1. pc'[q] = "findByLink" /\ loc'[q].flow = NoFlow /\ loc'[q].link = t
    BY <1>5 DEF OpenLink, Goto, NoLocal, TypeInv, RequestsOK
  <2>2. linkEmail'[t] # NoEmail
    BY <1>5 DEF OpenLink, DataInv, LinkInv, linkVars
  <2>3. Agree(q)'
    BY <2>1, <2>2 DEF Agree, OpenSteps, TailSteps
  <2> QED
    BY <1>4, <1>5, <2>3 DEF OpenLink
<1>6. CASE FindByLink(q)
  <2> DEFINE a == AccountOf(ByEmail(linkEmail[loc[q].link]))
  <2>1. /\ pc'[q] = "burn" /\ loc'[q].account = a /\ loc'[q].link = loc[q].link
        /\ loc'[q].flow = loc[q].flow /\ loc'[q].browser = loc[q].browser /\ Agree(q)
    BY <1>6 DEF FindByLink, Goto, TypeInv, RequestsOK, Local, DataInv, AgreeInv
  <2>2. a # NoAccount => email[a] = linkEmail[loc[q].link]
    BY AccountOfRows DEF ByEmail
  <2> HIDE DEF a
  <2>3. linkEmail[loc[q].link] # NoEmail
    BY <1>6, <2>1 DEF FindByLink, Agree, OpenSteps
  <2>4. Agree(q)'
    <3>1. linkEmail' = linkEmail /\ email' = email /\ begunBy' = begunBy
      BY <1>6 DEF FindByLink, linkVars, accountVars, browserVars
    <3>2. loc[q].flow # NoFlow =>
            loc[q].browser \in Browsers /\ begunBy[loc[q].flow] = loc[q].browser
      BY <2>1 DEF Agree
    <3> QED
      BY <2>1, <2>2, <2>3, <3>1, <3>2 DEF Agree, OpenSteps, TailSteps
  <2> QED
    BY <1>4, <1>6, <2>4 DEF FindByLink
<1>7. CASE BurnLink(q)
  <2> DEFINE t == loc[q].link
  <2>1. t \in Links /\ linkEmail[t] \in Emails /\ Agree(q)
    BY <1>7, Needs DEF BurnLink, DataInv, AgreeInv, Agree, OpenSteps, TypeInv, LinksOK
  <2> HIDE DEF t
  <2>2. PICK a \in AccountIds :
          /\ pc'[q] = "rotate" /\ loc'[q].account = a /\ loc'[q].link = t
          /\ loc'[q].flow = loc[q].flow /\ loc'[q].browser = loc[q].browser
          /\ email'[a] = linkEmail[t] /\ UniqueInv'
    <3>1. CASE loc[q].account # NoAccount
      <4>1. loc[q].account \in AccountIds /\ email[loc[q].account] = linkEmail[t]
        BY <1>7, <2>1, <3>1 DEF Local, BurnLink, Agree, t
      <4> QED
        BY <1>7, <3>1, <4>1 DEF BurnLink, Goto, TypeInv, RequestsOK, t, accountVars
    <3>2. CASE loc[q].account = NoAccount
      <4>1. PICK a \in AccountIds : /\ InsertAccount(a, linkEmail[t], NoSub, FALSE)
                                    /\ loc' = [loc EXCEPT ![q].account = a]
        BY <1>7, <3>2 DEF BurnLink, t
      <4>2. email'[a] = linkEmail[t] /\ UniqueInv'
        BY <1>7, <2>1, <4>1, InsertUnique DEF BurnLink, DataInv, auditVars
      <4>3. /\ pc'[q] = "rotate" /\ loc'[q].account = a /\ loc'[q].link = t
            /\ loc'[q].flow = loc[q].flow /\ loc'[q].browser = loc[q].browser
        BY <1>7, <4>1 DEF BurnLink, Goto, TypeInv, RequestsOK, Local, t
      <4> QED
        BY <4>2, <4>3
    <3> QED
      BY <3>1, <3>2
  <2>3. linkEmail' = linkEmail /\ begunBy' = begunBy
    BY <1>7 DEF BurnLink, browserVars
  <2>4. LinkInv'
    <3>1. /\ linkUsed' = [linkUsed EXCEPT ![t] = TRUE] /\ mailed' = mailed
      BY <1>7 DEF BurnLink, t
    <3>2. ASSUME NEW u \in Links, linkUsed'[u]
          PROVE  linkEmail[u] # NoEmail /\ \E b \in AccountIds : email'[b] = linkEmail[u]
      <4>1. CASE u = t
        BY <2>1, <2>2, <4>1, AccountsAssumption
      <4>2. CASE u # t
        <5>1. linkUsed[u]
          BY <3>1, <3>2, <4>2 DEF TypeInv, LinksOK
        <5>2. PICK b \in AccountIds : email[b] = linkEmail[u] /\ linkEmail[u] # NoEmail
          BY <5>1 DEF DataInv, LinkInv
        <5>3. email'[b] = email[b]
          BY <5>2 DEF Grows, AccountsGrow, Exists
        <5> QED
          BY <5>2, <5>3
      <4> QED
        BY <4>1, <4>2
    <3> QED
      BY <2>3, <3>1, <3>2 DEF DataInv, LinkInv
  <2>5. Agree(q)'
    <3>1. loc[q].flow # NoFlow =>
            loc[q].browser \in Browsers /\ begunBy[loc[q].flow] = loc[q].browser
      BY <2>1 DEF Agree
    <3>2. linkEmail[t] # NoEmail
      BY <2>1, AccountsAssumption
    <3> QED
      BY <2>2, <2>3, <3>1, <3>2 DEF Agree, OpenSteps, TailSteps, Exists
  <2> QED
    BY <1>3, <2>2, <2>4, <2>5
<1>8. CASE BurnRefused(q)
  BY <1>4, <1>8, DoneAgree DEF BurnRefused
<1> QED
  BY <1>5, <1>6, <1>7, <1>8 DEF LinkNext

(* Signing in with Google. *)
LEMMA GoogleData ==
  ASSUME TypeInv, DataInv, NEW q \in Slots, GoogleNext(q)
  PROVE  DataInv'
<1>1. Grows
  BY GoogleGrows
<1> USE <1>1, Here, KeptData DEF GoogleUnchanged
<1>0. \A p \in Profiles : p.sub \in Subs /\ p.email \in Emails
  BY SignInAssumption
<1>2. ASSUME GoogleUnchanged PROVE LinkInv' /\ SessionInv'
  BY <1>2 DEF linkVars
<1>3. ASSUME GoogleUnchanged, UniqueInv', FlowInv', Agree(q)' PROVE DataInv'
  BY <1>2, <1>3, AgreeStep DEF DataInv
<1>4. ASSUME GoogleUnchanged, UNCHANGED <<accountVars, oauthState>>, Agree(q)' PROVE DataInv'
  BY <1>3, <1>4
<1>5. ASSUME NEW b \in scenario.browsers, NEW f \in Flows, Callback(q, b, f)
      PROVE  DataInv'
  <2>1. /\ pc'[q] = "exchange" /\ loc'[q].flow = f /\ loc'[q].browser = b
        /\ b \in Browsers /\ begunBy[f] = b
    BY <1>5, SignInAssumption
       DEF Callback, Goto, NoLocal, TypeInv, RequestsOK, StatesMatch, DataInv, FlowInv
  <2>2. begunBy' = begunBy
    BY <1>5 DEF Callback
  <2>3. Agree(q)'
    BY <2>1, <2>2 DEF Agree, OpenSteps, TailSteps
  <2> QED
    BY <1>4, <1>5, <2>3 DEF Callback
<1>6. ASSUME Refuse(q) PROVE DataInv'
  <2>1. FlowInv'
    BY <1>6 DEF Refuse, DataInv, FlowInv, TypeInv, BrowsersOK
  <2> QED
    BY <1>3, <1>6, <2>1, DoneAgree DEF Refuse
<1>7. CASE ExchangeFails(q)
  BY <1>6, <1>7 DEF ExchangeFails
<1>8. CASE EmailOfOtherSub(q)
  BY <1>6, <1>8 DEF EmailOfOtherSub
(* A request of the exchange that goes on to a step with a row, or none.   *)
<1>9. ASSUME NEW step, NEW l \in Local, pc[q] \in GoogleSteps \cup {"exchange"},
             GoogleUnchanged, Goto(q, step), loc' = [loc EXCEPT ![q] = l],
             l.flow = loc[q].flow, l.browser = loc[q].browser, l.link = loc[q].link,
             \/ step \in {"findByEmail", "insert"}
             \/ step \in {"linkSub", "rotate"} /\ email'[l.account] # NoEmail
      PROVE  Agree(q)'
  <2>1. l.link = NoLink
    BY <1>9 DEF Sound
  <2>2. l.flow # NoFlow => l.browser \in Browsers /\ begunBy[l.flow] = l.browser
    BY <1>9 DEF DataInv, AgreeInv, Agree
  <2>3. pc'[q] = step /\ loc'[q] = l /\ begunBy' = begunBy
    BY <1>9 DEF Goto, TypeInv, RequestsOK
  <2> QED
    BY <1>9, <2>1, <2>2, <2>3 DEF Agree, OpenSteps, TailSteps, Exists
<1>10. ASSUME NEW p \in Profiles, FindBySub(q, p) PROVE DataInv'
  <2> DEFINE a == AccountOf(BySub(p.sub))
             l == [loc[q] EXCEPT !.profile = p, !.account = a]
             step == IF BySub(p.sub) # {} THEN "rotate" ELSE "findByEmail"
  <2>1. a \in AccountIds \cup {NoAccount}
    BY AccountOfRows DEF BySub
  <2>2. BySub(p.sub) # {} => Exists(a)
    <3>1. ASSUME BySub(p.sub) # {} PROVE a \in AccountIds /\ googleSub[a] = p.sub
      BY <3>1, AccountOfRows DEF BySub
    <3>2. p.sub # NoSub
      BY <1>0, AccountsAssumption
    <3> HIDE DEF a
    <3> QED
      BY <3>1, <3>2 DEF DataInv, UniqueInv
  <2>3. Goto(q, step)
    BY <1>10 DEF FindBySub
  <2> HIDE DEF a
  <2>4. l \in Local /\ loc' = [loc EXCEPT ![q] = l]
    BY SMTT(15), ZenonT(30), <1>10, <2>1 DEF Local, FindBySub, a, TypeInv, RequestsOK
  <2>5. l.flow = loc[q].flow /\ l.browser = loc[q].browser /\ l.link = loc[q].link
        /\ l.account = a
    BY DEF Local
  <2> HIDE DEF l
  <2>6. email' = email
    BY <1>10 DEF FindBySub, accountVars
  <2>7. \/ step \in {"findByEmail", "insert"}
        \/ step \in {"linkSub", "rotate"} /\ email'[l.account] # NoEmail
    BY <2>2, <2>5, <2>6 DEF Exists
  <2> HIDE DEF step
  <2>8. Agree(q)'
    BY <1>9, <1>10, <2>3, <2>4, <2>5, <2>7 DEF FindBySub
  <2> QED
    BY <1>4, <1>10, <2>8 DEF FindBySub
<1>11. CASE FindByEmail(q)
  <2> DEFINE a == AccountOf(ByEmail(loc[q].profile.email))
             l == [loc[q] EXCEPT !.account = a]
             step == IF a = NoAccount THEN "insert"
                     ELSE IF googleSub[a] = loc[q].profile.sub THEN "rotate" ELSE "linkSub"
  <2>0. loc[q].profile \in Profiles
    BY <1>11, Needs DEF FindByEmail
  <2>1. a \in AccountIds \cup {NoAccount}
    BY AccountOfRows DEF ByEmail
  <2>2. a # NoAccount => Exists(a)
    <3>1. a # NoAccount => email[a] = loc[q].profile.email
      BY AccountOfRows DEF ByEmail
    <3>2. loc[q].profile.email # NoEmail
      BY <1>0, <2>0, AccountsAssumption
    <3> QED
      BY <3>1, <3>2 DEF Exists
  <2>3. Goto(q, step)
    BY <1>11 DEF FindByEmail
  <2> HIDE DEF a
  <2>4. l \in Local /\ loc' = [loc EXCEPT ![q] = l]
    BY SMTT(15), ZenonT(30), <1>11, <2>1 DEF Local, FindByEmail, a, TypeInv, RequestsOK
  <2>5. l.flow = loc[q].flow /\ l.browser = loc[q].browser /\ l.link = loc[q].link
        /\ l.account = a
    BY DEF Local
  <2> HIDE DEF l
  <2>6. email' = email
    BY <1>11 DEF FindByEmail, accountVars
  <2>7. \/ step \in {"findByEmail", "insert"}
        \/ step \in {"linkSub", "rotate"} /\ email'[l.account] # NoEmail
    <3>1. CASE a = NoAccount
      BY <3>1
    <3>2. CASE a # NoAccount
      BY <2>2, <2>5, <2>6, <3>2 DEF Exists
    <3> QED
      BY <3>1, <3>2
  <2> HIDE DEF step
  <2>8. Agree(q)'
    BY <1>9, <1>11, <2>3, <2>4, <2>5, <2>7 DEF FindByEmail, GoogleSteps
  <2> QED
    BY <1>4, <1>11, <2>8 DEF FindByEmail
<1>12. CASE LinkSub(q)
  <2>1. /\ loc[q].account \in AccountIds /\ loc[q].profile.sub \in Subs
        /\ Exists(loc[q].account)
    BY <1>0, <1>12, Needs DEF LinkSub, DataInv, AgreeInv, Agree
  <2>2. email' = email
    BY <1>12 DEF LinkSub, SetGoogleSub
  <2>3. loc' = [loc EXCEPT ![q] = loc[q]]
    BY <1>12 DEF LinkSub, TypeInv, RequestsOK
  <2>4. Agree(q)'
    BY <1>9, <1>12, <2>1, <2>2, <2>3 DEF LinkSub, Exists, GoogleSteps
  <2>5. UniqueInv'
    <3> DEFINE a == loc[q].account
               s == loc[q].profile.sub
    <3>1. /\ googleSub' = [googleSub EXCEPT ![a] = s]
          /\ \A b \in AccountIds : googleSub[b] = s => b = a
          /\ toggled' = toggled
      BY <1>12 DEF LinkSub, SetGoogleSub, BySub, auditVars
    <3> HIDE DEF a, s
    <3> QED
      BY <2>1, <2>2, <3>1, AccountsAssumption
         DEF a, s, DataInv, UniqueInv, Exists, TypeInv, AccountsTypeOK
  <2>6. FlowInv'
    BY <1>12 DEF LinkSub
  <2> QED
    BY <1>3, <1>12, <2>4, <2>5, <2>6 DEF LinkSub
<1>13. CASE InsertGoogle(q)
  <2>1. loc[q].profile.sub \in Subs /\ loc[q].profile.email \in Emails
    BY <1>0, <1>13, Needs DEF InsertGoogle
  <2>2. PICK a \in AccountIds :
          /\ InsertAccount(a, loc[q].profile.email, loc[q].profile.sub, FALSE)
          /\ loc' = [loc EXCEPT ![q].account = a]
    BY <1>13 DEF InsertGoogle
  <2>3. UniqueInv' /\ Exists(a)'
    BY SMTT(15), ZenonT(30), <1>13, <2>1, <2>2, InsertUnique DEF InsertGoogle, DataInv, auditVars
  <2> DEFINE l == [loc[q] EXCEPT !.account = a]
  <2>4. l \in Local /\ loc' = [loc EXCEPT ![q] = l]
    BY <2>2 DEF Local
  <2>5. l.flow = loc[q].flow /\ l.browser = loc[q].browser /\ l.link = loc[q].link
        /\ l.account = a
    BY DEF Local
  <2> HIDE DEF l
  <2>6. Agree(q)'
    BY <1>9, <1>13, <2>3, <2>4, <2>5 DEF InsertGoogle, GoogleSteps, Exists
  <2>7. FlowInv'
    BY <1>13 DEF InsertGoogle
  <2> QED
    BY <1>3, <1>13, <2>3, <2>6, <2>7 DEF InsertGoogle
<1>14. CASE UpsertRefused(q)
  BY <1>4, <1>14, DoneAgree DEF UpsertRefused
<1> QED
  BY <1>5, <1>7, <1>8, <1>10, <1>11, <1>12, <1>13, <1>14 DEF GoogleNext

(* The end of a sign-in. *)
LEMMA TailData ==
  ASSUME TypeInv, DataInv, NEW q \in Slots, TailNext(q)
  PROVE  DataInv'
<1>1. Grows
  BY TailGrows
<1> USE <1>1, Here, KeptData DEF TailUnchanged
<1>2. Agree(q) /\ pc \in [Slots -> Steps] /\ loc \in [Slots -> Local]
  BY DEF DataInv, AgreeInv, TypeInv, RequestsOK
<1>3. UniqueInv'
  <2>1. accountVars' = accountVars /\ toggled' = toggled
    BY DEF TailNext, DropPresented, OpenSession, AuditLogin, Respond, auditVars
  <2> QED
    BY <2>1 DEF DataInv, UniqueInv, accountVars, Exists
<1>4. LinkInv'
  BY DEF TailNext, DropPresented, OpenSession, AuditLogin, Respond, linkVars
<1>5. ASSUME FlowInv', SessionInv', Agree(q)' PROVE DataInv'
  BY <1>3, <1>4, <1>5, AgreeStep DEF DataInv
<1>6. /\ email' = email /\ linkEmail' = linkEmail /\ begunBy' = begunBy
  BY DEF TailNext, DropPresented, OpenSession, AuditLogin, Respond, linkVars, accountVars
<1>7. CASE DropPresented(q)
  <2>1. SessionInv'
    <3>1. \A s \in SessionIds : phase[s] # "unused" <=> phase'[s] # "unused"
      BY <1>7 DEF DropPresented, InvalidateSession
    <3> QED
      BY <1>6, <1>7, <3>1
         DEF DropPresented, InvalidateSession, DataInv, SessionInv, proofVars, Exists
  <2>2. pc'[q] = "create" /\ loc'[q] = loc[q]
    BY <1>2, <1>7 DEF DropPresented, Goto
  <2>3. Agree(q)'
    BY <1>2, <1>6, <1>7, <2>2 DEF DropPresented, Agree, OpenSteps, TailSteps, Exists
  <2> QED
    BY <1>5, <1>7, <2>1, <2>3 DEF DropPresented
<1>8. CASE OpenSession(q)
  <2>1. PICK s \in SessionIds :
          /\ phase[s] = "unused" /\ phase' = [phase EXCEPT ![s] = "open"]
          /\ owner' = [owner EXCEPT ![s] = loc[q].account]
          /\ loc' = [loc EXCEPT ![q].opened = s]
          /\ byLink' = [byLink EXCEPT ![s] = loc[q].link]
          /\ byProfile' = [byProfile EXCEPT ![s] = loc[q].profile]
    BY <1>8 DEF OpenSession, CreateSession, NextSession
  <2>2. loc[q].account \in AccountIds /\ Exists(loc[q].account)
    BY <1>2, <1>8, Needs DEF OpenSession, Agree, TailSteps
  <2>3. phase'[s] = "open" /\ owner'[s] = loc[q].account
    BY <2>1 DEF TypeInv, SessionsOK, SessionsTypeOK
  <2>4. SessionInv'
    <3>1. given' = given
      BY <1>8 DEF OpenSession
    <3>2. ASSUME NEW r \in SessionIds, r # s
          PROVE  phase'[r] = phase[r] /\ owner'[r] = owner[r] /\ byLink'[r] = byLink[r]
                 /\ byProfile'[r] = byProfile[r]
      BY <2>1, <3>2 DEF TypeInv, SessionsOK, SessionsTypeOK, ProofsOK
    <3>3. byLink'[s] = loc[q].link
      BY <2>1 DEF TypeInv, ProofsOK
    <3>4. loc[q].link # NoLink =>
            linkEmail[loc[q].link] # NoEmail /\ email[loc[q].account] = linkEmail[loc[q].link]
      BY <1>2, <1>8 DEF OpenSession, Agree, TailSteps
    <3> QED
      BY <1>6, <2>2, <2>3, <3>1, <3>2, <3>3, <3>4 DEF DataInv, SessionInv, Exists
  <2>5. /\ pc'[q] = "auditLogin" /\ loc'[q].opened = s /\ loc'[q].account = loc[q].account
        /\ loc'[q].link = loc[q].link /\ loc'[q].flow = loc[q].flow
        /\ loc'[q].browser = loc[q].browser
    BY <1>2, <1>8, <2>1 DEF OpenSession, Goto, Local
  <2>6. Agree(q)'
    BY <1>2, <1>6, <1>8, <2>2, <2>3, <2>5
       DEF OpenSession, Agree, OpenSteps, TailSteps, Exists
  <2> QED
    BY <1>5, <1>8, <2>4, <2>6 DEF OpenSession
<1>9. CASE AuditLogin(q)
  <2>1. pc'[q] = "respond" /\ loc'[q] = loc[q] /\ phase' = phase /\ owner' = owner
    BY <1>2, <1>9 DEF AuditLogin, Goto, sessionVars
  <2>2. Agree(q)'
    BY <1>2, <1>6, <1>9, <2>1 DEF AuditLogin, Agree, OpenSteps, TailSteps, Exists
  <2> QED
    BY <1>5, <1>9, <2>2 DEF AuditLogin
<1>10. CASE Respond(q)
  <2>1. SessionInv'
    <3>1. phase[loc[q].opened] # "unused"
      BY <1>2, <1>10 DEF Respond, Agree
    <3> QED
      BY <1>6, <1>10, <3>1 DEF Respond, DataInv, SessionInv, sessionVars, proofVars, Exists
  <2>2. FlowInv'
    BY <1>10, <1>6 DEF Respond, DataInv, FlowInv, TypeInv, BrowsersOK
  <2> QED
    BY <1>5, <1>10, <2>1, <2>2, DoneAgree DEF Respond
<1> QED
  BY <1>7, <1>8, <1>9, <1>10 DEF TailNext

(* Authenticated calls, the toggle of the operator and signing out. *)
LEMMA CallData ==
  ASSUME TypeInv, DataInv, NEW q \in Slots, CallNext(q)
  PROVE  DataInv'
<1>1. Grows
  BY CallGrows
<1> USE <1>1, Here, KeptData DEF CallUnchanged
<1>2. Agree(q) /\ pc \in [Slots -> Steps] /\ loc \in [Slots -> Local]
  BY DEF DataInv, AgreeInv, TypeInv, RequestsOK
<1>3. LinkInv'
  BY DEF CallNext, Call, ExpireSession, Touch, LoadUser, SessionGone, HandleCall,
         ToggleUnlimited, AuditToggle, Logout, SignedOut, linkVars
<1>4. FlowInv'
  BY DEF CallNext, Call, ExpireSession, Touch, LoadUser, SessionGone, HandleCall,
         ToggleUnlimited, AuditToggle, Logout, SignedOut, browserVars
<1>5. ASSUME UniqueInv', SessionInv', Agree(q)' PROVE DataInv'
  BY <1>3, <1>4, <1>5, AgreeStep DEF DataInv
<1>6. ASSUME UNCHANGED <<email, googleSub, toggled>> PROVE UniqueInv'
  BY <1>6 DEF DataInv, UniqueInv, Exists
<1>7. ASSUME CallUnchanged, \A s \in SessionIds : phase[s] # "unused" <=> phase'[s] # "unused",
             owner' = owner
      PROVE  SessionInv'
  BY <1>7 DEF DataInv, SessionInv, proofVars, browserVars, linkVars, Exists
<1>8. ASSUME NEW s, InvalidateSession(s)
      PROVE  (\A r \in SessionIds : phase[r] # "unused" <=> phase'[r] # "unused") /\ owner' = owner
  BY <1>8 DEF InvalidateSession
<1>9. CallUnchanged /\ UNCHANGED sessionVars => SessionInv'
  BY DEF browserVars
<1>10. ASSUME CallUnchanged
       PROVE  loc[q].flow # NoFlow =>
                loc[q].browser \in Browsers /\ begunBy'[loc[q].flow] = loc[q].browser
  BY <1>2, <1>10 DEF Agree, browserVars
<1>11. ASSUME NEW b \in scenario.browsers, Call(q, b) PROVE DataInv'
  <2> DEFINE step == IF Expired(cookie[b], clock) THEN "expire" ELSE "touch"
  <2>1. b \in Browsers /\ cookie[b] \in SessionIds /\ phase[cookie[b]] = "open"
    BY <1>11 DEF Call
  <2>2. step = "touch" => clock < absoluteExpires[cookie[b]]
    <3>1. clock \in Nat /\ absoluteExpires[cookie[b]] \in Nat
      BY <2>1 DEF TypeInv, ClockOK, SessionsOK, SessionsTypeOK
    <3> QED
      BY <3>1 DEF Expired
  <2>3. step \in {"expire", "touch"}
    OBVIOUS
  <2>4. Goto(q, step)
    BY <1>11 DEF Call
  <2> HIDE DEF step
  <2>5. /\ pc'[q] = step /\ loc'[q].flow = NoFlow /\ loc'[q].presented = cookie[b]
        /\ loc'[q].now = clock
    BY <1>2, <1>11, <2>4 DEF Call, Goto, NoLocal
  <2>6. phase' = phase /\ absoluteExpires' = absoluteExpires
    BY <1>11 DEF Call, sessionVars
  <2>7. Agree(q)'
    <3>1. CASE step = "expire"
      BY <2>1, <2>5, <2>6, <3>1 DEF Agree, OpenSteps, TailSteps
    <3>2. CASE step = "touch"
      BY <2>1, <2>2, <2>5, <2>6, <3>2 DEF Agree, OpenSteps, TailSteps
    <3> QED
      BY <2>3, <3>1, <3>2
  <2> QED
    BY <1>5, <1>6, <1>9, <1>11, <2>7 DEF Call
<1>12. CASE ExpireSession(q)
  BY <1>5, <1>6, <1>7, <1>8, <1>12, DoneAgree DEF ExpireSession
<1>13. CASE Touch(q)
  <2>1. pc'[q] = "load" /\ loc'[q] = loc[q] /\ phase' = phase /\ owner' = owner
    BY <1>2, <1>13 DEF Touch, Goto, RefreshSession
  <2>2. phase[loc[q].presented] # "unused"
    BY <1>2, <1>13 DEF Touch, Agree
  <2>3. Agree(q)'
    BY <1>13, <1>10, <2>1, <2>2 DEF Touch, Agree, OpenSteps, TailSteps
  <2> QED
    BY <1>5, <1>6, <1>7, <1>13, <2>1, <2>3 DEF Touch
<1>14. CASE LoadUser(q)
  <2>1. pc'[q] = "handle" /\ loc'[q].flow = loc[q].flow /\ loc'[q].browser = loc[q].browser
    BY <1>2, <1>14 DEF LoadUser, Goto, Local
  <2>2. Agree(q)'
    BY <1>14, <1>10, <2>1 DEF LoadUser, Agree, OpenSteps, TailSteps
  <2> QED
    BY <1>5, <1>6, <1>9, <1>14, <2>2 DEF LoadUser
<1>15. CASE SessionGone(q)
  BY <1>5, <1>6, <1>9, <1>15, DoneAgree DEF SessionGone
<1>16. CASE HandleCall(q)
  BY <1>5, <1>6, <1>9, <1>16, DoneAgree DEF HandleCall
<1>17. ASSUME NEW a \in AccountIds, NEW f \in BOOLEAN, ToggleUnlimited(q, a, f)
       PROVE  DataInv'
  <2>1. /\ pc'[q] = "auditToggle" /\ loc'[q].account = a /\ loc'[q].flow = loc[q].flow
        /\ loc'[q].browser = loc[q].browser /\ Exists(a) /\ email' = email
    BY <1>2, <1>17 DEF ToggleUnlimited, Goto, Local, SetUnlimited
  <2>2. Agree(q)'
    BY <1>17, <1>10, <2>1 DEF ToggleUnlimited, Agree, OpenSteps, TailSteps, Exists
  <2>3. UniqueInv' /\ SessionInv'
    BY <1>6, <1>9, <1>17 DEF ToggleUnlimited, SetUnlimited
  <2> QED
    BY <1>5, <2>2, <2>3
<1>18. CASE AuditToggle(q)
  <2>1. Exists(loc[q].account) /\ loc[q].account \in AccountIds
    BY <1>2, <1>18, Needs DEF AuditToggle, Agree
  <2>2. UniqueInv'
    BY <1>18, <2>1 DEF AuditToggle, DataInv, UniqueInv, Exists, TypeInv, AuditOK
  <2> QED
    BY <1>5, <1>9, <1>18, <2>2, DoneAgree DEF AuditToggle
<1>19. ASSUME NEW b \in scenario.browsers, Logout(q, b) PROVE DataInv'
  <2>1. pc'[q] = "signedOut" /\ loc'[q].flow = NoFlow
    BY <1>2, <1>19 DEF Logout, Goto, NoLocal
  <2>2. Agree(q)'
    BY <2>1 DEF Agree, OpenSteps, TailSteps
  <2> QED
    BY <1>5, <1>6, <1>7, <1>8, <1>19, <2>2 DEF Logout
<1>20. CASE SignedOut(q)
  <2>1. UniqueInv' /\ SessionInv'
    BY <1>20 DEF SignedOut
  <2> QED
    BY <1>5, <1>20, <2>1, DoneAgree DEF SignedOut
<1> QED
  BY <1>11, <1>12, <1>13, <1>14, <1>15, <1>16, <1>17, <1>18, <1>19, <1>20 DEF CallNext

(* The seed script. *)
LEMMA SeedData ==
  ASSUME TypeInv, DataInv, NEW q \in Slots, SeedNext(q)
  PROVE  DataInv'
<1>1. Grows
  BY SeedGrows
<1> USE <1>1, Here, KeptData DEF SeedUnchanged
<1>2. LinkInv' /\ FlowInv' /\ SessionInv'
  BY DEF SeedNext, Seed, SeedAdmin, SeedRefused, linkVars, browserVars
<1>3. ASSUME UniqueInv', Agree(q)' PROVE DataInv'
  BY <1>2, <1>3, AgreeStep DEF DataInv
<1>4. ASSUME NEW e \in scenario.addresses, Seed(q, e) PROVE DataInv'
  <2>1. pc'[q] = "seed" /\ loc'[q].flow = NoFlow
    BY <1>4 DEF Seed, Goto, NoLocal, TypeInv, RequestsOK
  <2>2. Agree(q)'
    BY <1>4, <2>1 DEF Agree, OpenSteps, TailSteps, Seed, Arrive
  <2> QED
    BY <1>3, <1>4, <2>2 DEF Seed
<1>5. CASE SeedAdmin(q)
  <2>1. UniqueInv'
    <3>1. CASE loc[q].account # NoAccount
      BY <1>5, <3>1 DEF SeedAdmin, PromoteAccount, DataInv, UniqueInv, Exists, auditVars
    <3>2. CASE loc[q].account = NoAccount
      <4>1. loc[q].address \in Emails
        BY <1>5, Needs DEF SeedAdmin
      <4> QED
        BY <1>5, <3>2, <4>1, InsertUnique DEF SeedAdmin, DataInv, auditVars
    <3> QED
      BY <3>1, <3>2
  <2> QED
    BY <1>3, <1>5, <2>1, DoneAgree DEF SeedAdmin
<1>6. CASE SeedRefused(q)
  BY <1>3, <1>6, DoneAgree DEF SeedRefused
<1> QED
  BY <1>4, <1>5, <1>6 DEF SeedNext

(* Every step only adds to the tables. *)
LEMMA NextGrows == TypeInv /\ [Next]_vars => Grows
<1> SUFFICES ASSUME TypeInv, [Next]_vars PROVE Grows
  OBVIOUS
<1> USE KeptGrows
<1>1. ASSUME NEW q \in Slots, Abort(q) PROVE Grows
  BY <1>1 DEF Abort, Grows
<1>2. ASSUME NEW b \in scenario.browsers, NEW f \in Flows, GoogleLogin(b, f) PROVE Grows
  <2>1. FlowsGrow
    BY <1>2 DEF GoogleLogin, FlowsGrow, TypeInv, BrowsersOK
  <2> QED
    BY <1>2, <2>1 DEF GoogleLogin, Grows
<1>3. ASSUME NEW b \in scenario.browsers, NEW f \in Flows, CallbackRefused(b, f) PROVE Grows
  BY <1>3 DEF CallbackRefused, GoogleUnchanged, Grows
<1>4. CASE Tick
  BY <1>4 DEF Tick, Grows
<1>5. CASE UNCHANGED vars
  BY <1>5 DEF vars, Grows
<1> QED
  BY <1>1, <1>2, <1>3, <1>4, <1>5, AskGrows, LinkGrows, GoogleGrows, TailGrows, CallGrows,
     SeedGrows DEF Next

(* Every step keeps requests and rows consistent. *)
LEMMA NextDataInv == TypeInv /\ DataInv /\ [Next]_vars => DataInv'
<1> SUFFICES ASSUME TypeInv, DataInv, [Next]_vars PROVE DataInv'
  OBVIOUS
<1>0. Grows
  BY NextGrows
<1> USE <1>0, KeptData
<1>1. ASSUME NEW q \in Slots, Abort(q) PROVE DataInv'
  <2>1. AgreeInv'
    BY <1>1, DoneAgree, AgreeStep DEF Abort, DataInv
  <2> QED
    BY <1>1, <2>1 DEF Abort, DataInv, linkVars, browserVars
<1>2. ASSUME UNCHANGED <<pc, loc>> PROVE AgreeInv'
  BY <1>2, AgreeStays DEF AgreeInv, DataInv
<1>3. ASSUME NEW b \in scenario.browsers, NEW f \in Flows, GoogleLogin(b, f) PROVE DataInv'
  <2>1. b \in Browsers
    BY SignInAssumption DEF TypeInv, ClockOK, ScenarioType
  <2>2. FlowInv'
    <3>1. /\ begunBy' = [begunBy EXCEPT ![f] = b] /\ begunBy[f] = NoBrowser
          /\ oauthState' = [oauthState EXCEPT ![b] = f]
      BY <1>3 DEF GoogleLogin
    <3> QED
      BY <2>1, <3>1, SignInAssumption DEF DataInv, FlowInv, TypeInv, BrowsersOK
  <2>3. UniqueInv' /\ LinkInv' /\ SessionInv'
    BY <1>3 DEF GoogleLogin, linkVars
  <2> QED
    BY <1>2, <1>3, <2>2, <2>3 DEF GoogleLogin, DataInv
<1>4. ASSUME NEW b \in scenario.browsers, NEW f \in Flows, CallbackRefused(b, f)
      PROVE  DataInv'
  <2>1. FlowInv'
    BY <1>4 DEF CallbackRefused, GoogleUnchanged, DataInv, FlowInv, TypeInv, BrowsersOK
  <2>2. UniqueInv' /\ LinkInv' /\ SessionInv'
    BY <1>4 DEF CallbackRefused, GoogleUnchanged, linkVars
  <2> QED
    BY <1>2, <1>4, <2>1, <2>2 DEF CallbackRefused, DataInv
<1>5. CASE Tick
  BY <1>2, <1>5 DEF Tick, DataInv, linkVars, browserVars
<1>6. CASE UNCHANGED vars
  BY <1>2, <1>6 DEF vars, DataInv, linkVars, browserVars
<1> QED
  BY <1>1, <1>3, <1>4, <1>5, <1>6, AskData, LinkData, GoogleData, TailData, CallData,
     SeedData DEF Next

(* Requests and rows are consistent at the start. *)
LEMMA InitDataInv == Init => DataInv
<1> SUFFICES ASSUME Init PROVE DataInv
  OBVIOUS
<1> USE First, SignInAssumption, AccountsAssumption DEF Init
<1>1. UniqueInv
  BY DEF UniqueInv, Exists, Seeded
<1>2. LinkInv
  BY DEF LinkInv
<1>3. SessionInv
  BY DEF SessionInv, Exists, Seeded, SignedIn
<1>4. FlowInv
  BY DEF FlowInv
<1>5. AgreeInv
  BY DEF AgreeInv, Agree, NoLocal, OpenSteps, TailSteps
<1> QED
  BY <1>1, <1>2, <1>3, <1>4, <1>5 DEF DataInv

(* Requests and rows are consistent in every reachable state. *)
LEMMA DataInvariant == Spec => [](TypeInv /\ DataInv)
BY InitTypeInv, InitDataInv, NextTypeInv, NextDataInv, PTL DEF Spec

(* A session opened by a link belongs to the account of the address the    *)
(* link was mailed to, for any number of requests, replicas and scripts    *)
(* inserting and linking accounts meanwhile.                               *)
THEOREM LinkOpensItsOwnersSession == Spec => []SessionOfLinkOwner
<1>1. DataInv => SessionOfLinkOwner
  BY DEF DataInv, SessionInv, SessionOfLinkOwner
<1> QED
  BY <1>1, DataInvariant, PTL

(* No two accounts share an address or a Google subject, and a used link   *)
(* has its account.                                                        *)
THEOREM IdentitiesUnique == Spec => []OneAccountPerIdentity
<1>1. DataInv => OneAccountPerIdentity
  BY DEF DataInv, UniqueInv, LinkInv, OneAccountPerIdentity, ByEmail
<1> QED
  BY <1>1, DataInvariant, PTL

(* A Google callback goes on only in the browser that began the sign-in.   *)
THEOREM CallbackKeepsToItsBrowser == Spec => []CallbackFromOwnBrowser
<1>1. DataInv => CallbackFromOwnBrowser
  BY DEF DataInv, AgreeInv, Agree, CallbackFromOwnBrowser
<1> QED
  BY <1>1, DataInvariant, PTL

-----------------------------------------------------------------------------
(* Sessions implements SessionLifetime.                                    *)

(* A delete of a row closes one session or none. *)
LEMMA InvalidateCloses ==
  ASSUME TypeInv, NEW s, InvalidateSession(s)
  PROVE  Lifetime!LifetimeNext \/ UNCHANGED Lifetime!lifetimeVars
<1> USE DEF TypeInv, SessionsOK, SessionsTypeOK, Lifetime!lifetimeVars
<1>1. CASE s \in SessionIds /\ phase[s] = "open"
  BY <1>1 DEF InvalidateSession, Lifetime!LifetimeNext, Lifetime!Close
<1>2. CASE ~(s \in SessionIds /\ phase[s] = "open")
  <2>1. phase' = phase
    BY <1>2 DEF InvalidateSession
  <2> QED
    BY <2>1 DEF InvalidateSession
<1> QED
  BY <1>1, <1>2

(* Every step of the requests is a step of the sessions' life or none. *)
LEMMA StepLifetime ==
  ASSUME TypeInv, DataInv, [Next]_vars
  PROVE  Lifetime!LifetimeNext \/ UNCHANGED Lifetime!lifetimeVars
<1> USE Here
<1>1. ASSUME UNCHANGED sessionVars PROVE UNCHANGED Lifetime!lifetimeVars
  BY <1>1 DEF sessionVars, Lifetime!lifetimeVars
<1>2. ASSUME NEW q \in Slots,
             AskNext(q) \/ LinkNext(q) \/ GoogleNext(q) \/ SeedNext(q) \/ Abort(q)
      PROVE  UNCHANGED sessionVars
  BY <1>2 DEF AskNext, AskLink, CountIp, IssueLink, MailLink, AskUnchanged,
              LinkNext, OpenLink, FindByLink, BurnLink, BurnRefused,
              GoogleNext, Callback, ExchangeFails, Refuse, FindBySub, FindByEmail,
              EmailOfOtherSub, LinkSub, InsertGoogle, UpsertRefused, GoogleUnchanged,
              SeedNext, Seed, SeedAdmin, SeedRefused, SeedUnchanged, Abort
<1>3. ASSUME NEW q \in Slots, TailNext(q)
      PROVE  Lifetime!LifetimeNext \/ UNCHANGED Lifetime!lifetimeVars
  <2>1. CASE DropPresented(q)
    BY <2>1, InvalidateCloses DEF DropPresented
  <2>2. CASE OpenSession(q)
    <3>1. loc[q].account \in AccountIds /\ clock \in 0..MaxClock
      BY <2>2, Needs DEF OpenSession, TypeInv, ClockOK
    <3>2. PICK s \in SessionIds : CreateSession(s, loc[q].account, clock)
      BY <2>2 DEF OpenSession
    <3>3. Lifetime!Open(s, loc[q].account, clock)
      BY <3>2 DEF CreateSession, NextSession, Lifetime!Open
    <3> QED
      BY <3>1, <3>3 DEF Lifetime!LifetimeNext
  <2>3. CASE AuditLogin(q) \/ Respond(q)
    BY <1>1, <2>3 DEF AuditLogin, Respond
  <2> QED
    BY <1>3, <2>1, <2>2, <2>3 DEF TailNext
<1>4. ASSUME NEW q \in Slots, CallNext(q)
      PROVE  Lifetime!LifetimeNext \/ UNCHANGED Lifetime!lifetimeVars
  <2>1. CASE ExpireSession(q) \/ \E b \in scenario.browsers : Logout(q, b)
    BY <2>1, InvalidateCloses DEF ExpireSession, Logout
  <2>2. CASE Touch(q)
    <3> DEFINE s == loc[q].presented
               t == loc[q].now
    <3>1. s \in SessionIds /\ t \in 0..MaxClock
      BY <2>2, Needs DEF Touch, Sound
    <3>2. t < absoluteExpires[s] /\ RefreshSession(s, t)
      BY <2>2 DEF Touch, DataInv, AgreeInv, Agree
    <3>3. Lifetime!Use(s, t)
      BY <3>2 DEF RefreshSession, RefreshedIdle, Lifetime!Use, Lifetime!Least
    <3> HIDE DEF s, t
    <3> QED
      BY <3>1, <3>3 DEF Lifetime!LifetimeNext
  <2>3. CASE \/ \E b \in scenario.browsers : Call(q, b)
             \/ LoadUser(q)
             \/ SessionGone(q)
             \/ HandleCall(q)
             \/ \E a \in AccountIds, f \in BOOLEAN : ToggleUnlimited(q, a, f)
             \/ AuditToggle(q)
             \/ SignedOut(q)
    BY <1>1, <2>3 DEF Call, LoadUser, SessionGone, HandleCall, ToggleUnlimited, AuditToggle,
                      SignedOut
  <2> QED
    BY <1>4, <2>1, <2>2, <2>3 DEF CallNext
<1>5. CASE \/ \E b \in scenario.browsers, f \in Flows : GoogleLogin(b, f) \/ CallbackRefused(b, f)
           \/ Tick
           \/ UNCHANGED vars
  BY <1>1, <1>5 DEF GoogleLogin, CallbackRefused, GoogleUnchanged, Tick, vars
<1> QED
  BY <1>1, <1>2, <1>3, <1>4, <1>5 DEF Next

(* The first sessions are unused, or the operator's. *)
LEMMA InitLifetime == Init => Lifetime!LifetimeInit
<1> SUFFICES ASSUME Init PROVE Lifetime!LifetimeInit
  OBVIOUS
<1> QED
  BY First, SessionsAssumption DEF Init, SignedIn, Lifetime!LifetimeInit

(* A session is opened once and for one account, used only before its      *)
(* absolute expiry, which never moves, and never again once it is closed:  *)
(* the requests of the sign-in implement SessionLifetime.                  *)
THEOREM SessionsKeepTheirPromise == Spec => ImplementsSessionLifetime
<1>1. TypeInv /\ DataInv /\ [Next]_vars => [Lifetime!LifetimeNext]_(Lifetime!lifetimeVars)
  BY StepLifetime
<1> QED
  BY <1>1, InitLifetime, DataInvariant, PTL
     DEF Spec, ImplementsSessionLifetime, Lifetime!LifetimeSpec

-----------------------------------------------------------------------------
(* What the promise comes to for a cookie that is kept or stolen.          *)

(* A session dies a day after its last use and a week after the sign-in:   *)
(* however its refreshes interleave, the idle expiry is the one that the   *)
(* last written use deserves, lies after that use and never passes the     *)
(* absolute expiry.                                                        *)
ExpiryMatchesUse ==
  \A s \in SessionIds : phase[s] # "unused" =>
    /\ lastSeen[s] < idleExpires[s]
    /\ idleExpires[s] <= absoluteExpires[s]
    /\ idleExpires[s] = Lifetime!Least(lastSeen[s] + IdleTimeout, absoluteExpires[s])

(* A row that is deleted by sign-out, rotation or expiry is never written  *)
(* again, not even by a refresh that had read it before, and a session     *)
(* changes neither its account nor its absolute expiry.                    *)
ClosedIsClosed ==
  [][\A s \in SessionIds :
       /\ phase[s] = "closed" =>
            /\ phase'[s] = "closed"
            /\ lastSeen'[s] = lastSeen[s]
            /\ idleExpires'[s] = idleExpires[s]
       /\ phase[s] # "unused" =>
            /\ owner'[s] = owner[s]
            /\ absoluteExpires'[s] = absoluteExpires[s]]_vars

(* A step of the promise keeps the expiry in line with the use. *)
LEMMA StepExpiry ==
  ASSUME TypeInv, TypeInv', ExpiryMatchesUse,
         Lifetime!LifetimeNext \/ UNCHANGED Lifetime!lifetimeVars
  PROVE  ExpiryMatchesUse'
<1> USE SessionsAssumption
    DEF TypeInv, SessionsOK, SessionsTypeOK, ExpiryMatchesUse, Lifetime!Least
<1>1. CASE UNCHANGED Lifetime!lifetimeVars
  BY <1>1 DEF Lifetime!lifetimeVars
<1>2. ASSUME NEW s \in SessionIds, NEW a, NEW t \in Nat, Lifetime!Open(s, a, t)
      PROVE  ExpiryMatchesUse'
  BY <1>2 DEF Lifetime!Open
<1>3. ASSUME NEW s \in SessionIds, NEW t \in Nat, Lifetime!Use(s, t)
      PROVE  ExpiryMatchesUse'
  BY <1>3 DEF Lifetime!Use
<1>4. ASSUME NEW s \in SessionIds, Lifetime!Close(s) PROVE ExpiryMatchesUse'
  BY <1>4 DEF Lifetime!Close
<1>5. \A t \in 0..MaxClock : t \in Nat
  OBVIOUS
<1> QED
  BY <1>1, <1>2, <1>3, <1>4, <1>5 DEF Lifetime!LifetimeNext

(* The two halves of what SessionService checks stay consistent: whoever   *)
(* refreshes last, a row never promises more than IdleTimeout after the    *)
(* use it records, nor anything past its absolute expiry.                  *)
THEOREM ExpiryMatchesUseHolds == Spec => []ExpiryMatchesUse
<1>1. Init => ExpiryMatchesUse
  <2> SUFFICES ASSUME Init PROVE ExpiryMatchesUse
    OBVIOUS
  <2>1. TypeInv
    BY InitTypeInv
  <2>2. Lifetime!LifetimeInit
    BY InitLifetime
  <2> QED
    BY <2>1, <2>2, SessionsAssumption
    DEF TypeInv, SessionsOK, SessionsTypeOK, Lifetime!LifetimeInit, Lifetime!Least,
        ExpiryMatchesUse
<1>2. TypeInv /\ TypeInv' /\ DataInv /\ ExpiryMatchesUse /\ [Next]_vars
      => ExpiryMatchesUse'
  BY StepLifetime, StepExpiry
<1> QED
  BY <1>1, <1>2, DataInvariant, PTL DEF Spec

(* Logging out is final, also next to a request of the same session that   *)
(* is about to refresh it.                                                 *)
THEOREM ClosedIsClosedHolds == Spec => ClosedIsClosed
<1> DEFINE A == \A s \in SessionIds :
                  /\ phase[s] = "closed" =>
                       /\ phase'[s] = "closed"
                       /\ lastSeen'[s] = lastSeen[s]
                       /\ idleExpires'[s] = idleExpires[s]
                  /\ phase[s] # "unused" =>
                       /\ owner'[s] = owner[s]
                       /\ absoluteExpires'[s] = absoluteExpires[s]
<1>1. TypeInv /\ DataInv /\ [Next]_vars => A
  <2> SUFFICES ASSUME TypeInv, DataInv, [Next]_vars PROVE A
    OBVIOUS
  <2> USE DEF TypeInv, SessionsOK, SessionsTypeOK
  <2>1. Lifetime!LifetimeNext \/ UNCHANGED Lifetime!lifetimeVars
    BY StepLifetime
  <2>2. CASE UNCHANGED Lifetime!lifetimeVars
    BY <2>2 DEF Lifetime!lifetimeVars
  <2>3. ASSUME NEW s \in SessionIds, NEW a, NEW t, Lifetime!Open(s, a, t) PROVE A
    BY <2>3 DEF Lifetime!Open
  <2>4. ASSUME NEW s \in SessionIds, NEW t, Lifetime!Use(s, t) PROVE A
    BY <2>4 DEF Lifetime!Use
  <2>5. ASSUME NEW s \in SessionIds, Lifetime!Close(s) PROVE A
    BY <2>5 DEF Lifetime!Close
  <2> QED
    BY <2>1, <2>2, <2>3, <2>4, <2>5 DEF Lifetime!LifetimeNext
<1> QED
  BY <1>1, DataInvariant, PTL DEF Spec, ClosedIsClosed

-----------------------------------------------------------------------------
(* Counting: sessions handed to browsers, links sent.                      *)

(* A subset of a finite set is no larger; one element makes a difference of one. *)
LEMMA Counts ==
  ASSUME NEW U, IsFiniteSet(U), NEW S \in SUBSET U, NEW T \in SUBSET U, NEW x
  PROVE  /\ Cardinality(S) \in Nat
         /\ T \subseteq S => Cardinality(T) <= Cardinality(S)
         /\ T \subseteq S \cup {x} => Cardinality(T) <= Cardinality(S) + 1
         /\ x \in S /\ T \subseteq S \ {x} => Cardinality(T) <= Cardinality(S) - 1
<1>1. IsFiniteSet(S) /\ IsFiniteSet(T)
  BY FS_Subset
<1>2. Cardinality(S) \in Nat /\ Cardinality(T) \in Nat
  BY <1>1, FS_CardinalityType
<1>3. T \subseteq S => Cardinality(T) <= Cardinality(S)
  BY <1>1, FS_Subset
<1>4. ASSUME T \subseteq S \cup {x} PROVE Cardinality(T) <= Cardinality(S) + 1
  <2>1. /\ IsFiniteSet(S \cup {x})
        /\ Cardinality(S \cup {x}) = IF x \in S THEN Cardinality(S) ELSE Cardinality(S) + 1
    BY <1>1, FS_AddElement
  <2>2. Cardinality(T) <= Cardinality(S \cup {x})
    BY <1>4, <2>1, FS_Subset
  <2>3. Cardinality(S \cup {x}) <= Cardinality(S) + 1
    BY <1>2, <2>1
  <2>4. Cardinality(S \cup {x}) \in Nat
    BY <2>1, FS_CardinalityType
  <2> QED
    BY <1>2, <2>2, <2>3, <2>4
<1>5. ASSUME x \in S, T \subseteq S \ {x} PROVE Cardinality(T) <= Cardinality(S) - 1
  <2>1. IsFiniteSet(S \ {x}) /\ Cardinality(S \ {x}) = Cardinality(S) - 1
    BY <1>1, <1>5, FS_RemoveElement
  <2>2. Cardinality(T) <= Cardinality(S \ {x})
    BY <1>5, <2>1, FS_Subset
  <2> QED
    BY <2>1, <2>2
<1> QED
  BY <1>2, <1>3, <1>4, <1>5

(* Sessions of an account that a browser has or is being sent.             *)
Delivered(a) ==
  {s \in SessionIds :
     /\ owner[s] = a
     /\ s \in given \/ \E q \in Slots : pc[q] = "respond" /\ loc[q].opened = s}

CookieInv == \A a \in AccountIds : Cardinality(Delivered(a)) <= logins[a]

(* No session is delivered by a step other than the audit of a sign-in. *)
LEMMA NoneDelivered ==
  ASSUME TypeInv, DataInv, Grows, CookieInv, logins' = logins,
         \A p \in Slots : pc'[p] = "respond" => pc[p] = "respond" /\ loc'[p] = loc[p],
         \A s \in given' : s \in given \/ \E p \in Slots : pc[p] = "respond" /\ loc[p].opened = s
  PROVE  CookieInv'
<1> SUFFICES ASSUME NEW a \in AccountIds PROVE Cardinality(Delivered(a)') <= logins[a]
  BY DEF CookieInv
<1>1. Delivered(a)' \subseteq Delivered(a)
  <2> SUFFICES ASSUME NEW s \in Delivered(a)' PROVE s \in Delivered(a)
    OBVIOUS
  <2>1. s \in SessionIds /\ owner'[s] = a
    BY DEF Delivered
  <2>2. s \in given \/ \E p \in Slots : pc[p] = "respond" /\ loc[p].opened = s
    <3>1. CASE s \in given'
      BY <3>1
    <3>2. CASE \E p \in Slots : pc'[p] = "respond" /\ loc'[p].opened = s
      BY <3>2
    <3> QED
      BY <3>1, <3>2 DEF Delivered
  <2>3. phase[s] # "unused"
    BY <2>1, <2>2 DEF DataInv, SessionInv, AgreeInv, Agree
  <2>4. owner[s] = a
    BY <2>1, <2>3 DEF Grows, SessionsGrow
  <2> QED
    BY <2>1, <2>2, <2>4 DEF Delivered
<1>2. Delivered(a) \in SUBSET SessionIds /\ Delivered(a)' \in SUBSET SessionIds
  BY DEF Delivered
<1>3. Cardinality(Delivered(a)') <= Cardinality(Delivered(a))
      /\ Cardinality(Delivered(a)) \in Nat /\ Cardinality(Delivered(a)') \in Nat
  BY <1>1, <1>2, Counts, SignInAssumption
<1>4. Cardinality(Delivered(a)) <= logins[a] /\ logins[a] \in Nat
  BY DEF CookieInv, TypeInv, AuditOK
<1> QED
  BY <1>3, <1>4

(* Every sign-in is audited before its cookie leaves. *)
LEMMA NextCookieInv == TypeInv /\ DataInv /\ CookieInv /\ [Next]_vars => CookieInv'
<1> SUFFICES ASSUME TypeInv, DataInv, CookieInv, [Next]_vars PROVE CookieInv'
  OBVIOUS
<1>1. Grows /\ pc \in [Slots -> Steps] /\ loc \in [Slots -> Local]
  BY NextGrows DEF TypeInv, RequestsOK
<1>2. ASSUME NEW q \in Slots,
             AskNext(q) \/ LinkNext(q) \/ GoogleNext(q) \/ TailNext(q) \/ CallNext(q)
               \/ SeedNext(q) \/ Abort(q),
             logins' = logins, pc'[q] # "respond", given' = given
      PROVE  CookieInv'
  BY <1>1, <1>2, OthersStay, NoneDelivered
<1>3. ASSUME NEW q \in Slots, AskNext(q) PROVE CookieInv'
  <2>1. pc'[q] # "respond"
    BY <1>1, <1>3 DEF AskNext, AskLink, CountIp, IssueLink, MailLink, Goto, Done, Arrive
  <2>2. logins' = logins /\ given' = given
    BY <1>3 DEF AskNext, AskLink, CountIp, IssueLink, MailLink, AskUnchanged, auditVars,
                browserVars
  <2> QED
    BY <1>2, <1>3, <2>1, <2>2
<1>4. ASSUME NEW q \in Slots, LinkNext(q) PROVE CookieInv'
  <2>1. pc'[q] # "respond"
    BY <1>1, <1>4 DEF LinkNext, OpenLink, FindByLink, BurnLink, BurnRefused, Goto, Done
  <2>2. logins' = logins /\ given' = given
    BY <1>4 DEF LinkNext, OpenLink, FindByLink, BurnLink, BurnRefused, auditVars, browserVars
  <2> QED
    BY <1>2, <1>4, <2>1, <2>2
<1>5. ASSUME NEW q \in Slots, GoogleNext(q) PROVE CookieInv'
  <2>1. pc'[q] # "respond"
    BY <1>1, <1>5 DEF GoogleNext, Callback, ExchangeFails, Refuse, FindBySub, FindByEmail,
                      EmailOfOtherSub, LinkSub, InsertGoogle, UpsertRefused, Goto, Done
  <2>2. logins' = logins /\ given' = given
    BY <1>5 DEF GoogleNext, Callback, ExchangeFails, Refuse, FindBySub, FindByEmail,
                EmailOfOtherSub, LinkSub, InsertGoogle, UpsertRefused, GoogleUnchanged, auditVars
  <2> QED
    BY <1>2, <1>5, <2>1, <2>2
<1>6. ASSUME NEW q \in Slots, DropPresented(q) \/ OpenSession(q) PROVE CookieInv'
  <2>1. TailNext(q)
    BY <1>6 DEF TailNext
  <2>2. pc'[q] # "respond" /\ logins' = logins /\ given' = given
    BY <1>1, <1>6 DEF DropPresented, OpenSession, Goto, auditVars
  <2> QED
    BY <1>2, <2>1, <2>2
<1>7. ASSUME NEW q \in Slots, AuditLogin(q) PROVE CookieInv'
  <2>0. /\ loc[q].account \in AccountIds /\ loc[q].opened \in SessionIds
        /\ owner[loc[q].opened] = loc[q].account
    BY <1>7, Needs, Here DEF AuditLogin, DataInv, AgreeInv, Agree
  <2>1. PICK a \in AccountIds, s \in SessionIds :
          /\ loc[q].account = a /\ loc[q].opened = s /\ owner[s] = a
          /\ logins' = [logins EXCEPT ![a] = @ + 1]
          /\ owner' = owner /\ given' = given
          /\ pc' = [pc EXCEPT ![q] = "respond"] /\ loc' = loc
    BY <1>7, <2>0 DEF AuditLogin, RecordLogin, Goto, sessionVars
  <2>2. Delivered(a)' \subseteq Delivered(a) \cup {s}
    BY <1>1, <2>1 DEF Delivered
  <2>3. ASSUME NEW b \in AccountIds, b # a PROVE Delivered(b)' \subseteq Delivered(b)
    BY <1>1, <2>1, <2>3 DEF Delivered
  <2> SUFFICES ASSUME NEW b \in AccountIds PROVE Cardinality(Delivered(b)') <= logins'[b]
    BY DEF CookieInv
  <2>4. Delivered(b) \in SUBSET SessionIds /\ Delivered(b)' \in SUBSET SessionIds
    BY DEF Delivered
  <2>5. /\ Cardinality(Delivered(b)) \in Nat /\ Cardinality(Delivered(b)') \in Nat
        /\ Cardinality(Delivered(b)') <= Cardinality(Delivered(b)) + (IF b = a THEN 1 ELSE 0)
    <3>1. CASE b = a
      BY <2>2, <2>4, <3>1, Counts, SignInAssumption
    <3>2. CASE b # a
      BY <2>3, <2>4, <3>2, Counts, SignInAssumption
    <3> QED
      BY <3>1, <3>2
  <2>6. /\ Cardinality(Delivered(b)) <= logins[b] /\ logins[b] \in Nat
        /\ logins'[b] = logins[b] + (IF b = a THEN 1 ELSE 0)
    BY <2>1 DEF CookieInv, TypeInv, AuditOK
  <2> QED
    BY <2>5, <2>6
<1>8. ASSUME NEW q \in Slots, Respond(q) PROVE CookieInv'
  <2>1. TailNext(q)
    BY <1>8 DEF TailNext
  <2>2. pc'[q] # "respond" /\ logins' = logins
    BY <1>1, <1>8 DEF Respond, Done, auditVars
  <2>3. \A s \in given' : s \in given \/ \E p \in Slots : pc[p] = "respond" /\ loc[p].opened = s
    BY <1>8 DEF Respond
  <2>4. \A p \in Slots : pc'[p] = "respond" => pc[p] = "respond" /\ loc'[p] = loc[p]
    BY <2>1, <2>2, OthersStay
  <2> QED
    BY <1>1, <2>2, <2>3, <2>4, NoneDelivered
<1>9. ASSUME NEW q \in Slots, CallNext(q) PROVE CookieInv'
  <2>1. pc'[q] # "respond"
    BY <1>1, <1>9 DEF CallNext, Call, ExpireSession, Touch, LoadUser, SessionGone, HandleCall,
                      ToggleUnlimited, AuditToggle, Logout, SignedOut, Goto, Done
  <2>2. logins' = logins /\ given' = given
    BY <1>9 DEF CallNext, Call, ExpireSession, Touch, LoadUser, SessionGone, HandleCall,
                ToggleUnlimited, AuditToggle, Logout, SignedOut, CallUnchanged, auditVars,
                browserVars
  <2> QED
    BY <1>2, <1>9, <2>1, <2>2
<1>10. ASSUME NEW q \in Slots, SeedNext(q) \/ Abort(q) PROVE CookieInv'
  <2>1. pc'[q] # "respond"
    BY <1>1, <1>10 DEF SeedNext, Seed, SeedAdmin, SeedRefused, Abort, Goto, Done
  <2>2. logins' = logins /\ given' = given
    BY <1>10 DEF SeedNext, Seed, SeedAdmin, SeedRefused, Abort, SeedUnchanged, auditVars,
                 browserVars
  <2> QED
    BY <1>2, <1>10, <2>1, <2>2
<1>11. CASE \/ \E b \in scenario.browsers, f \in Flows : GoogleLogin(b, f) \/ CallbackRefused(b, f)
            \/ Tick
            \/ UNCHANGED vars
  <2>1. logins' = logins /\ given' = given /\ pc' = pc /\ loc' = loc
    BY <1>11 DEF GoogleLogin, CallbackRefused, GoogleUnchanged, Tick, vars, auditVars,
                 browserVars
  <2> QED
    BY <1>1, <2>1, NoneDelivered
<1> QED
  BY <1>3, <1>4, <1>5, <1>6, <1>7, <1>8, <1>9, <1>10, <1>11 DEF Next, TailNext

(* The operator's session at the start is audited. *)
LEMMA InitCookieInv == Init => CookieInv
<1> SUFFICES ASSUME Init, NEW a \in AccountIds PROVE Cardinality(Delivered(a)) <= logins[a]
  BY DEF CookieInv
<1>1. Delivered(a) \in SUBSET SessionIds /\ {} \in SUBSET SessionIds
  BY DEF Delivered
<1>2. Delivered(a) \subseteq {} \cup {FirstSession} /\ (~Seeded(a) => Delivered(a) \subseteq {})
  BY First, AccountsAssumption, SignInAssumption
     DEF Init, Delivered, SignedIn, Seeded, NoLocal
<1>3. Cardinality({}) = 0
  BY FS_EmptySet
<1>4. /\ Cardinality(Delivered(a)) <= 0 + 1
      /\ ~Seeded(a) => Cardinality(Delivered(a)) <= 0
  BY <1>1, <1>2, <1>3, Counts, SignInAssumption
<1>5. logins[a] = IF Seeded(a) THEN 1 ELSE 0
  BY DEF Init
<1> QED
  BY <1>4, <1>5

(* Every session a browser was handed has its entry in the audit log,      *)
(* whatever requests die between the session, the entry and the answer.    *)
THEOREM SignInsAreAudited == Spec => []CookieAudited
<1>1. TypeInv /\ CookieInv => CookieAudited
  <2> SUFFICES ASSUME TypeInv, CookieInv, NEW a \in AccountIds
               PROVE  Cardinality({s \in given : owner[s] = a}) <= logins[a]
    BY DEF CookieAudited
  <2> DEFINE G == {s \in given : owner[s] = a}
  <2>1. G \in SUBSET SessionIds /\ Delivered(a) \in SUBSET SessionIds /\ G \subseteq Delivered(a)
    BY DEF TypeInv, BrowsersOK, Delivered
  <2>2. Cardinality(Delivered(a)) <= logins[a] /\ logins[a] \in Nat
    BY DEF CookieInv, TypeInv, AuditOK
  <2> HIDE DEF G
  <2>3. /\ Cardinality(G) <= Cardinality(Delivered(a))
        /\ Cardinality(G) \in Nat /\ Cardinality(Delivered(a)) \in Nat
    BY <2>1, Counts, SignInAssumption
  <2>4. Cardinality(G) <= logins[a]
    BY <2>2, <2>3
  <2> QED
    BY <2>4 DEF G
<1>2. TypeInv /\ DataInv /\ CookieInv /\ [Next]_vars => CookieInv'
  BY NextCookieInv
<1> QED
  BY <1>1, <1>2, InitCookieInv, DataInvariant, PTL DEF Spec

(* Links counted in window w for address e, and requests on the way to one. *)
LinksIn(e, w) == {t \in Links : linkEmail[t] = e /\ askedIn[t] = w}

AsksIn(e, w) ==
  {q \in Slots : /\ pc[q] \in {"countIp", "issue"}
                 /\ loc[q].address = e
                 /\ WindowStart(loc[q].now) = w}

EmailInv ==
  \A e \in Emails, w \in Windows :
    LET sent == Cardinality(LinksIn(e, w)) + Cardinality(AsksIn(e, w))
    IN sent <= requestCount[e][w] /\ sent <= EmailLimit

(* The two cardinalities change with their sets. *)
LEMMA EmailCounts ==
  ASSUME TypeInv, NEW e, NEW w, NEW t, NEW q
  PROVE  /\ Cardinality(LinksIn(e, w)) \in Nat /\ Cardinality(LinksIn(e, w)') \in Nat
         /\ Cardinality(AsksIn(e, w)) \in Nat /\ Cardinality(AsksIn(e, w)') \in Nat
         /\ LinksIn(e, w)' \subseteq LinksIn(e, w) =>
              Cardinality(LinksIn(e, w)') <= Cardinality(LinksIn(e, w))
         /\ LinksIn(e, w)' \subseteq LinksIn(e, w) \cup {t} =>
              Cardinality(LinksIn(e, w)') <= Cardinality(LinksIn(e, w)) + 1
         /\ AsksIn(e, w)' \subseteq AsksIn(e, w) =>
              Cardinality(AsksIn(e, w)') <= Cardinality(AsksIn(e, w))
         /\ AsksIn(e, w)' \subseteq AsksIn(e, w) \cup {q} =>
              Cardinality(AsksIn(e, w)') <= Cardinality(AsksIn(e, w)) + 1
         /\ q \in AsksIn(e, w) /\ AsksIn(e, w)' \subseteq AsksIn(e, w) \ {q} =>
              Cardinality(AsksIn(e, w)') <= Cardinality(AsksIn(e, w)) - 1
<1>1. /\ LinksIn(e, w) \in SUBSET Links /\ LinksIn(e, w)' \in SUBSET Links
      /\ AsksIn(e, w) \in SUBSET Slots /\ AsksIn(e, w)' \in SUBSET Slots
  BY DEF LinksIn, AsksIn
<1>2. IsFiniteSet(Links) /\ IsFiniteSet(Slots)
  BY SignInAssumption
<1> QED
  BY <1>1, <1>2, Counts

(* A step that adds no link and no request on the way to one. *)
LEMMA NoneSent ==
  ASSUME TypeInv, EmailInv,
         \A e \in Emails, w \in Windows :
           /\ requestCount'[e][w] \in Nat /\ requestCount'[e][w] >= requestCount[e][w]
           /\ LinksIn(e, w)' \subseteq LinksIn(e, w)
           /\ AsksIn(e, w)' \subseteq AsksIn(e, w)
  PROVE  EmailInv'
<1> SUFFICES ASSUME NEW e \in Emails, NEW w \in Windows
             PROVE  /\ Cardinality(LinksIn(e, w)') + Cardinality(AsksIn(e, w)')
                         <= requestCount'[e][w]
                    /\ Cardinality(LinksIn(e, w)') + Cardinality(AsksIn(e, w)') <= EmailLimit
  BY DEF EmailInv
<1>1. /\ Cardinality(LinksIn(e, w)) \in Nat /\ Cardinality(LinksIn(e, w)') \in Nat
      /\ Cardinality(AsksIn(e, w)) \in Nat /\ Cardinality(AsksIn(e, w)') \in Nat
      /\ Cardinality(LinksIn(e, w)') <= Cardinality(LinksIn(e, w))
      /\ Cardinality(AsksIn(e, w)') <= Cardinality(AsksIn(e, w))
  BY EmailCounts
<1>2. requestCount[e][w] \in Nat /\ EmailLimit \in Nat
  BY SignInAssumption, RateLimitAssumption DEF TypeInv, RateLimitTypeOK
<1>3. /\ Cardinality(LinksIn(e, w)) + Cardinality(AsksIn(e, w)) <= requestCount[e][w]
      /\ Cardinality(LinksIn(e, w)) + Cardinality(AsksIn(e, w)) <= EmailLimit
  BY DEF EmailInv
<1> QED
  BY <1>1, <1>2, <1>3

(* A request of another kind, or one that is over, is on the way to no link. *)
LEMMA NotAsking ==
  ASSUME TypeInv, EmailInv, NEW q \in Slots,
         AskNext(q) \/ LinkNext(q) \/ GoogleNext(q) \/ TailNext(q) \/ CallNext(q)
           \/ SeedNext(q) \/ Abort(q),
         pc'[q] \notin {"countIp", "issue"},
         UNCHANGED <<requestCount, linkEmail, askedIn>>
  PROVE  EmailInv'
<1>1. ASSUME NEW e, NEW w PROVE AsksIn(e, w)' \subseteq AsksIn(e, w)
  BY OthersStay DEF AsksIn
<1>2. ASSUME NEW e, NEW w PROVE LinksIn(e, w)' = LinksIn(e, w)
  BY DEF LinksIn
<1>3. \A e \in Emails, w \in Windows : requestCount[e][w] \in Nat
  BY SignInAssumption DEF TypeInv, RateLimitTypeOK
<1> QED
  BY <1>1, <1>2, <1>3, NoneSent

(* A count goes up by one, the others stay. *)
LEMMA IncrementUp ==
  ASSUME TypeInv, NEW b \in Buckets, NEW now \in 0..MaxClock, Increment(b, now)
  PROVE  /\ WindowStart(now) \in Windows
         /\ \A c \in Buckets, w \in Windows :
              /\ requestCount[c][w] \in Nat /\ requestCount'[c][w] \in Nat
              /\ requestCount'[c][w] =
                   IF c = b /\ w = WindowStart(now)
                   THEN requestCount[c][w] + 1 ELSE requestCount[c][w]
<1>1. WindowStart(now) \in Windows
  BY DEF Windows
<1> QED
  BY <1>1 DEF Increment, TypeInv, RateLimitTypeOK

(* Asking for a link keeps the count. *)
LEMMA AskEmailInv ==
  ASSUME TypeInv, EmailInv, NEW q \in Slots, AskNext(q)
  PROVE  EmailInv'
<1> USE Here
<1>1. pc \in [Slots -> Steps] /\ loc \in [Slots -> Local]
  BY DEF TypeInv, RequestsOK
<1>2. \A p \in Slots : p # q => pc'[p] = pc[p] /\ loc'[p] = loc[p]
  BY OthersStay
<1>3. ASSUME NEW e \in scenario.addresses, NEW ip \in Ips, AskLink(q, e, ip)
      PROVE  EmailInv'
  <2> DEFINE n == WindowStart(clock)
  <2>1. /\ e \in Emails /\ e \in Buckets /\ Emails \subseteq Buckets
        /\ linkEmail' = linkEmail /\ askedIn' = askedIn /\ pc[q] = "idle"
        /\ Increment(e, clock)
    BY <1>3, SignInAssumption DEF AskLink, linkVars, Arrive
  <2>2. n \in Windows /\ \A c \in Emails, w \in Windows :
              /\ requestCount[c][w] \in Nat /\ requestCount'[c][w] \in Nat
              /\ requestCount'[c][w] =
                   IF c = e /\ w = n THEN requestCount[c][w] + 1 ELSE requestCount[c][w]
    BY <2>1, IncrementUp
  <2>3. ASSUME NEW c, NEW w PROVE LinksIn(c, w)' = LinksIn(c, w)
    BY <2>1 DEF LinksIn
  <2>4. CASE ~Allowed(e, EmailLimit, clock)
    <3>1. pc' = pc /\ loc' = loc
      BY <1>3, <2>4 DEF AskLink
    <3>2. ASSUME NEW c, NEW w PROVE AsksIn(c, w)' = AsksIn(c, w)
      BY <3>1 DEF AsksIn
    <3> HIDE DEF n
    <3> QED
      BY <2>2, <2>3, <3>2, NoneSent
  <2>5. CASE Allowed(e, EmailLimit, clock)
    <3>1. /\ loc'[q].address = e /\ loc'[q].now = clock
          /\ requestCount[e][n] + 1 <= EmailLimit
      BY <1>1, <1>3, <2>5 DEF AskLink, NoLocal, Allowed, WithinLimit
    <3>2. ASSUME NEW c, NEW w
          PROVE  /\ AsksIn(c, w)' \subseteq AsksIn(c, w) \cup {q}
                 /\ ~(c = e /\ w = n) => AsksIn(c, w)' \subseteq AsksIn(c, w)
      BY <1>2, <3>1 DEF AsksIn
    <3> HIDE DEF n
    <3> SUFFICES ASSUME NEW c \in Emails, NEW w \in Windows
                 PROVE  /\ Cardinality(LinksIn(c, w)') + Cardinality(AsksIn(c, w)')
                             <= requestCount'[c][w]
                        /\ Cardinality(LinksIn(c, w)') + Cardinality(AsksIn(c, w)') <= EmailLimit
      BY DEF EmailInv
    <3>3. /\ Cardinality(LinksIn(c, w)) \in Nat /\ Cardinality(AsksIn(c, w)) \in Nat
          /\ Cardinality(AsksIn(c, w)') \in Nat
          /\ Cardinality(AsksIn(c, w)') <= Cardinality(AsksIn(c, w)) + 1
          /\ ~(c = e /\ w = n) => Cardinality(AsksIn(c, w)') <= Cardinality(AsksIn(c, w))
      BY <3>2, EmailCounts
    <3>4. /\ Cardinality(LinksIn(c, w)) + Cardinality(AsksIn(c, w)) <= requestCount[c][w]
          /\ Cardinality(LinksIn(c, w)) + Cardinality(AsksIn(c, w)) <= EmailLimit
      BY DEF EmailInv
    <3>5. LinksIn(c, w)' = LinksIn(c, w) /\ EmailLimit \in Nat
      BY <2>3, RateLimitAssumption
    <3>6. requestCount[c][w] \in Nat /\ requestCount'[c][w] \in Nat
      BY <2>2
    <3>7. CASE c = e /\ w = n
      <4>1. requestCount'[c][w] = requestCount[c][w] + 1 /\ requestCount[c][w] + 1 <= EmailLimit
        BY <2>2, <3>1, <3>7
      <4> QED
        BY <3>3, <3>4, <3>5, <3>6, <4>1
    <3>8. CASE ~(c = e /\ w = n)
      <4>1. requestCount'[c][w] = requestCount[c][w]
        BY <2>2, <3>8
      <4> QED
        BY <3>3, <3>4, <3>5, <3>6, <3>8, <4>1
    <3> QED
      BY <3>7, <3>8
  <2> QED
    BY <2>4, <2>5
<1>4. CASE CountIp(q)
  <2>1. /\ loc[q].ip \in Ips /\ loc[q].ip \in Buckets /\ Ips \cap Emails = {}
        /\ Emails \subseteq Buckets /\ pc[q] = "countIp"
        /\ linkEmail' = linkEmail /\ askedIn' = askedIn
        /\ Increment(loc[q].ip, clock)
    BY <1>4, Needs, SignInAssumption DEF CountIp, linkVars
  <2>2. \A c \in Emails, w \in Windows :
          requestCount[c][w] \in Nat /\ requestCount'[c][w] = requestCount[c][w]
    BY <2>1, IncrementUp
  <2>3. ASSUME NEW c, NEW w PROVE LinksIn(c, w)' = LinksIn(c, w)
    BY <2>1 DEF LinksIn
  <2>4. pc'[q] \in {"countIp", "issue"} => loc'[q] = loc[q]
    BY <1>1, <1>4 DEF CountIp, Done, Goto
  <2>5. ASSUME NEW c, NEW w PROVE AsksIn(c, w)' \subseteq AsksIn(c, w)
    BY <1>2, <2>1, <2>4 DEF AsksIn
  <2> QED
    BY <2>2, <2>3, <2>5, NoneSent
<1>5. CASE IssueLink(q)
  <2> DEFINE e == loc[q].address
             n == WindowStart(loc[q].now)
  <2>1. e \in Emails /\ pc[q] = "issue" /\ pc'[q] = "mail" /\ requestCount' = requestCount
    BY <1>1, <1>5, Needs DEF IssueLink, Goto
  <2>2. PICK t \in Links : /\ linkEmail[t] = NoEmail
                          /\ linkEmail' = [linkEmail EXCEPT ![t] = e]
                          /\ askedIn' = [askedIn EXCEPT ![t] = n]
    BY <1>5 DEF IssueLink, NextLink
  <2>3. linkEmail \in [Links -> Emails \cup {NoEmail}] /\ askedIn \in [Links -> Windows]
    BY DEF TypeInv, LinksOK
  <2>4. ASSUME NEW c \in Emails, NEW w \in Windows
        PROVE  IF c = e /\ w = n
               THEN /\ LinksIn(c, w)' \subseteq LinksIn(c, w) \cup {t}
                    /\ q \in AsksIn(c, w) /\ AsksIn(c, w)' \subseteq AsksIn(c, w) \ {q}
               ELSE /\ LinksIn(c, w)' \subseteq LinksIn(c, w)
                    /\ AsksIn(c, w)' \subseteq AsksIn(c, w)
    <3>1. LinksIn(c, w)' \subseteq LinksIn(c, w) \cup {t}
          /\ (~(c = e /\ w = n) => LinksIn(c, w)' \subseteq LinksIn(c, w))
      BY <2>2, <2>3 DEF LinksIn
    <3>2. AsksIn(c, w)' \subseteq AsksIn(c, w) \ {q}
      BY <1>2, <2>1 DEF AsksIn
    <3>3. c = e /\ w = n => q \in AsksIn(c, w)
      BY <2>1 DEF AsksIn
    <3> QED
      BY <3>1, <3>2, <3>3
  <2> HIDE DEF e, n
  <2> SUFFICES ASSUME NEW c \in Emails, NEW w \in Windows
               PROVE  /\ Cardinality(LinksIn(c, w)') + Cardinality(AsksIn(c, w)')
                           <= requestCount'[c][w]
                      /\ Cardinality(LinksIn(c, w)') + Cardinality(AsksIn(c, w)') <= EmailLimit
    BY DEF EmailInv
  <2>5. /\ Cardinality(LinksIn(c, w)) \in Nat /\ Cardinality(LinksIn(c, w)') \in Nat
        /\ Cardinality(AsksIn(c, w)) \in Nat /\ Cardinality(AsksIn(c, w)') \in Nat
    BY EmailCounts
  <2>6. Cardinality(LinksIn(c, w)') + Cardinality(AsksIn(c, w)')
          <= Cardinality(LinksIn(c, w)) + Cardinality(AsksIn(c, w))
    <3>1. CASE c = e /\ w = n
      <4>1. /\ Cardinality(LinksIn(c, w)') <= Cardinality(LinksIn(c, w)) + 1
            /\ Cardinality(AsksIn(c, w)') <= Cardinality(AsksIn(c, w)) - 1
        BY <2>4, <3>1, EmailCounts
      <4> QED
        BY <2>5, <4>1
    <3>2. CASE ~(c = e /\ w = n)
      <4>1. /\ Cardinality(LinksIn(c, w)') <= Cardinality(LinksIn(c, w))
            /\ Cardinality(AsksIn(c, w)') <= Cardinality(AsksIn(c, w))
        BY <2>4, <3>2, EmailCounts
      <4> QED
        BY <2>5, <4>1
    <3> QED
      BY <3>1, <3>2
  <2>7. /\ Cardinality(LinksIn(c, w)) + Cardinality(AsksIn(c, w)) <= requestCount[c][w]
        /\ Cardinality(LinksIn(c, w)) + Cardinality(AsksIn(c, w)) <= EmailLimit
    BY DEF EmailInv
  <2>8. requestCount[c][w] \in Nat /\ EmailLimit \in Nat
    BY SignInAssumption, RateLimitAssumption DEF TypeInv, RateLimitTypeOK
  <2> QED
    BY <2>1, <2>5, <2>6, <2>7, <2>8
<1>6. CASE MailLink(q)
  BY <1>1, <1>6, NotAsking DEF MailLink, Done
<1> QED
  BY <1>3, <1>4, <1>5, <1>6 DEF AskNext

(* The count of every address and window keeps up with its links. *)
LEMMA NextEmailInv == TypeInv /\ EmailInv /\ [Next]_vars => EmailInv'
<1> SUFFICES ASSUME TypeInv, EmailInv, [Next]_vars PROVE EmailInv'
  OBVIOUS
<1>1. pc \in [Slots -> Steps]
  BY DEF TypeInv, RequestsOK
<1>2. ASSUME NEW q \in Slots, LinkNext(q) PROVE EmailInv'
  <2>1. pc'[q] \notin {"countIp", "issue"}
    BY <1>1, <1>2 DEF LinkNext, OpenLink, FindByLink, BurnLink, BurnRefused, Goto, Done
  <2>2. UNCHANGED <<requestCount, linkEmail, askedIn>>
    BY <1>2 DEF LinkNext, OpenLink, FindByLink, BurnLink, BurnRefused, linkVars
  <2> QED
    BY <1>2, <2>1, <2>2, NotAsking
<1>3. ASSUME NEW q \in Slots, GoogleNext(q) PROVE EmailInv'
  <2>1. pc'[q] \notin {"countIp", "issue"}
    BY <1>1, <1>3 DEF GoogleNext, Callback, ExchangeFails, Refuse, FindBySub, FindByEmail,
                      EmailOfOtherSub, LinkSub, InsertGoogle, UpsertRefused, Goto, Done
  <2>2. UNCHANGED <<requestCount, linkEmail, askedIn>>
    BY <1>3 DEF GoogleNext, Callback, ExchangeFails, Refuse, FindBySub, FindByEmail,
                EmailOfOtherSub, LinkSub, InsertGoogle, UpsertRefused, GoogleUnchanged, linkVars
  <2> QED
    BY <1>3, <2>1, <2>2, NotAsking
<1>4. ASSUME NEW q \in Slots, TailNext(q) PROVE EmailInv'
  <2>1. pc'[q] \notin {"countIp", "issue"}
    BY <1>1, <1>4 DEF TailNext, DropPresented, OpenSession, AuditLogin, Respond, Goto, Done
  <2>2. UNCHANGED <<requestCount, linkEmail, askedIn>>
    BY <1>4 DEF TailNext, DropPresented, OpenSession, AuditLogin, Respond, TailUnchanged,
                linkVars
  <2> QED
    BY <1>4, <2>1, <2>2, NotAsking
<1>5. ASSUME NEW q \in Slots, CallNext(q) PROVE EmailInv'
  <2>1. pc'[q] \notin {"countIp", "issue"}
    BY <1>1, <1>5 DEF CallNext, Call, ExpireSession, Touch, LoadUser, SessionGone, HandleCall,
                      ToggleUnlimited, AuditToggle, Logout, SignedOut, Goto, Done
  <2>2. UNCHANGED <<requestCount, linkEmail, askedIn>>
    BY <1>5 DEF CallNext, Call, ExpireSession, Touch, LoadUser, SessionGone, HandleCall,
                ToggleUnlimited, AuditToggle, Logout, SignedOut, CallUnchanged, linkVars
  <2> QED
    BY <1>5, <2>1, <2>2, NotAsking
<1>6. ASSUME NEW q \in Slots, SeedNext(q) \/ Abort(q) PROVE EmailInv'
  <2>1. pc'[q] \notin {"countIp", "issue"}
    BY <1>1, <1>6 DEF SeedNext, Seed, SeedAdmin, SeedRefused, Abort, Goto, Done
  <2>2. UNCHANGED <<requestCount, linkEmail, askedIn>>
    BY <1>6 DEF SeedNext, Seed, SeedAdmin, SeedRefused, Abort, SeedUnchanged, linkVars
  <2> QED
    BY <1>6, <2>1, <2>2, NotAsking
<1>7. CASE \/ \E b \in scenario.browsers, f \in Flows : GoogleLogin(b, f) \/ CallbackRefused(b, f)
           \/ Tick
           \/ UNCHANGED vars
  <2>1. UNCHANGED <<requestCount, linkEmail, askedIn, pc, loc>>
    BY <1>7 DEF GoogleLogin, CallbackRefused, GoogleUnchanged, Tick, vars, linkVars
  <2> QED
    BY <2>1 DEF EmailInv, LinksIn, AsksIn
<1> QED
  BY <1>2, <1>3, <1>4, <1>5, <1>6, <1>7, AskEmailInv DEF Next

(* Nothing is sent and nothing counted at the start. *)
LEMMA InitEmailInv == Init => EmailInv
<1> SUFFICES ASSUME Init, NEW e \in Emails, NEW w \in Windows
             PROVE  /\ Cardinality(LinksIn(e, w)) + Cardinality(AsksIn(e, w))
                         <= requestCount[e][w]
                    /\ Cardinality(LinksIn(e, w)) + Cardinality(AsksIn(e, w)) <= EmailLimit
  BY DEF EmailInv
<1>1. LinksIn(e, w) = {} /\ AsksIn(e, w) = {} /\ requestCount[e][w] = 0
  BY AccountsAssumption, SignInAssumption DEF Init, LinksIn, AsksIn
<1>2. Cardinality({}) = 0
  BY FS_EmptySet
<1> QED
  BY <1>1, <1>2, RateLimitAssumption

(* In one window of the clock no address is sent more than EmailLimit      *)
(* links, for any number of replicas counting and however long a request   *)
(* takes from the counter to the mail.                                     *)
THEOREM EmailLimitHolds == Spec => []EmailLimitPerWindow
<1>1. TypeInv /\ EmailInv => EmailLimitPerWindow
  <2> SUFFICES ASSUME TypeInv, EmailInv, NEW e \in Emails, NEW w \in Windows
               PROVE  Cardinality(LinksIn(e, w)) <= EmailLimit
    BY DEF EmailLimitPerWindow, LinksIn
  <2>1. Cardinality(LinksIn(e, w)) \in Nat /\ Cardinality(AsksIn(e, w)) \in Nat
    BY EmailCounts
  <2>2. Cardinality(LinksIn(e, w)) + Cardinality(AsksIn(e, w)) <= EmailLimit
    BY DEF EmailInv
  <2> QED
    BY <2>1, <2>2, RateLimitAssumption
<1>2. TypeInv /\ EmailInv /\ [Next]_vars => EmailInv'
  BY NextEmailInv
<1> QED
  BY <1>1, <1>2, InitEmailInv, TypeInvariant, PTL DEF Spec

-----------------------------------------------------------------------------
(* One replica: the event loop is the lock the statements do not take.     *)

OneInLoop ==
  \A p, q \in Slots : pc[p] \in LoopSteps /\ pc[q] \in LoopSteps => p = q

RowInv ==
  /\ \A s \in SessionIds : byLink[s] # NoLink => linkUsed[byLink[s]]
  /\ \A r, s \in SessionIds : byLink[r] # NoLink /\ byLink[r] = byLink[s] => r = s
  /\ \A s \in SessionIds : byProfile[s] # NoProfile => googleSub[owner[s]] = byProfile[s].sub

ToggleInv ==
  ~scenario.aborts /\ "seed" \notin scenario.kinds =>
    \A a \in AccountIds :
      \/ toggled[a] \in {NoFlag, isUnlimited[a]}
      \/ \E q \in Slots : pc[q] = "auditToggle" /\ loc[q].account = a

(* What a request read in the loop is still so when it writes.             *)
LoopAgree(q) ==
  /\ pc[q] \in OpenSteps => ~linkUsed[loc[q].link]
  /\ pc[q] \in {"rotate", "create"} /\ loc[q].link # NoLink =>
       linkUsed[loc[q].link] /\ \A s \in SessionIds : byLink[s] # loc[q].link
  /\ pc[q] = "linkSub" => googleSub[loc[q].account] = NoSub
  /\ pc[q] \in {"rotate", "create"} /\ loc[q].profile # NoProfile =>
       googleSub[loc[q].account] = loc[q].profile.sub
  /\ pc[q] = "auditToggle" /\ "seed" \notin scenario.kinds =>
       loc[q].flag = isUnlimited[loc[q].account]

LoopInv ==
  scenario.oneReplica =>
    OneInLoop /\ RowInv /\ ToggleInv /\ \A q \in Slots : LoopAgree(q)

(* The subjects of accounts, once linked, stay.                            *)
SubsStay == \A a \in AccountIds : googleSub[a] # NoSub => googleSub'[a] = googleSub[a]

(* The steps of the loop, one by one. *)
LEMMA LoopStepsList ==
  LoopSteps = {"countIp", "issue", "mail", "findByLink", "burn", "findByEmail", "linkSub",
               "insert", "rotate", "create", "auditLogin", "auditToggle"}
BY DEF LoopSteps, AskSteps, OpenSteps, GoogleSteps, TailSteps

(* A request enters the loop's steps only when the loop is free. *)
LEMMA LoopEntry ==
  ASSUME TypeInv, NEW q \in Slots,
         AskNext(q) \/ LinkNext(q) \/ GoogleNext(q) \/ TailNext(q) \/ CallNext(q)
           \/ SeedNext(q) \/ Abort(q),
         pc'[q] \in LoopSteps
  PROVE  pc[q] \in LoopSteps \/ LoopFree(q)
<1> USE LoopStepsList DEF TypeInv, RequestsOK, Goto, Done
<1>1. CASE AskNext(q)
  BY <1>1 DEF AskNext, AskLink, CountIp, IssueLink, MailLink
<1>2. CASE LinkNext(q)
  BY <1>2 DEF LinkNext, OpenLink, FindByLink, BurnLink, BurnRefused
<1>3. CASE GoogleNext(q)
  BY <1>3 DEF GoogleNext, Callback, ExchangeFails, Refuse, FindBySub, FindByEmail,
              EmailOfOtherSub, LinkSub, InsertGoogle, UpsertRefused
<1>4. CASE TailNext(q)
  BY <1>4 DEF TailNext, DropPresented, OpenSession, AuditLogin, Respond
<1>5. CASE CallNext(q)
  BY <1>5 DEF CallNext, Call, ExpireSession, Touch, LoadUser, SessionGone, HandleCall,
              ToggleUnlimited, AuditToggle, Logout, SignedOut
<1>6. CASE SeedNext(q)
  BY <1>6 DEF SeedNext, Seed, SeedAdmin, SeedRefused
<1>7. CASE Abort(q)
  BY <1>7 DEF Abort
<1> QED
  BY <1>1, <1>2, <1>3, <1>4, <1>5, <1>6, <1>7

(* A request outside the loop, while another is inside, writes nothing the *)
(* other one read.                                                         *)
LEMMA Quiet ==
  ASSUME TypeInv, DataInv, NEW q \in Slots,
         AskNext(q) \/ LinkNext(q) \/ GoogleNext(q) \/ TailNext(q) \/ CallNext(q)
           \/ SeedNext(q) \/ Abort(q),
         pc[q] \notin LoopSteps, ~LoopFree(q)
  PROVE  /\ linkUsed' = linkUsed /\ byLink' = byLink
         /\ \A a \in AccountIds : Exists(a) => googleSub'[a] = googleSub[a]
         /\ "seed" \notin scenario.kinds => isUnlimited' = isUnlimited
<1> USE LoopStepsList
<1>1. CASE AskNext(q)
  BY <1>1 DEF AskNext, AskLink, CountIp, IssueLink, MailLink
<1>2. CASE LinkNext(q)
  BY <1>2 DEF LinkNext, OpenLink, FindByLink, BurnLink, BurnRefused
<1>3. CASE GoogleNext(q)
  BY <1>3 DEF GoogleNext, Callback, ExchangeFails, Refuse, FindBySub, FindByEmail,
              EmailOfOtherSub, LinkSub, InsertGoogle, UpsertRefused, GoogleUnchanged,
              linkVars, proofVars, accountVars
<1>4. CASE TailNext(q)
  BY <1>4 DEF TailNext, DropPresented, OpenSession, AuditLogin, Respond, TailUnchanged,
              linkVars, proofVars, accountVars
<1>5. CASE CallNext(q)
  BY <1>5 DEF CallNext, Call, ExpireSession, Touch, LoadUser, SessionGone, HandleCall,
              ToggleUnlimited, AuditToggle, Logout, SignedOut, CallUnchanged,
              linkVars, proofVars, accountVars
<1>6. CASE SeedNext(q)
  <2>1. "seed" \in scenario.kinds
    BY <1>6 DEF SeedNext, Seed, SeedAdmin, SeedRefused, Arrive, DataInv, AgreeInv, Agree
  <2>2. linkUsed' = linkUsed /\ byLink' = byLink
    BY <1>6 DEF SeedNext, Seed, SeedAdmin, SeedRefused, SeedUnchanged, linkVars, proofVars
  <2>3. \A a \in AccountIds : Exists(a) => googleSub'[a] = googleSub[a]
    BY <1>6 DEF SeedNext, Seed, SeedAdmin, SeedRefused, InsertAccount, NextId, PromoteAccount,
                accountVars, TypeInv, AccountsTypeOK
  <2> QED
    BY <2>1, <2>2, <2>3
<1>7. CASE Abort(q)
  BY <1>7 DEF Abort, linkVars, proofVars, accountVars
<1> QED
  BY <1>1, <1>2, <1>3, <1>4, <1>5, <1>6, <1>7

(* The requests that do not move agree as before. *)
LEMMA OthersLoopAgree ==
  ASSUME TypeInv, DataInv, LoopInv, scenario.oneReplica, Grows, NEW q \in Slots,
         AskNext(q) \/ LinkNext(q) \/ GoogleNext(q) \/ TailNext(q) \/ CallNext(q)
           \/ SeedNext(q) \/ Abort(q),
         NEW p \in Slots, p # q
  PROVE  LoopAgree(p)'
<1>1. pc'[p] = pc[p] /\ loc'[p] = loc[p] /\ scenario' = scenario
  BY OthersStay DEF Grows
<1>2. CASE pc[p] \notin LoopSteps
  <2>1. pc[p] \notin OpenSteps \cup {"rotate", "create", "linkSub", "auditToggle"}
    BY <1>2 DEF LoopSteps, GoogleSteps, TailSteps
  <2> QED
    BY <1>1, <2>1 DEF LoopAgree
<1>3. CASE pc[p] \in LoopSteps
  <2>1. pc[q] \notin LoopSteps /\ ~LoopFree(q) /\ LoopAgree(p) /\ Agree(p)
    BY <1>3 DEF LoopInv, OneInLoop, LoopFree, DataInv, AgreeInv
  <2>2. /\ linkUsed' = linkUsed /\ byLink' = byLink
        /\ \A a \in AccountIds : Exists(a) => googleSub'[a] = googleSub[a]
        /\ "seed" \notin scenario.kinds => isUnlimited' = isUnlimited
    BY <2>1, Quiet
  <2>3. pc[p] \in {"linkSub", "rotate", "create"} =>
          loc[p].account \in AccountIds /\ Exists(loc[p].account)
    BY <2>1, Needs, Here DEF Agree, TailSteps
  <2> QED
    BY <1>1, <2>1, <2>2, <2>3 DEF LoopAgree
<1> QED
  BY <1>2, <1>3

(* One request moves. *)
LEMMA LoopStep ==
  ASSUME TypeInv, DataInv, LoopInv, scenario.oneReplica, Grows, NEW q \in Slots,
         AskNext(q) \/ LinkNext(q) \/ GoogleNext(q) \/ TailNext(q) \/ CallNext(q)
           \/ SeedNext(q) \/ Abort(q),
         RowInv', ToggleInv', LoopAgree(q)'
  PROVE  LoopInv'
<1>1. OneInLoop'
  <2> SUFFICES ASSUME NEW p \in Slots, NEW r \in Slots, pc'[p] \in LoopSteps,
                      pc'[r] \in LoopSteps
               PROVE  p = r
    BY DEF OneInLoop
  <2>1. ASSUME NEW u \in Slots, pc'[u] \in LoopSteps, u # q PROVE pc'[q] \notin LoopSteps
    BY <2>1, OthersStay, LoopEntry DEF LoopInv, OneInLoop, LoopFree
  <2>2. CASE p # q /\ r # q
    BY <2>2, OthersStay DEF LoopInv, OneInLoop
  <2> QED
    BY <2>1, <2>2
<1> QED
  BY <1>1, OthersLoopAgree DEF LoopInv

(* Sessions keep what opened them. *)
LEMMA RowsKept ==
  ASSUME TypeInv, DataInv, RowInv, Grows, UNCHANGED proofVars, SubsStay
  PROVE  RowInv'
<1>1. \A s \in SessionIds : byLink'[s] = byLink[s] /\ byProfile'[s] = byProfile[s]
  BY DEF proofVars
<1>2. \A s \in SessionIds : byLink[s] # NoLink => linkUsed'[byLink[s]]
  BY DEF RowInv, Grows, LinksGrow, TypeInv, ProofsOK
<1>3. ASSUME NEW s \in SessionIds, byProfile[s] # NoProfile
      PROVE  googleSub'[owner'[s]] = byProfile[s].sub
  <2>1. /\ owner[s] \in AccountIds /\ owner'[s] = owner[s]
        /\ googleSub[owner[s]] = byProfile[s].sub
    BY <1>3 DEF DataInv, SessionInv, Grows, SessionsGrow, RowInv
  <2>2. byProfile[s].sub # NoSub
    BY <1>3, SignInAssumption, AccountsAssumption DEF TypeInv, ProofsOK
  <2> QED
    BY <2>1, <2>2 DEF SubsStay
<1> QED
  BY <1>1, <1>2, <1>3 DEF RowInv

(* Flags and their entries agree as before. *)
LEMMA TogglesKept ==
  ASSUME TypeInv, DataInv, ToggleInv, Grows, NEW q \in Slots,
         AskNext(q) \/ LinkNext(q) \/ GoogleNext(q) \/ TailNext(q) \/ CallNext(q)
           \/ SeedNext(q) \/ Abort(q),
         pc[q] # "auditToggle" \/ scenario.aborts,
         toggled' = toggled,
         "seed" \in scenario.kinds
           \/ \A a \in AccountIds : Exists(a) => isUnlimited'[a] = isUnlimited[a]
  PROVE  ToggleInv'
<1> SUFFICES ASSUME ~scenario.aborts, "seed" \notin scenario.kinds, NEW a \in AccountIds
             PROVE  \/ toggled'[a] \in {NoFlag, isUnlimited'[a]}
                    \/ \E p \in Slots : pc'[p] = "auditToggle" /\ loc'[p].account = a
  BY DEF ToggleInv, Grows
<1>1. CASE toggled[a] = NoFlag
  BY <1>1
<1>2. CASE toggled[a] # NoFlag
  <2>1. isUnlimited'[a] = isUnlimited[a]
    BY <1>2 DEF DataInv, UniqueInv
  <2>2. CASE toggled[a] = isUnlimited[a]
    BY <2>1, <2>2
  <2>3. CASE \E p \in Slots : pc[p] = "auditToggle" /\ loc[p].account = a
    <3>1. PICK p \in Slots : pc[p] = "auditToggle" /\ loc[p].account = a
      BY <2>3
    <3>2. p # q
      BY <3>1
    <3> QED
      BY <3>1, <3>2, OthersStay
  <2> QED
    BY <1>2, <2>2, <2>3 DEF ToggleInv
<1> QED
  BY <1>1, <1>2

(* A new row leaves the subjects and flags of the others. *)
LEMMA InsertStays ==
  ASSUME TypeInv, DataInv, NEW a \in AccountIds, NEW e, NEW s, NEW admin,
         InsertAccount(a, e, s, admin)
  PROVE  /\ SubsStay
         /\ \A b \in AccountIds : Exists(b) => isUnlimited'[b] = isUnlimited[b]
         /\ googleSub'[a] = s
BY DEF InsertAccount, NextId, SubsStay, DataInv, UniqueInv, TypeInv, AccountsTypeOK

(* Asking for a link, in one replica. *)
LEMMA AskLoop ==
  ASSUME TypeInv, DataInv, LoopInv, scenario.oneReplica, NEW q \in Slots, AskNext(q)
  PROVE  LoopInv'
<1>1. Grows /\ pc \in [Slots -> Steps]
  BY AskGrows DEF TypeInv, RequestsOK
<1>2. UNCHANGED <<accountVars, proofVars, auditVars>>
  BY DEF AskNext, AskLink, CountIp, IssueLink, MailLink, AskUnchanged
<1>3. pc[q] # "auditToggle"
  BY DEF AskNext, AskLink, CountIp, IssueLink, MailLink, Arrive
<1>4. RowInv' /\ ToggleInv'
  BY <1>1, <1>2, <1>3, RowsKept, TogglesKept DEF LoopInv, SubsStay, accountVars, auditVars
<1>5. pc'[q] \notin OpenSteps \cup {"rotate", "create", "linkSub", "auditToggle"}
  BY <1>1 DEF AskNext, AskLink, CountIp, IssueLink, MailLink, Goto, Done, Arrive, OpenSteps
<1> QED
  BY <1>1, <1>4, <1>5, LoopStep DEF LoopAgree

(* Opening a link, in one replica. *)
LEMMA LinkLoop ==
  ASSUME TypeInv, DataInv, LoopInv, scenario.oneReplica, NEW q \in Slots, LinkNext(q)
  PROVE  LoopInv'
<1>1. /\ Grows /\ pc \in [Slots -> Steps] /\ loc \in [Slots -> Local] /\ LoopAgree(q)
      /\ RowInv /\ ToggleInv
  BY LinkGrows DEF TypeInv, RequestsOK, LoopInv
<1>2. UNCHANGED <<proofVars, auditVars>>
  BY DEF LinkNext, OpenLink, FindByLink, BurnLink, BurnRefused
<1>3. pc[q] # "auditToggle"
  BY DEF LinkNext, OpenLink, FindByLink, BurnLink, BurnRefused, Arrive
<1>4. SubsStay /\ \A b \in AccountIds : Exists(b) => isUnlimited'[b] = isUnlimited[b]
  <2>1. CASE UNCHANGED accountVars
    BY <2>1 DEF accountVars, SubsStay
  <2>2. CASE \E a \in AccountIds, e \in {linkEmail[loc[q].link]} :
               InsertAccount(a, e, NoSub, FALSE)
    BY <2>2, InsertStays
  <2> QED
    BY <2>1, <2>2 DEF LinkNext, OpenLink, FindByLink, BurnLink, BurnRefused
<1>5. RowInv' /\ ToggleInv'
  BY <1>1, <1>2, <1>3, <1>4, RowsKept, TogglesKept DEF auditVars
<1>6. LoopAgree(q)'
  <2>1. ASSUME NEW b \in scenario.browsers, NEW t \in Links, OpenLink(q, b, t)
        PROVE  LoopAgree(q)'
    <3>1. pc'[q] = "findByLink" /\ loc'[q].link = t /\ ~linkUsed'[t]
      BY <1>1, <2>1 DEF OpenLink, Goto, Usable, linkVars, NoLocal
    <3> QED
      BY <3>1 DEF LoopAgree
  <2>2. CASE FindByLink(q)
    <3>1. pc'[q] = "burn" /\ loc'[q].link = loc[q].link /\ linkUsed' = linkUsed
      BY <1>1, <2>2 DEF FindByLink, Goto, linkVars, Local
    <3>2. ~linkUsed[loc[q].link]
      BY <1>1, <2>2 DEF FindByLink, LoopAgree, OpenSteps
    <3> QED
      BY <3>1, <3>2 DEF LoopAgree
  <2>3. CASE BurnLink(q)
    <3> DEFINE t == loc[q].link
    <3>1. t \in Links /\ loc[q].profile = NoProfile /\ ~linkUsed[t]
      BY <1>1, <2>3, Needs, Here DEF BurnLink, LoopAgree, OpenSteps
    <3>2. /\ pc'[q] = "rotate" /\ loc'[q].link = t /\ loc'[q].profile = loc[q].profile
          /\ linkUsed' = [linkUsed EXCEPT ![t] = TRUE] /\ byLink' = byLink
      BY <1>1, <1>2, <2>3 DEF BurnLink, Goto, Local, proofVars
    <3> HIDE DEF t
    <3>3. linkUsed'[t] /\ \A s \in SessionIds : byLink[s] # t
      BY <1>1, <3>1, <3>2, SignInAssumption DEF RowInv, TypeInv, LinksOK
    <3> QED
      BY <3>1, <3>2, <3>3 DEF LoopAgree, OpenSteps
  <2>4. CASE BurnRefused(q)
    <3>1. pc'[q] = "idle"
      BY <1>1, <2>4 DEF BurnRefused, Done
    <3> QED
      BY <3>1 DEF LoopAgree, OpenSteps
  <2> QED
    BY <2>1, <2>2, <2>3, <2>4 DEF LinkNext
<1> QED
  BY <1>1, <1>5, <1>6, LoopStep

(* Signing in with Google, in one replica. *)
LEMMA GoogleLoop ==
  ASSUME TypeInv, DataInv, LoopInv, scenario.oneReplica, NEW q \in Slots, GoogleNext(q)
  PROVE  LoopInv' /\ SubsStay
<1>1. /\ Grows /\ pc \in [Slots -> Steps] /\ loc \in [Slots -> Local] /\ LoopAgree(q)
      /\ RowInv /\ ToggleInv
  BY GoogleGrows DEF TypeInv, RequestsOK, LoopInv
<1>2. UNCHANGED <<linkVars, proofVars, auditVars>>
  BY DEF GoogleNext, Callback, ExchangeFails, Refuse, FindBySub, FindByEmail,
         EmailOfOtherSub, LinkSub, InsertGoogle, UpsertRefused, GoogleUnchanged
<1>3. pc[q] # "auditToggle"
  BY DEF GoogleNext, Callback, ExchangeFails, Refuse, FindBySub, FindByEmail,
         EmailOfOtherSub, LinkSub, InsertGoogle, UpsertRefused, Arrive
<1>4. SubsStay /\ \A b \in AccountIds : Exists(b) => isUnlimited'[b] = isUnlimited[b]
  <2>1. CASE UNCHANGED accountVars
    BY <2>1 DEF accountVars, SubsStay
  <2>2. CASE InsertGoogle(q)
    BY <2>2, InsertStays DEF InsertGoogle
  <2>3. CASE LinkSub(q)
    <3>1. googleSub[loc[q].account] = NoSub
      BY <1>1, <2>3 DEF LinkSub, LoopAgree
    <3> QED
      BY <2>3, <3>1 DEF LinkSub, SetGoogleSub, SubsStay, TypeInv, AccountsTypeOK
  <2> QED
    BY <2>1, <2>2, <2>3 DEF GoogleNext, Callback, ExchangeFails, Refuse, FindBySub, FindByEmail,
         EmailOfOtherSub, UpsertRefused
<1>5. RowInv' /\ ToggleInv'
  BY <1>1, <1>2, <1>3, <1>4, RowsKept, TogglesKept DEF auditVars
<1>6. LoopAgree(q)'
  <2>1. ASSUME pc'[q] \in {"idle", "exchange", "findByEmail", "insert"} PROVE LoopAgree(q)'
    BY <2>1 DEF LoopAgree, OpenSteps
  <2>2. CASE \/ \E b \in scenario.browsers, f \in Flows : Callback(q, b, f)
             \/ ExchangeFails(q) \/ EmailOfOtherSub(q) \/ UpsertRefused(q)
    BY <1>1, <2>1, <2>2 DEF Callback, ExchangeFails, EmailOfOtherSub, UpsertRefused, Refuse,
                            Goto, Done
  (* The rows of a profile: the step that follows knows the subject.       *)
  <2>3. ASSUME pc'[q] = "rotate", loc'[q].link = NoLink,
               googleSub'[loc'[q].account] = loc'[q].profile.sub
        PROVE  LoopAgree(q)'
    BY <2>3 DEF LoopAgree, OpenSteps
  <2>4. ASSUME NEW p \in Profiles, FindBySub(q, p) PROVE LoopAgree(q)'
    <3> DEFINE a == AccountOf(BySub(p.sub))
    <3>1. BySub(p.sub) # {} => googleSub[a] = p.sub
      BY AccountOfRows DEF BySub
    <3> HIDE DEF a
    <3>2. /\ loc'[q].link = loc[q].link /\ loc'[q].profile = p /\ loc'[q].account = a
          /\ googleSub' = googleSub
      BY <1>1, <2>4 DEF FindBySub, Local, accountVars, a
    <3>3. loc[q].link = NoLink
      BY <2>4, Needs, Here DEF FindBySub
    <3>4. CASE BySub(p.sub) # {}
      <4>1. pc'[q] = "rotate"
        BY <1>1, <2>4, <3>4 DEF FindBySub, Goto
      <4> QED
        BY <2>3, <3>1, <3>2, <3>3, <3>4, <4>1
    <3>5. CASE BySub(p.sub) = {}
      <4>1. pc'[q] = "findByEmail"
        BY <1>1, <2>4, <3>5 DEF FindBySub, Goto
      <4> QED
        BY <2>1, <4>1
    <3> QED
      BY <3>4, <3>5
  <2>5. CASE FindByEmail(q)
    <3> DEFINE a == AccountOf(ByEmail(loc[q].profile.email))
               s == loc[q].profile.sub
    <3>1. /\ a # NoAccount => googleSub[a] = NoSub \/ googleSub[a] = s
          /\ pc'[q] = IF a = NoAccount THEN "insert"
                      ELSE IF googleSub[a] = s THEN "rotate" ELSE "linkSub"
          /\ loc'[q].account = a
      BY <1>1, <2>5, AccountOfRows DEF FindByEmail, Goto, Mismatch, Local, ByEmail
    <3> HIDE DEF a
    <3>2. /\ loc'[q].link = loc[q].link /\ loc'[q].profile = loc[q].profile
          /\ googleSub' = googleSub
      BY <1>1, <2>5 DEF FindByEmail, Local, accountVars
    <3>3. loc[q].link = NoLink
      BY <2>5, Needs, Here DEF FindByEmail
    <3>4. CASE pc'[q] = "linkSub"
      BY <3>1, <3>2, <3>4 DEF LoopAgree, OpenSteps
    <3>5. CASE pc'[q] = "rotate"
      BY <2>3, <3>1, <3>2, <3>3, <3>5
    <3>6. CASE pc'[q] = "insert"
      BY <2>1, <3>6
    <3> QED
      BY <3>1, <3>4, <3>5, <3>6
  <2>6. CASE LinkSub(q)
    <3>1. loc[q].link = NoLink /\ loc[q].account \in AccountIds
      BY <2>6, Needs, Here DEF LinkSub
    <3>2. pc'[q] = "rotate" /\ loc' = loc
          /\ googleSub'[loc[q].account] = loc[q].profile.sub
      BY <1>1, <2>6, <3>1 DEF LinkSub, Goto, SetGoogleSub, TypeInv, AccountsTypeOK
    <3> QED
      BY <2>3, <3>1, <3>2
  <2>7. CASE InsertGoogle(q)
    <3>1. loc[q].link = NoLink
      BY <2>7, Needs, Here DEF InsertGoogle
    <3>2. PICK a \in AccountIds :
            /\ InsertAccount(a, loc[q].profile.email, loc[q].profile.sub, FALSE)
            /\ loc' = [loc EXCEPT ![q].account = a]
      BY <2>7 DEF InsertGoogle
    <3>3. /\ pc'[q] = "rotate" /\ loc'[q].link = loc[q].link
          /\ loc'[q].profile = loc[q].profile /\ loc'[q].account = a
      BY <1>1, <2>7, <3>2 DEF InsertGoogle, Goto, Local
    <3>4. googleSub'[a] = loc[q].profile.sub
      BY <3>2, InsertStays
    <3> QED
      BY <2>3, <3>1, <3>3, <3>4
  <2> QED
    BY <2>2, <2>4, <2>5, <2>6, <2>7 DEF GoogleNext
<1> QED
  BY <1>1, <1>4, <1>5, <1>6, LoopStep

(* The end of a sign-in, in one replica. *)
LEMMA TailLoop ==
  ASSUME TypeInv, DataInv, LoopInv, scenario.oneReplica, NEW q \in Slots, TailNext(q)
  PROVE  LoopInv'
<1>1. /\ Grows /\ pc \in [Slots -> Steps] /\ loc \in [Slots -> Local] /\ LoopAgree(q)
      /\ RowInv /\ ToggleInv
  BY TailGrows DEF TypeInv, RequestsOK, LoopInv
<1>2. UNCHANGED <<accountVars, linkVars>> /\ toggled' = toggled
  BY DEF TailNext, DropPresented, OpenSession, AuditLogin, Respond, TailUnchanged, auditVars
<1>3. SubsStay /\ isUnlimited' = isUnlimited /\ googleSub' = googleSub /\ linkUsed' = linkUsed
  BY <1>2 DEF SubsStay, accountVars, linkVars
<1>4. ToggleInv'
  <2>1. pc[q] # "auditToggle"
    BY DEF TailNext, DropPresented, OpenSession, AuditLogin, Respond
  <2> QED
    BY <1>1, <1>2, <1>3, <2>1, TogglesKept
<1>5. CASE DropPresented(q)
  <2>1. pc'[q] = "create" /\ loc' = loc /\ byLink' = byLink
    BY <1>1, <1>5 DEF DropPresented, Goto, proofVars
  <2>2. LoopAgree(q)'
    BY <1>1, <1>3, <1>5, <2>1 DEF DropPresented, LoopAgree, OpenSteps
  <2>3. RowInv'
    BY <1>1, <1>3, <1>5, RowsKept DEF DropPresented
  <2> QED
    BY <1>1, <1>4, <2>2, <2>3, LoopStep
<1>6. CASE OpenSession(q)
  <2>1. PICK s \in SessionIds :
          /\ phase[s] = "unused"
          /\ owner' = [owner EXCEPT ![s] = loc[q].account]
          /\ byLink' = [byLink EXCEPT ![s] = loc[q].link]
          /\ byProfile' = [byProfile EXCEPT ![s] = loc[q].profile]
    BY <1>6 DEF OpenSession, CreateSession, NextSession
  <2>2. pc'[q] = "auditLogin"
    BY <1>1, <1>6 DEF OpenSession, Goto
  <2>3. LoopAgree(q)'
    BY <2>2 DEF LoopAgree, OpenSteps
  <2>4. /\ owner'[s] = loc[q].account /\ byLink'[s] = loc[q].link
        /\ byProfile'[s] = loc[q].profile
        /\ \A r \in SessionIds : r # s =>
             byLink'[r] = byLink[r] /\ byProfile'[r] = byProfile[r] /\ owner'[r] = owner[r]
    BY <2>1 DEF TypeInv, ProofsOK, SessionsOK, SessionsTypeOK
  <2>5. /\ loc[q].link # NoLink =>
             linkUsed[loc[q].link] /\ \A r \in SessionIds : byLink[r] # loc[q].link
        /\ loc[q].profile # NoProfile => googleSub[loc[q].account] = loc[q].profile.sub
    BY <1>1, <1>6 DEF OpenSession, LoopAgree
  <2>6. RowInv'
    BY <1>1, <1>3, <2>4, <2>5 DEF RowInv
  <2> QED
    BY <1>1, <1>4, <1>6, <2>3, <2>6, LoopStep
<1>7. CASE AuditLogin(q) \/ Respond(q)
  <2>1. pc'[q] \in {"respond", "idle"} /\ UNCHANGED proofVars
    BY <1>1, <1>7 DEF AuditLogin, Respond, Goto, Done
  <2>2. LoopAgree(q)'
    BY <2>1 DEF LoopAgree, OpenSteps
  <2>3. RowInv'
    BY <1>1, <1>3, <2>1, RowsKept
  <2> QED
    BY <1>1, <1>4, <2>2, <2>3, LoopStep
<1> QED
  BY <1>5, <1>6, <1>7 DEF TailNext

(* Calls, the toggle and signing out, in one replica. *)
LEMMA CallLoop ==
  ASSUME TypeInv, DataInv, LoopInv, scenario.oneReplica, NEW q \in Slots, CallNext(q)
  PROVE  LoopInv'
<1>1. /\ Grows /\ pc \in [Slots -> Steps] /\ loc \in [Slots -> Local] /\ LoopAgree(q)
      /\ RowInv /\ ToggleInv /\ OneInLoop
  BY CallGrows DEF TypeInv, RequestsOK, LoopInv
<1>2. UNCHANGED proofVars /\ googleSub' = googleSub
  BY DEF CallNext, Call, ExpireSession, Touch, LoadUser, SessionGone, HandleCall,
         ToggleUnlimited, AuditToggle, Logout, SignedOut, CallUnchanged, SetUnlimited,
         accountVars
<1>3. RowInv'
  BY <1>1, <1>2, RowsKept DEF SubsStay
<1>4. ASSUME NEW a \in AccountIds, NEW f \in BOOLEAN, ToggleUnlimited(q, a, f)
      PROVE  ToggleInv' /\ LoopAgree(q)'
  <2>1. /\ isUnlimited' = [isUnlimited EXCEPT ![a] = f] /\ toggled' = toggled
        /\ pc'[q] = "auditToggle" /\ loc'[q].account = a /\ loc'[q].flag = f
        /\ LoopFree(q) /\ pc[q] = "handle"
    BY <1>1, <1>4 DEF ToggleUnlimited, SetUnlimited, Goto, Local
  <2>2. isUnlimited'[a] = f
    BY <2>1 DEF TypeInv, AccountsTypeOK
  <2>3. LoopAgree(q)'
    BY <2>1, <2>2 DEF LoopAgree, OpenSteps
  <2>4. \A p \in Slots : pc[p] # "auditToggle"
    BY <2>1 DEF LoopFree, LoopSteps
  <2>5. ToggleInv'
    <3> SUFFICES ASSUME ~scenario.aborts, "seed" \notin scenario.kinds, NEW b \in AccountIds
                 PROVE  \/ toggled'[b] \in {NoFlag, isUnlimited'[b]}
                        \/ \E p \in Slots : pc'[p] = "auditToggle" /\ loc'[p].account = b
      BY <1>1 DEF ToggleInv, Grows
    <3>1. CASE b = a
      BY <2>1, <3>1
    <3>2. CASE b # a
      <4>1. isUnlimited'[b] = isUnlimited[b]
        BY <2>1, <3>2 DEF TypeInv, AccountsTypeOK
      <4> QED
        BY <1>1, <2>1, <2>4, <4>1 DEF ToggleInv
    <3> QED
      BY <3>1, <3>2
  <2> QED
    BY <2>3, <2>5
<1>5. CASE AuditToggle(q)
  <2> DEFINE a == loc[q].account
  <2>1. /\ toggled' = [toggled EXCEPT ![a] = loc[q].flag]
        /\ pc'[q] = "idle" /\ isUnlimited' = isUnlimited
        /\ pc[q] = "auditToggle"
    BY <1>1, <1>5 DEF AuditToggle, Done
  <2>2. LoopAgree(q)'
    BY <2>1 DEF LoopAgree, OpenSteps
  <2> HIDE DEF a
  <2>3. ToggleInv'
    <3> SUFFICES ASSUME ~scenario.aborts, "seed" \notin scenario.kinds, NEW b \in AccountIds
                 PROVE  toggled'[b] \in {NoFlag, isUnlimited'[b]}
      BY <1>1 DEF ToggleInv, Grows
    <3>1. CASE b = a
      <4>1. toggled'[b] = loc[q].flag
        BY <2>1, <3>1 DEF TypeInv, AuditOK
      <4>2. loc[q].flag = isUnlimited[a]
        BY <1>1, <2>1 DEF LoopAgree, a
      <4> QED
        BY <2>1, <3>1, <4>1, <4>2
    <3>2. CASE b # a
      <4>1. toggled'[b] = toggled[b]
        BY <2>1, <3>2 DEF TypeInv, AuditOK
      <4>2. ~\E p \in Slots : pc[p] = "auditToggle" /\ loc[p].account = b
        BY <1>1, <2>1, <3>2 DEF OneInLoop, LoopSteps, a
      <4> QED
        BY <1>1, <2>1, <4>1, <4>2 DEF ToggleInv
    <3> QED
      BY <3>1, <3>2
  <2> QED
    BY <1>1, <1>3, <2>2, <2>3, LoopStep
<1>6. CASE \/ \E b \in scenario.browsers : Call(q, b) \/ Logout(q, b)
           \/ ExpireSession(q) \/ Touch(q) \/ LoadUser(q) \/ SessionGone(q) \/ HandleCall(q)
           \/ SignedOut(q)
  <2>1. toggled' = toggled /\ isUnlimited' = isUnlimited
    BY <1>6 DEF Call, ExpireSession, Touch, LoadUser, SessionGone, HandleCall, Logout,
                SignedOut, auditVars, accountVars
  <2>2. pc[q] # "auditToggle"
    BY <1>6 DEF Call, ExpireSession, Touch, LoadUser, SessionGone, HandleCall, Logout,
                SignedOut, Arrive
  <2>3. pc'[q] \notin OpenSteps \cup {"rotate", "create", "linkSub", "auditToggle"}
    BY <1>1, <1>6 DEF Call, ExpireSession, Touch, LoadUser, SessionGone, HandleCall, Logout,
                      SignedOut, Goto, Done, OpenSteps
  <2>4. LoopAgree(q)'
    BY <2>3 DEF LoopAgree
  <2>5. ToggleInv'
    BY <1>1, <2>1, <2>2, TogglesKept
  <2> QED
    BY <1>1, <1>3, <2>4, <2>5, LoopStep
<1> QED
  BY <1>1, <1>3, <1>4, <1>5, <1>6, LoopStep DEF CallNext

(* The seed script next to one replica. *)
LEMMA SeedLoop ==
  ASSUME TypeInv, DataInv, LoopInv, scenario.oneReplica, NEW q \in Slots, SeedNext(q)
  PROVE  LoopInv' /\ SubsStay
<1>1. /\ Grows /\ pc \in [Slots -> Steps] /\ RowInv /\ ToggleInv
  BY SeedGrows DEF TypeInv, RequestsOK, LoopInv
<1>2. UNCHANGED <<proofVars, auditVars>>
  BY DEF SeedNext, Seed, SeedAdmin, SeedRefused, SeedUnchanged
<1>3. "seed" \in scenario.kinds /\ pc[q] # "auditToggle"
  BY DEF SeedNext, Seed, SeedAdmin, SeedRefused, Arrive, DataInv, AgreeInv, Agree
<1>4. SubsStay
  BY InsertStays DEF SeedNext, Seed, SeedAdmin, SeedRefused, PromoteAccount, accountVars, SubsStay
<1>5. RowInv' /\ ToggleInv'
  BY <1>1, <1>2, <1>3, <1>4, RowsKept, TogglesKept DEF auditVars
<1>6. pc'[q] \in {"seed", "idle"}
  BY <1>1 DEF SeedNext, Seed, SeedAdmin, SeedRefused, Goto, Done
<1> QED
  BY <1>1, <1>4, <1>5, <1>6, LoopStep DEF LoopAgree, OpenSteps

(* Every step of a system with one replica. *)
LEMMA NextLoopInv ==
  ASSUME TypeInv, DataInv, LoopInv, [Next]_vars
  PROVE  LoopInv' /\ (scenario.oneReplica => SubsStay)
<1>1. Grows /\ pc \in [Slots -> Steps]
  BY NextGrows DEF TypeInv, RequestsOK
<1>2. CASE ~scenario.oneReplica
  BY <1>1, <1>2 DEF LoopInv, Grows
<1>3. CASE scenario.oneReplica
  <2> USE <1>3
  <2>1. ASSUME NEW q \in Slots, AskNext(q) PROVE LoopInv' /\ SubsStay
    BY <2>1, AskLoop DEF AskNext, AskLink, CountIp, IssueLink, MailLink, AskUnchanged,
                         accountVars, SubsStay
  <2>2. ASSUME NEW q \in Slots, LinkNext(q) PROVE LoopInv' /\ SubsStay
    <3>1. UNCHANGED accountVars \/ \E a \in AccountIds, e \in {linkEmail[loc[q].link]} :
                                     InsertAccount(a, e, NoSub, FALSE)
      BY <2>2 DEF LinkNext, OpenLink, FindByLink, BurnLink, BurnRefused
    <3>2. SubsStay
      BY <3>1, InsertStays DEF accountVars, SubsStay
    <3> QED
      BY <2>2, <3>2, LinkLoop
  <2>3. ASSUME NEW q \in Slots, GoogleNext(q) PROVE LoopInv' /\ SubsStay
    BY <2>3, GoogleLoop
  <2>4. ASSUME NEW q \in Slots, TailNext(q) PROVE LoopInv' /\ SubsStay
    BY <2>4, TailLoop DEF TailNext, DropPresented, OpenSession, AuditLogin, Respond,
                          TailUnchanged, accountVars, SubsStay
  <2>5. ASSUME NEW q \in Slots, CallNext(q) PROVE LoopInv' /\ SubsStay
    BY <2>5, CallLoop DEF CallNext, Call, ExpireSession, Touch, LoadUser, SessionGone, HandleCall,
         ToggleUnlimited, AuditToggle, Logout, SignedOut, CallUnchanged, SetUnlimited,
         accountVars, SubsStay
  <2>6. ASSUME NEW q \in Slots, SeedNext(q) PROVE LoopInv' /\ SubsStay
    BY <2>6, SeedLoop
  <2>7. ASSUME NEW q \in Slots, Abort(q) PROVE LoopInv' /\ SubsStay
    <3>1. /\ UNCHANGED <<accountVars, proofVars, auditVars>> /\ pc'[q] = "idle"
          /\ scenario.aborts
      BY <1>1, <2>7 DEF Abort, Done
    <3>2. SubsStay /\ RowInv'
      BY <1>1, <3>1, RowsKept DEF LoopInv, SubsStay, accountVars
    <3>3. ToggleInv' /\ LoopAgree(q)'
      BY <1>1, <3>1 DEF ToggleInv, Grows, LoopAgree, OpenSteps
    <3> QED
      BY <1>1, <2>7, <3>2, <3>3, LoopStep
  <2>8. CASE \/ \E b \in scenario.browsers, f \in Flows : GoogleLogin(b, f) \/ CallbackRefused(b, f)
             \/ Tick
             \/ UNCHANGED vars
    <3>1. UNCHANGED <<scenario, accountVars, sessionVars, linkVars, proofVars, auditVars, pc, loc>>
      BY <2>8 DEF GoogleLogin, CallbackRefused, GoogleUnchanged, Tick, vars
    <3>2. UNCHANGED <<scenario, googleSub, isUnlimited, owner, linkUsed, byLink, byProfile,
                      toggled, pc, loc>>
      BY <3>1 DEF accountVars, sessionVars, linkVars, proofVars, auditVars
    <3> QED
      BY <3>2 DEF LoopInv, OneInLoop, RowInv, ToggleInv, LoopAgree, SubsStay
  <2> QED
    BY <2>1, <2>2, <2>3, <2>4, <2>5, <2>6, <2>7, <2>8 DEF Next
<1> QED
  BY <1>2, <1>3

(* At the start no request is in progress and no session has a history. *)
LEMMA InitLoopInv == Init => LoopInv
BY DEF Init, LoopInv, OneInLoop, RowInv, ToggleInv, LoopAgree, LoopSteps, AskSteps, OpenSteps,
       GoogleSteps, TailSteps

(* The invariant of the event loop holds in every reachable state. *)
LEMMA LoopInvariant == Spec => [](TypeInv /\ DataInv /\ LoopInv)
<1>1. TypeInv /\ DataInv /\ LoopInv /\ [Next]_vars => LoopInv'
  BY NextLoopInv
<1> QED
  BY <1>1, InitLoopInv, DataInvariant, PTL DEF Spec

(* With one API replica a link opens at most one session.                  *)
THEOREM LinksAreSingleUse == Spec => []LinkUsedOnce
<1>1. LoopInv => LinkUsedOnce
  BY DEF LoopInv, RowInv, LinkUsedOnce
<1> QED
  BY <1>1, LoopInvariant, PTL

(* With one API replica a session opened with Google is of the account     *)
(* that carries the subject Google vouched for.                            *)
THEOREM GoogleOpensItsSubjectsSession == Spec => []SessionOfGoogleSubject
<1>1. LoopInv => SessionOfGoogleSubject
  BY DEF LoopInv, RowInv, SessionOfGoogleSubject
<1> QED
  BY <1>1, LoopInvariant, PTL

(* With one API replica a linked account keeps its Google subject.         *)
THEOREM GoogleLinksStay == Spec => GoogleLinkStable
<1>1. TypeInv /\ DataInv /\ LoopInv /\ [Next]_vars =>
        [scenario.oneReplica =>
           \A a \in AccountIds : googleSub[a] # NoSub => googleSub'[a] = googleSub[a]]_vars
  BY NextLoopInv DEF SubsStay
<1> QED
  BY <1>1, LoopInvariant, PTL DEF Spec, GoogleLinkStable

(* With one API replica, no request dying half-way and no seed script, the *)
(* last toggle in the audit log tells the flag an account has.             *)
THEOREM TogglesAreAudited == Spec => []FlagMatchesAudit
<1>1. LoopInv => FlagMatchesAudit
  BY DEF LoopInv, ToggleInv, FlagMatchesAudit
<1> QED
  BY <1>1, LoopInvariant, PTL
=============================================================================
