CONSTANTS
  AccountIds = {1, 2}
  Emails = {"e1", "e2"}
  Subs = {"g1", "g2"}
  SessionIds = {1, 2}
  IdleTimeout = 2
  AbsoluteTimeout = 3
  Ips = {"i1"}
  Buckets = {"e1", "e2", "i1"}
  Window = 1
  EmailLimit = 1
  IpLimit = 1
  MaxClock = 3
  MaxCount = 2
  q1 = q1
  q2 = q2
  Slots = {q1, q2}
  Browsers = {"b1", "b2"}
  Links = {1, 2}
  Flows = {1, 2}
  Profiles <- MCProfiles
  Scenarios <- MCScenarios
  LinkLife = 2
  Operator = "e1"
  NoEmail = NoEmail
  NoSub = NoSub
  NoSession = NoSession
  NoAccount = NoAccount
  NoLink = NoLink
  NoFlow = NoFlow
  NoBrowser = NoBrowser
  NoProfile = NoProfile
  NoFlag = NoFlag
SYMMETRY SlotSymmetry
SPECIFICATION Spec
INVARIANTS SignInTypeOK EmailLimitPerWindow LinkUsedOnce SessionOfLinkOwner SessionOfGoogleSubject CookieAudited FlagMatchesAudit OneAccountPerIdentity CallbackFromOwnBrowser
PROPERTIES GoogleLinkStable ImplementsSessionLifetime
CHECK_DEADLOCK FALSE
