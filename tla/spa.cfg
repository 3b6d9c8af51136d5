CONSTANTS
  r1 = r1
  r2 = r2
  Runs = {r1, r2}
  Cvs = {c1, c2}
  NewCvs = {c2}
  FirstStatus <- MCFirstStatus
  MaxCalls = 2
  None = None
SPECIFICATION FairSpec
INVARIANTS SpaTypeOK OnePollWhileRunning
PROPERTIES OnlyCurrentAnswersShown PollingSucceeds
