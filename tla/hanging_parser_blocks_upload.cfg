CONSTANTS
  Cvs = {1}
  Slots = {"q1", "q2"}
  Scenarios <- OneReplica
  MaxCalls = 1
  NoCv = NoCv
SPECIFICATION FairSpec
PROPERTIES TimeoutEndsUpload
CHECK_DEADLOCK FALSE
