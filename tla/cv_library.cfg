CONSTANTS
  Cvs = {1, 2}
  Slots = {"q1", "q2"}
  Scenarios <- MCScenarios
  MaxCalls = 2
  NoCv = NoCv
SPECIFICATION FairSpec
INVARIANTS CvTypeOK DeletedIsGone FilesMatchRows SuggestionAudited
PROPERTIES RequestsEndIfParsersDo ImplementsShelf
CHECK_DEADLOCK FALSE
