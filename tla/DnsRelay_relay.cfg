CONSTANTS
  Clients = {"c1", "c2"}
  Questions <- MCQuestions
  Ptr <- MCPtr
  Lists <- FlatLists
  Replies <- MCReplies
  AddRoute = TRUE
  CacheTime = 1
  Scripts <- MCScripts
  MaxAsks = 3
  MaxFaults = 1
  MaxTime = 2
SPECIFICATION LiveSpec
CHECK_DEADLOCK FALSE
INVARIANTS
  EachQueryOnce
  AnswersMatch
  RightServer
  GivenIsRouted
PROPERTIES
  EventuallyAnswered
