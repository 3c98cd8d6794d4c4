CONSTANTS
  Clients = {"c1", "c2"}
  Questions <- MCQuestions
  Ptr <- MCPtr
  Lists <- NestedLists
  Replies <- MCReplies
  AddRoute = TRUE
  CacheTime = 1
  Scripts <- MCScripts
  MaxAsks = 3
  MaxFaults = 1
  MaxTime = 2
SPECIFICATION Spec
CHECK_DEADLOCK FALSE
INVARIANT ListedAskTrusted
