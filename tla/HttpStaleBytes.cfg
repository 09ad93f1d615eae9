SPECIFICATION Spec
CONSTANTS
  Scripts <- PipelinedPosts
  Cap = 9
  MaxBody = 4
  LongMax = 50
  KeepAliveMax = 3
INVARIANT AnsweredAsSent
CHECK_DEADLOCK FALSE
