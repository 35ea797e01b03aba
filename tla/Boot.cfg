SPECIFICATION FairSpec
CONSTANTS
  MaxContexts = 4
  RequestDepth = 2
  ReplyDepth = 2
  MaxOtherWords = 2
  Tags <- BootTags
  NoTag = NoTag
INVARIANTS
  StatusIsCurrent
  RequestsStayLive
  AnswerIsForThisCall
  AnswersAreToQuestions
  OneLedAttempt
PROPERTIES
  BootSettles
CHECK_DEADLOCK FALSE
