SPECIFICATION FairSpec
CONSTANTS
  Attempts = {a1, a2}
  Ids = {i1}
  Texts <- MCTexts
  Msgs <- TextAndFile
CHECK_DEADLOCK FALSE
INVARIANTS
  DeliveredIsRemembered
  AtMostOnce
  AnswersAreTrue
PROPERTIES
  EveryRequestEnds
