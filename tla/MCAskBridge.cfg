SPECIFICATION AskSpec
CONSTANTS
  Questions = {q1, q2}
  Answers = {a1, a2, a3}
  Default = Default
CHECK_DEADLOCK FALSE
INVARIANTS
  OnlyAcceptedAnswersAreUsed
  AcceptedIsNotLost
PROPERTIES
  QuestionsEnd
