SPECIFICATION OtaSpec
CONSTANTS
  Sizes = {1, 2}
  MaxSessions = 2
CHECK_DEADLOCK FALSE
INVARIANTS NoDoseWhileWriting AnswersTrue
PROPERTIES SessionEnds UpdateSpec
