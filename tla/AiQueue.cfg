CONSTANTS
  Worker = {w1, w2}
  Module = {notes, growth}
  StarterModule = {notes}
  StarterLimit = 1
  ScaleLimit = 2
  MaxVersion = 2
SPECIFICATION FairSpec
INVARIANT RunningIsEntitled
PROPERTIES AnswersAreFinal ActionsEnd
CHECK_DEADLOCK FALSE
