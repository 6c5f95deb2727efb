SPECIFICATION FairSpec
CONSTANTS
  MaxUpdates = 2
  MaxTexts = 1
  MaxFiles = 1
  MaxSettings = 2
  FewSettings = 1
  MaxFaults = 1
  None = None
INVARIANTS TypeOK AnswersAreWhole NothingSkipped
PROPERTIES OneTurnPerMessage MessagesAreServed
CHECK_DEADLOCK FALSE
