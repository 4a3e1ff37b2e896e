CONSTANTS
  Slot = {1, 2, 3}
  MaxCalls = 1
  MaxActs = 3
  MaxAttempts = 2
SPECIFICATION FairSpec
INVARIANT QuestionnaireNeedsConsent
PROPERTY PagesFallSilent
CHECK_DEADLOCK FALSE
