SPECIFICATION MCSpec
CONSTANTS
  d1 = d1
  d2 = d2
  o1 = o1
  s1 = s1
  v1 = v1
  NoAnswer = NoAnswer
  Device <- TwoDevices
  Ordinary <- OneOrdinary
  Sensitive <- OneSensitive
  MaxCalls = 2
  Value <- OneValue
  None = NoAnswer
  MaxSheets = 2
  MaxActs = 6
  Fewer = 1
SYMMETRY Devices
INVARIANT NothingKeptForSkipped
INVARIANT LockedAnswersScored
INVARIANT SameVersionSameAnswers
PROPERTY LockedChangesOnce
CHECK_DEADLOCK FALSE
