SPECIFICATION MCSpec
CONSTANTS
  Flow = {f1, f2}
  MaxTokens = 2
  Tab = {"t1", "t2"}
  Reader = "t2"
  Field = {"configValue", "isPublic"}
  Switch = "isPublic"
  Picture = "configValue"
  Text <- Texts
  Normal <- Trimmed
  Original <- Seeded
  Object = {1, 2, 3}
  Slot = {1, 2}
  MaxEdits = 3
  Admin = {ann, bea}
  Second = bea
  Window = {w1, w2}
  Aside = w2
  Line = {1, 2}
  Nobody = Nobody
  MaxSessions = 2
  MaxSecrets = 2
  MaxClicks = 4
  Together = 3
SYMMETRY Flows
INVARIANT LogoutEndsSession
INVARIANT ReplayIsAuthorised
INVARIANT OnlyWhatWasTouched
INVARIANT EditsTraced
INVARIANT NeverLockedOut
PROPERTY EndedStaysEnded
PROPERTY LoginNeedsConsent
CHECK_DEADLOCK FALSE
