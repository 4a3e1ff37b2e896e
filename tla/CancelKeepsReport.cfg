CONSTANTS
  Ann = Ann
  Bob = Bob
  i1 = i1
  w1 = w1
  w2 = w2
  None = None
  Users = {Ann, Bob}
  HasSingle = {Ann, Bob}
  Workers = {w1, w2}
  InviteId = {i1}
  Handlers = {"reuse", "cancel"}
  RenewMax = 1
  RemindMax = 1
  ReplacementMax = 1
  MaxSent = 0
  Procs = {p1}
  Attempts = 2
  Deployments <- CancelDeployment
SPECIFICATION ConsentedSpec
INVARIANTS
  CancelKeepsReport
CHECK_DEADLOCK FALSE
