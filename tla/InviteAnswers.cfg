CONSTANTS
  Ann = Ann
  Bob = Bob
  Cat = Cat
  i1 = i1
  None = None
  Creators = {Ann}
  Users = {Ann, Bob}
  HasSingle = {Ann, Bob}
  Workers = {w1, w2}
  InviteId = {i1, i2, i3}
  Handlers = {"create", "replace", "cancel", "delete", "open", "consent", "decline", "openSheet", "saveDraft", "submit", "reuse"}
  Deployments <- AnsweringAndReplacing
  RenewMax = 1
  RemindMax = 1
  ReplacementMax = 1
  MaxSent = 0
SPECIFICATION MCSpec
SYMMETRY Symmetry
INVARIANTS
  ConsentEvidence
  CompletedHasSnapshots
  ReplacedOnce
  OneActiveUnlessRenewed
PROPERTIES
  KeepsPromise
  StatusFollowsMachine
CHECK_DEADLOCK FALSE
