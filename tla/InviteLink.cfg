CONSTANTS
  Ann = Ann
  Bob = Bob
  Cat = Cat
  i1 = i1
  None = None
  Deployments <- Linking
  Creators = {Ann}
  Users = {Ann, Bob, Cat}
  HasSingle = {Ann}
  Workers = {w1, w2}
  InviteId = {i1}
  Handlers = {"create", "open", "consent", "decline", "renew", "remind", "delete", "cancel"}
  RenewMax = 1
  RemindMax = 1
  ReplacementMax = 1
  MaxSent = 2
SPECIFICATION MCFairSpec
INVARIANTS
  OneAnswerRecorded
  RefusedCostsNothing
PROPERTIES
  InviteeNeverReplaced
  OverdueEnds
CHECK_DEADLOCK FALSE
