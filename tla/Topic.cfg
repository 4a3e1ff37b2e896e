SPECIFICATION MCSpec
CONSTANTS
  Initiator = Ann
  Invitee = Bob
  Worker = {w1, w2}
  None = None
  Device = {d1, d2}
  Slot = {1, 2}
  MaxOrder = 2
  Shipped = {1}
  MaxActs = 5
  MaxEdits = 1
  Prepared = 1
INVARIANT OneGenerator
INVARIANT OwnCardOnly
INVARIANT ProgressIsJoin
INVARIANT PlaceKept
CHECK_DEADLOCK FALSE
