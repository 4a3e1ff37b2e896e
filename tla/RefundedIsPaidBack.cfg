CONSTANTS
  None = None
  b1 = b1
  b2 = b2
  c1 = c1
  Buyers = {b1, b2}
  OrderId = {1, 2}
  Coupons = {c1}
  Workers = {w1, w2}
  Deployments <- MCDeployments
  MaxRows = 2
SPECIFICATION Spec
SYMMETRY Symmetry
INVARIANT RefundedIsPaidBack
CHECK_DEADLOCK FALSE
