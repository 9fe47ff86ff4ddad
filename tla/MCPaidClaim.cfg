SPECIFICATION Spec
CONSTANTS
  b1 = b1 b2 = b2 s1 = s1 s2 = s2 p1 = p1 p2 = p2 v1 = v1 v2 = v2
  r1 = r1 r2 = r2 u1 = u1 u2 = u2
  Bookings = {b1}
  Seats = {}
  Passengers = {}
  Vouchers = {}
  Owner <- OneUser
  UsageLimit <- NoLimits
  Requests = {r1, r2}
  ClientVersions <- Versions
  Ops <- TwoGatewayOps
  MaxRefunds = 2
  MaxAwards = 2
  None = None
CHECK_DEADLOCK FALSE
INVARIANTS ConfirmedIsPaid
