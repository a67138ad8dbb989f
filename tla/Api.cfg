SPECIFICATION ApiSpec
CONSTANTS
  p1 = p1
  p2 = p2
  w1 = w1
  w2 = w2
  r1 = r1
  r2 = r2
  paid = paid
  ended = ended
  raised = raised
  polar = polar
  None = None
  Process = {p1, p2}
  Worker = {w1, w2}
  Reader = {r1, r2}
  HostOf <- Hosts
  Event = {paid, ended, raised}
  OccurredAt <- Times
  RoleOf <- Plans
  CustomerOf <- Customers
  Carrying = {paid, raised}
  Customer = {polar}
  TTL = 2
  MaxRead = 1
  old = old
  new = new
  v1 = v1
  v2 = v2
  user = user
  checkout = checkout
  q1 = q1
  q2 = q2
  Kid = {old, new}
  Verifier = {v1, v2}
  KeyTTL = 3
  MinRefresh = 2
  MaxFetch = 1
  Nobody = Nobody
  Post = {q1, q2}
  Subject = {user, checkout}
  Plan = {"free", "coffee", "pro"}
  LimitOf <- Limits
  Unplanned = Unplanned
  MaxTried = 4
INVARIANTS NewestRecordedWins AcceptedIsRecorded ServedRoleIsRecent RefusedWasAbsent AcceptedWasListed QuotaIsExact
