\* As in Api.cfg; the end of the subscription does not carry the user's external_id.
SPECIFICATION Spec
CONSTANTS
  p1 = p1
  p2 = p2
  w1 = w1
  w2 = w2
  r1 = r1
  r2 = r2
  paid = paid
  ended = ended
  raised = raised
  polar = polar
  None = None
  Process = {p1, p2}
  Worker = {w1, w2}
  Reader = {r1, r2}
  HostOf <- Hosts
  Event = {paid, ended, raised}
  OccurredAt <- Times
  RoleOf <- Plans
  CustomerOf <- Customers
  Carrying = {paid, raised}
  Customer = {polar}
  TTL = 2
  MaxRead = 1
INVARIANT NewestAcceptedWins
