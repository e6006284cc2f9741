SPECIFICATION Spec
CONSTANTS
  u1 = u1  u2 = u2  l1 = l1  l2 = l2  d1 = d1  b1 = b1  b2 = b2
  dev1 = dev1  dev2 = dev2  e1 = e1  e2 = e2  e3 = e3

  User = {u1}
  Level = {l1}
  Date = {d1}
  Badge = {b1, b2}
  Device = {dev1}
  Event = {e1}
  Session = {s1, s2}
  Difficulties = {1, 2}
  NotAvailable = NotAvailable
  NoEvent = NoEvent
  NoDevice = NoDevice
  NoRequest = NoRequest
  Owner <- MCOneOwner
  Threshold <- MCThreshold
  Request <- MCLongDay
  MaxCommits = 3
SYMMETRY Symmetric
INVARIANT PointsFollowNumber
PROPERTY AbsSpec
