SPECIFICATION Spec
CONSTANTS
  u1 = u1  u2 = u2  l1 = l1  l2 = l2  d1 = d1  b1 = b1  b2 = b2
  dev1 = dev1  dev2 = dev2  e1 = e1  e2 = e2  e3 = e3

  User = {u1, u2}
  Level = {l1, l2}
  Date = {d1}
  Badge = {b1, b2}
  Device = {dev1, dev2}
  Event = {e1, e2, e3}
  Session = {s1, s2}
  Difficulties = {1}
  NotAvailable = NotAvailable
  NoEvent = NoEvent
  NoDevice = NoDevice
  NoRequest = NoRequest
  Owner <- MCOwner
  Threshold <- MCThreshold
  Request <- MCRequest
  MaxCommits = 2
SYMMETRY Symmetric
INVARIANTS
  TypeOK
  AttemptsContiguous
  PointsFollowNumber
  EventCreditedOnce
  TotalsAgree
  BadgesComplete
  IInv
PROPERTIES
  SyncedCarriesWipe
  AbsSpec
