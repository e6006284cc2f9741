SPECIFICATION Spec
CONSTANTS
  u1 = u1  u2 = u2  p1 = p1  p2 = p2  d1 = d1  d2 = d2  c1 = c1  c2 = c2

  Player = {u1}
  Play = {p1, p2}
  Device = {d1}
  Cycle = {c1}
  Nobody = Nobody
  NoDevice = NoDevice
  MayCancel = {}
  Verdict <- FirstUnprocessable
  BatchLimit = 2
  MaxAttempts = 2
CHECK_DEADLOCK FALSE
INVARIANTS
  RowKept
  OrderKept
  HistoryInv
