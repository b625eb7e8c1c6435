SPECIFICATION FairRepairSpec
CONSTANTS
  c1 = c1
  c2 = c2
  c3 = c3
  cw = cw
  h0 = h0
  h1 = h1
  p1 = p1
  p2 = p2
  a1 = a1
  Run = {c1, c2}
  NoRun = NoRun
  WorkId = {cw}
  WorkerOf <- Workers
  Head = {h0, h1, p1, p2, a1}
  NoHead = NoHead
  MaxBeats = 0
  Pr = cw
  Before = h0
  Semantic = h1
  Repairs = {p1, p2}
  Author = {a1}
  FirstRun = c1
  MaxStops = 2
INVARIANTS RepairSafe
PROPERTIES OneRepair RepairSettles
CHECK_DEADLOCK FALSE
