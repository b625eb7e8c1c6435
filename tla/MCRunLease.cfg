SPECIFICATION FairSpec
CONSTANTS
  p1 = p1
  p2 = p2
  r1 = r1
  r2 = r2
  Proc = {p1, p2}
  Run = {r1, r2}
  NoProc = NoProc
  NoRun = NoRun
  StaleAfter = 1
  MaxTime = 2
INVARIANTS OwnerIsNewest
PROPERTIES FencedWrites FreshLeaseKept ImplementsFencedLease CommandEnds
