SPECIFICATION PartsSpec
CONSTANTS
  r1 = r1
  r2 = r2
  r3 = r3
  a1 = a1
  a2 = a2
  k1 = k1
  k2 = k2
  m1 = m1
  m2 = m2
  Pr = Pr
  Parts = {"inspection"}
  Run = {r1, r2, r3}
  NoRun = NoRun
  WorkId = {Pr}
  WorkerOf <- Workers
  Head = {a1, a2, k1, k2}
  NoHead = NoHead
  Author = {a1, a2}
  MaxBase = 1
  Checkpoints <- Every
  MaxBeats = 0
  NoLogHead = NoHead
  Heads = {k1, k2}
  Writers = {m1, m2}
  MaxDocs = 2
  MaxEvents = 7
  LegacyFiles = {"f1", "f2"}
  MaxAttempts = 3
  Runs = {"b1", "b2"}
  PerSecond = 2
  WaitCap = 2
  RepairCap = 2
  BeatCap = 1
  Lag = 1
  MaxClock = 8
  Pulls = {"p1", "p2"}
  LastHead = 2
  MaxChanges = 3
SYMMETRY Symmetry
INVARIANTS NewCommitReopens
CHECK_DEADLOCK FALSE
