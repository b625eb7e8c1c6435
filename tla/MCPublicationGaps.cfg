SPECIFICATION PublicationSpec
CONSTANTS
  r1 = r1
  r2 = r2
  r3 = r3
  a1 = a1
  a2 = a2
  k1 = k1
  k2 = k2
  Pr = Pr
  Run = {r1, r2}
  NoRun = NoRun
  WorkId = {Pr}
  WorkerOf <- Workers
  Head = {a1, a2, k1}
  NoHead = NoHead
  Author = {a1, a2}
  MaxBase = 0
  Checkpoints <- CleanOrPartial
  Goals = {"push", "recover", "waiting-ci", "ready", "outcome"}
  MaxBeats = 0
SYMMETRY Symmetry
INVARIANTS InProgressContinues ValidatedLeadsToPush ReadyRepeats
CHECK_DEADLOCK FALSE
