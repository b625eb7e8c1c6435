SPECIFICATION PartsSpec
CONSTANTS
  c1 = c1
  c2 = c2
  c3 = c3
  d1 = d1
  cw = cw
  dw = dw
  h1 = h1
  h2 = h2
  Run = {c1, c2, c3, d1}
  NoRun = NoRun
  WorkId = {cw, dw}
  WorkerOf <- Workers
  Head = {h1, h2}
  NoHead = NoHead
  MaxBeats = 0
SYMMETRY Symmetry
INVARIANTS OneWorkerRecovers
PROPERTIES SemanticHeadOnce TerminalOnce
CHECK_DEADLOCK FALSE
