SPECIFICATION PartsSpec
CONSTANTS
  c1 = c1
  c2 = c2
  c3 = c3
  d1 = d1
  d2 = d2
  cw = cw
  dw = dw
  dx = dx
  h1 = h1
  h2 = h2
  Run = {c1, c2, c3, d1, d2}
  NoRun = NoRun
  WorkId = {cw, dw, dx}
  WorkerOf <- Workers
  Head = {h1, h2}
  NoHead = NoHead
  MaxBeats = 1
  Cap = 1
  MaxDeaths = 1
  KindOf <- KindsOf
  MainGraph <- OnMain
  Graphs <- Proposed
  Drafts <- ReportDrafts
  NoReport = NoReport
  Candidate <- AreasAndMarket
  Places <- AreasAndMarket
  Assessments <- AssessmentsOf
  NoArea = "none"
  Checkpointers = {"k1", "k2"}
  Transactions = {"t1", "t2"}
  HeadOf <- HeadsOf
  MaxReplays = 2
  MaxGeneration = 2
  Nothing = Nothing
  Parts = {"outcomes", "successors", "proposals", "cap", "graph", "areas", "commands",
           "refs"}
SYMMETRY Symmetry
INVARIANTS TerminalSafe ProposalSafe DiscoverySafe AreasSafe ValidationSafe
           CheckpointsStand
PROPERTIES AcceptedStays
CHECK_DEADLOCK FALSE
