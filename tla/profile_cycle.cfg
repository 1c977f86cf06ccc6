SPECIFICATION MCFairSpec
CONSTANTS
  Runs = {p1, p2}
  Sites = {s1, q1}
  Unescaped = {q1}
  Strays <- MCStrays
  Bogus = bogus
  Pids = {d1, d2}
  Randoms = {r1, r2}
  ATTEMPTS = 2
  DiskFails = TRUE
INVARIANTS TypeOK FlushComplete ReportSound ReportComplete
PROPERTIES NeverOverwritten FlushEnds
CHECK_DEADLOCK FALSE
