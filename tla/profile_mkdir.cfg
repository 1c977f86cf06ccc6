SPECIFICATION Spec
CONSTANTS
  Runs = {p1, p2}
  Sites = {s1}
  Unescaped = {}
  Strays = {}
  Bogus = bogus
  Pids = {d1, d2}
  Randoms = {r1}
  ATTEMPTS = 1
  DiskFails = FALSE
INVARIANT ProfileKept
CHECK_DEADLOCK FALSE
SYMMETRY Symmetry
