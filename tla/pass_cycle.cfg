SPECIFICATION Spec
CONSTANTS
  Chars = {"a", "d", "f", "h", "m", "r", "u", "x", ","}
  Sources <- Programs
  Environments <- MCEnvironments
  Options <- MCOptions
  Replaceable = TRUE
  MaxBuilds = 3
  MaxFaults = 2
INVARIANTS ReportExact MismatchExplained HookedOnce SourceRestored CountsAgree
CHECK_DEADLOCK FALSE
