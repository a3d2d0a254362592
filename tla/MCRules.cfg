\* Two goroutines reload while rules are read; no file fits behind the flags.
SPECIFICATION Spec
CONSTANTS
  Main = main
  Callers = {hup, handler}
  Setups <- MCSetups
  Files <- MCFiles
  Trim <- MCTrim
  Blank = ""
  Malformed = {"c"}
  MaxCalls = 2
  Sizes = {0, 1, 2, 4, 8}
  None = None
\* A process that cannot start ends.
CHECK_DEADLOCK FALSE
INVARIANTS
  AsksForInstalledRules
  AllAnsweredOrNone
PROPERTIES
  InstalledRulesStay
