\* The match file fits behind the flags.
SPECIFICATION Spec
CONSTANTS
  Main = main
  Callers = {hup}
  Setups <- MCRoom
  Files <- MCLines
  Trim <- MCTrim
  Blank = ""
  Malformed = {}
  MaxCalls = 1
  Sizes = {0, 1, 2, 4, 8}
  None = None
\* A process that cannot start ends.
CHECK_DEADLOCK FALSE
PROPERTIES
  InstalledRulesStay
