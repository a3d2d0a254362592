\* Safety: two concurrent callers of Reconfigure, a reader of /federate, every
\* source of families.
SPECIFICATION Spec
CONSTANTS
  run = run
  c1 = c1
  c2 = c2
  r1 = r1
  b1 = b1
  b2 = b2
  b3 = b3
  Runner = run
  None = None
  Minute = Minute
  NoUpload = {2}
  Modes = {"file", "simulate", "scrape"}
  Callers = {c1, c2}
  Readers = {r1}
  Batches <- MCBatches1
  MaxReconfigs = 2
\* Run returns and the callers have had their calls: the system may stop.
CHECK_DEADLOCK FALSE
SYMMETRY MCSymmetry
INVARIANTS
  TypeOK
  NoTornConfig
  StaleSleepIsInterrupted
  ServedOnlyProcessed
  StatusTellsOutcome
PROPERTIES
  ServedIsImmutable
  ImplementsAbstract
