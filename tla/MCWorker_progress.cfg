\* Two reconfigurations take effect and a cancelled Run returns; no symmetry.
SPECIFICATION FairSpec
CONSTANTS
  run = run
  c1 = c1
  c2 = c2
  r1 = r1
  b1 = b1
  b2 = b2
  b3 = b3
  Runner = run
  None = None
  Minute = Minute
  NoUpload = {2}
  Modes = {"simulate"}
  Callers = {c1}
  Readers = {}
  Batches <- MCBatches0
  MaxReconfigs = 2
\* Run returns and the callers have had their calls: the system may stop.
CHECK_DEADLOCK FALSE
PROPERTIES
  ConfigApplied
  CancelStopsRun
  ReconfigureReturns
  SendersDrain
