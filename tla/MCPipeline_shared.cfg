\* A label that is added and anonymized, against the promise of stable hashes.
SPECIFICATION Spec
CONSTANTS
  Inputs <- MCSmallInputs
  LibraryInputs = {}
  LabelNames = {"__name__", "job", "replica", "cluster", "user", "long", "empty"}
  Added = {"cluster", "replica"}
  Elided = {"replica"}
  Anonymized = {"cluster", "user", "empty"}
  TooLong = {"long"}
  Blank = {"empty"}
  Required = {"job"}
  LongNames = {"lengthy"}
  Whitelist <- MCWhitelist
  Renames <- MCRenames
  MinTime = 1
  Now = 2
  NoTime = NoTime
  Nil = Nil
\* The families are packed: the forward goes on elsewhere.
CHECK_DEADLOCK FALSE
INVARIANTS
  HashedOnce
