\* Up to three samples, or two families, through the collector's transformers
\* and the conversion; and through the other transformers of the package.
SPECIFICATION Spec
CONSTANTS
  Inputs <- MCInputs
  LibraryInputs <- MCLibraryInputs
  LabelNames = {"__name__", "job", "replica", "cluster", "user", "long", "empty"}
  Added = {"cluster", "replica"}
  Elided = {"replica"}
  Anonymized = {"cluster", "user", "empty"}
  TooLong = {"long"}
  Blank = {"empty"}
  Required = {"job"}
  LongNames = {"lengthy"}
  Whitelist <- MCWhitelist
  Renames <- MCRenames
  MinTime = 1
  Now = 2
  NoTime = NoTime
  Nil = Nil
\* The families are packed: the forward goes on elsewhere.
CHECK_DEADLOCK FALSE
INVARIANTS
  NoNilDereferenced
  AcceptedByChecks
  NoValidSampleLost
  FailsForUnsupported
  OnlyNameRepeats
  AnonymizedIsHashed
  LibraryAgrees
