\* All the messages of forward(), conflicts and lost answers.
SPECIFICATION Spec
CONSTANTS
  Foreign <- MCForeign
INVARIANTS
  OneConditionPerType
  TrueIsLast
PROPERTIES
  ImplementsAddonStatus
