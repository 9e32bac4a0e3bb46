CONSTANTS
  MaxLength = 2
  MaxEdits = 2
  MaxCalls = 5
SPECIFICATION Spec
INVARIANTS
  TypeOK
  EditsFit
PROPERTIES
  ImplementsUndoHistory
CHECK_DEADLOCK FALSE
