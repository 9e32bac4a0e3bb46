CONSTANTS
  MaxLength = 2
  MaxEdits = 2
  MaxCalls = 4
SPECIFICATION Spec
PROPERTIES
  DropsInsert
CHECK_DEADLOCK FALSE
