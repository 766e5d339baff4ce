SPECIFICATION Spec
CONSTANTS
  None = None
  Failed = Failed
  Off = Off
CHECK_DEADLOCK FALSE
INVARIANTS
  
  SchemaAndHistoryAreTold
  
PROPERTIES
  
  GridFollowsTheTable
