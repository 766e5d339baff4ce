SPECIFICATION LiveSpec
CONSTANTS
  child = child
  parent = parent
  TablesByName <- ByName
  Keyless <- KeylessTables
  RefersTo <- ChildRefers
  Keys = {1, 2, 3}
  Versions = {1}
  Engines = {"d1", "postgres"}
  ForeignScripts <- Scripts
  PageRows = 2
  BatchRows = 1
  Sources <- SomeSources
  Targets <- SomeTargets
  MaxChanges = 1
  DumpFaults = {"list", "adapter", "sink"}
  RestoreFaults = {"list", "statement", "commit"}
  MaxIntruders = 1
INVARIANTS
  
  BackupIsComplete
  TargetIsAsReported
PROPERTIES
  AgentSparesFiles
  DumpEnds
CHECK_DEADLOCK FALSE
