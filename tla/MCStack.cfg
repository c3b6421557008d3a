SPECIFICATION Spec
CONSTANTS
  Readers <- MCReaders
  Inodes <- MCInodes
  Optional <- MCOptional
  session = session
  MaxSnapshots = 2
  MaxCrashes = 1
  MaxStarts = 2
INVARIANTS
  NoOrphan
  ScriptCleansUp
PROPERTIES
  AtomicFile
  CrashNoticed
  DashboardSettles
CHECK_DEADLOCK FALSE
