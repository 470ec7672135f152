\* Two runs, a backup beside the server, two attempts to restore it.
CONSTANTS
  k1 = k1 k2 = k2
  Keys = {k1, k2}
  MaxRestores = 2
SPECIFICATION BackupSpec
INVARIANTS RestoreExact RestoredRunsServed
SYMMETRY Symm
CHECK_DEADLOCK FALSE
