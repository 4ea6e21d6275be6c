SPECIFICATION FairSpec
CONSTANTS
  NPROC = 4
  MAXPID = 5
  KillPids = {3}
INVARIANTS
  TypeOK
  NoMissedExit
  NoOrphan
PROPERTIES
  ImplementsProcTree
  OrphansReaped
