\* One pod: any configuration, any two failures or kills, one shutdown.
SPECIFICATION FairSpec

CONSTANTS
  Settings <- Required
  FreeText = {"NAMESPACE"}
  Budget = 2

INVARIANTS
  ProcessTypeOK
  SuccessMeansStopped

PROPERTIES
  ShutdownTerminates
  ServesIfConfigured

\* The process may have ended for good.
CHECK_DEADLOCK FALSE
