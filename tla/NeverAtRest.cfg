\* One SAPR, periodic reconciliation disabled.
SPECIFICATION FairSpec

CONSTANTS
  Producers = {p1}
  Services = {s1}
  Targets = {t1, t2}
  NoHttp = NoHttp
  NoTarget = NoTarget
  Nobody = Nobody
  Settings = {TRUE}
  Periodic = FALSE
  Disturbances = {}
  Budget = 0

PROPERTIES
  ComesToRest

\* The operator is idle when there is no SAPR.
CHECK_DEADLOCK FALSE
