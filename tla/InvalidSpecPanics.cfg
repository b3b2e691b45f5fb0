\* One SAPR without spec.http, network policies enabled.
SPECIFICATION FairSpec

CONSTANTS
  Producers = {p1}
  Services = {s1}
  Targets = {t1, t2}
  NoHttp = NoHttp
  NoTarget = NoTarget
  Nobody = Nobody
  Settings = {TRUE}
  Periodic = TRUE
  Disturbances = {}
  Budget = 0

PROPERTIES
  InvalidSpecIsReported

\* The operator is idle when there is no SAPR.
CHECK_DEADLOCK FALSE
