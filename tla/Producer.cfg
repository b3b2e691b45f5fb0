\* One SAPR, checked every interval, with and without network policies.
SPECIFICATION FairSpec

CONSTANTS
  Producers = {p1}
  Services = {s1}
  Targets = {t1, t2}
  NoHttp = NoHttp
  NoTarget = NoTarget
  Nobody = Nobody
  Settings = {TRUE, FALSE}
  Periodic = TRUE
  Disturbances = {"fault", "crash", "sapr", "touch", "policy", "service", "key", "outage"}
  Budget = 1

INVARIANTS
  TypeOK
  SettledStatus

PROPERTIES
  EventuallyReady
  OutageIsNoticed
  InvalidSpecIsReportedWithoutPolicies

\* The operator is idle when there is no SAPR.
CHECK_DEADLOCK FALSE
