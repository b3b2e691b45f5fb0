\* Two required requests that name the same secret.
SPECIFICATION Spec

CONSTANTS
  r1 = r1
  r2 = r2
  p1 = p1
  s1 = s1
  a1 = a1
  a2 = a2
  Foreign = Foreign
  Nobody = Nobody
  Requests = {r1, r2}
  Producers = {p1}
  SecretNames = {s1}
  ProducerOf <- AllAtP1
  SecretNameOf <- AllInS1
  Legacy = {}
  Attributes = {a1}
  Returned <- A1Returned
  Rotations = {"off"}
  Optionals = {FALSE}
  V2Cred = 1
  NoCred = 0
  Creds <- Credentials
  Disturbances = {"secret"}
  Budget = 1

INVARIANT NoOrphanedAccount
PROPERTIES
  SecretNeverTakenOver
  ImplementsDelivery

\* The operator is idle when there is nothing to do.
CHECK_DEADLOCK FALSE
