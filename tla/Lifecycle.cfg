\* One legacy request, any two disturbances.
SPECIFICATION Spec

CONSTANTS
  r1 = r1
  r2 = r2
  p1 = p1
  s1 = s1
  a1 = a1
  a2 = a2
  Foreign = Foreign
  Nobody = Nobody
  Requests = {r1}
  Producers = {p1}
  SecretNames = {s1}
  ProducerOf <- AllAtP1
  SecretNameOf <- AllInS1
  Legacy = {r1}
  Attributes = {a1, a2}
  Returned <- BothReturned
  Rotations = {"off", "on", "invalid"}
  Optionals = {TRUE}
  V2Cred = 1
  NoCred = 0
  Creds <- Credentials
  Disturbances = {"fault", "crash", "tick", "spec", "secret", "sapr", "migration"}
  Budget = 2

SYMMETRY AlikeAttributes

INVARIANTS
  TypeOK
  NoOrphanedAccount
  CredentialDelivered
  CredentialWithdrawn
  RotationFollowsSpec
  ParametersReachProducer

PROPERTIES
  LastRotationIsKept

\* The operator is idle when there is nothing to do.
CHECK_DEADLOCK FALSE
