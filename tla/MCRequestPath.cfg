SPECIFICATION Spec
CONSTANTS
  alice = alice
  bob = bob
  ta = ta
  tb = tb
  tx = tx
  Invalid = Invalid
  Nobody = Nobody
  Absent = Absent
  Malformed = Malformed
  UserOf <- MCUserOf
  Deployments <- MCDeployments
  Sends <- MCSends
  Names <- MCNames
  Proxies <- MCProxies
INVARIANTS CertificateChosen KeyNotForged FirstCredentialDecides ResponseDressed
CHECK_DEADLOCK FALSE
