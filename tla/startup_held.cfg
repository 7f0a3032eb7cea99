\* Liveness without any assumption about the client.
SPECIFICATION FairSpec
CONSTANTS
  v1 = v1  v2 = v2
  NoVerifier = NoVerifier
  Dummy = Dummy
  Verifiers <- MCVerifiers
  FrontendTls = FALSE
  CertHash = TRUE
  MaxReloads = 0
PROPERTY SlotReleased
CHECK_DEADLOCK FALSE
