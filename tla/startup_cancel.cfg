\* Whether a cancel connection is ever answered.
SPECIFICATION Spec
CONSTANTS
  v1 = v1  v2 = v2
  NoVerifier = NoVerifier
  Dummy = Dummy
  Verifiers <- MCVerifiers
  FrontendTls = TRUE
  CertHash = TRUE
  MaxReloads = 0
INVARIANT CancelSilent
CHECK_DEADLOCK FALSE
