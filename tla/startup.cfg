\* The dialogue with TLS available, required or not, and one change of the
\* store; a client that stops reading reads again.
SPECIFICATION ReadingSpec
CONSTANTS
  v1 = v1  v2 = v2
  NoVerifier = NoVerifier
  Dummy = Dummy
  Verifiers <- MCVerifiers
  FrontendTls = TRUE
  CertHash = TRUE
  MaxReloads = 1
INVARIANTS TypeOK FailureReportedOnce KeyBeforeReady NoCarryOver TlsSticks
INVARIANTS OfferFitsTransport DeadlineAnswered
PROPERTIES CancelDeadEnd SlotReleased
CHECK_DEADLOCK FALSE
