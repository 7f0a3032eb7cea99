\* Every TLS and binding mode, two notifications, one rotation on either side.
SPECIFICATION FairSpec
CONSTANTS
  p1 = p1  p2 = p2
  s1 = s1  s2 = s2
  k1 = k1  k2 = k2
  NoVerifier = NoVerifier
  Passwords <- MCPasswords
  Salts <- MCSalts
  Secrets <- MCSecrets
  RoleSecrets <- MCRoleSecrets
  BackendKeys <- MCBackendKeys
  MaxChanges = 1
  MaxNotes = 2
INVARIANTS TlsPolicyKept ProofFits BindingPolicy MutualAuthentication AnnouncementsKept
PROPERTY LinkEnds
CHECK_DEADLOCK FALSE
