\* A lookup is under way while its user is altered and forgotten.
SPECIFICATION Spec
CONSTANTS
  q1 = q1  q2 = q2  u1 = u1  u2 = u2  s1 = s1  s2 = s2
  Unusable = Unusable  Absent = Absent  Unavailable = Unavailable
  NoAnswer = NoAnswer  NoEntry = NoEntry  Nobody = Nobody
  Lookups <- MCLookups
  Users <- MCOneUser
  Secrets <- MCTwoSecrets
  PositiveTtl = 2
  NegativeTtl = 1
  MaxEntries = 1
  MaxTime = 0
  MaxAlters = 1
INVARIANT ForgetSticks
CHECK_DEADLOCK FALSE
