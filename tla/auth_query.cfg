\* Two lookups, two users, one slot in the cache.
SPECIFICATION Spec
CONSTANTS
  q1 = q1  q2 = q2  u1 = u1  u2 = u2  s1 = s1  s2 = s2
  Unusable = Unusable  Absent = Absent  Unavailable = Unavailable
  NoAnswer = NoAnswer  NoEntry = NoEntry  Nobody = Nobody
  Lookups <- MCLookups
  Users <- MCUsers
  Secrets <- MCSecrets
  PositiveTtl = 1
  NegativeTtl = 0
  MaxEntries = 0
  MaxTime = 2
  MaxAlters = 1
SYMMETRY MCSymmetry
INVARIANTS TypeOK CacheBounded AnswersFresh MutexHeldToWork
CHECK_DEADLOCK FALSE
