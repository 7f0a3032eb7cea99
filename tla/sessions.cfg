\* Three tasks, room for two, no identifier in use twice.  Symmetry is unsound
\* for the temporal properties and is off.
SPECIFICATION FairSpec
CONSTANTS
  t1 = t1  t2 = t2  t3 = t3
  k1 = k1  k2 = k2
  l1 = l1  l2 = l2  l3 = l3
  NoKey = NoKey
  NoLink = NoLink
  Tasks <- MCTasks
  Keys <- MCKeys
  Links <- MCLinks
  Keyless <- MCKeyless
  MaxConns = 2
  IdSpace = 4
  MaxAccepts = 3
INVARIANTS TypeOK PermitsBalanced KeyLivesWithSession LinksBounded
PROPERTIES ImplementsPromise TaskEnds
CHECK_DEADLOCK FALSE
