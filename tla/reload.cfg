\* Two callers of reload in any interleaving, with edits between any two steps.
SPECIFICATION Spec
CONSTANTS
  r1 = r1  r2 = r2  m1 = m1  m2 = m2
  Broken = Broken
  Reloaders <- MCReloaders
  Maps <- MCMaps
  MaxEdits = 4
  MaxReloads = 4
INVARIANTS TypeOK UndisturbedServed UndisturbedReported
CHECK_DEADLOCK FALSE
