\* libpq and the name under which -PLUS is offered.
SPECIFICATION Spec
CONSTANTS
  l1 = l1  l2 = l2  c1 = c1  c2 = c2  x1 = x1  x2 = x2
  NoCert = NoCert
  Servers <- MCServers
  Clients <- MCClients
  Certs <- MCCerts
SYMMETRY MCSymmetry
INVARIANT DowngradeIsReal
CHECK_DEADLOCK FALSE
