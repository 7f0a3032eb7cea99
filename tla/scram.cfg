\* Two logins, two client exchanges, two certificates.
SPECIFICATION Spec
CONSTANTS
  l1 = l1  l2 = l2  c1 = c1  c2 = c2  x1 = x1  x2 = x2
  NoCert = NoCert
  Servers <- MCServers
  Clients <- MCClients
  Certs <- MCCerts
SYMMETRY MCSymmetry
INVARIANTS Agreement NoReplay NoDowngrade HonestAccepted
CHECK_DEADLOCK FALSE
