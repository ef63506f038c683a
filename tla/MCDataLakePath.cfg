\* Container and path calls of two clients; the container's fenced
\* methods are the ones whose protocol options carry IfUnmodifiedSince.
CONSTANTS
  c1 = c1
  c2 = c2
  l1 = l1
  NoValue = NoValue
  Clients <- MCClients
  LeaseIds <- MCLeaseIds
  MaxModified = 2
  MaxEtag = 2
  FencedOps = {"Delete", "SetAccessPolicy"}
SPECIFICATION Spec
SYMMETRY MCSymmetry
INVARIANTS
  TypeOK
  ContainerOutcomeFollowsConditions
  PathOutcomeFollowsConditions
  GetPropertiesReportsLease
