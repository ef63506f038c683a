\* A caller fencing BlobContainerClient::SetMetadata with
\* IfUnmodifiedSince, as its options allow.
CONSTANTS
  c1 = c1
  c2 = c2
  l1 = l1
  NoValue = NoValue
  Clients <- MCClients
  LeaseIds <- MCLeaseIds
  MaxModified = 3
  MaxEtag = 1
  FencedOps = {"SetMetadata"}
SPECIFICATION Spec
INVARIANTS
  ContainerOutcomeFollowsConditions
