CONSTANTS
  c1 = c1
  c2 = c2
  NoValue = NoValue
  NoHolder = NoHolder
  Clients <- MCClients
  Proposals <- MCProposals
  WriteOps <- MCWriteOps
  Fates <- MCFates
SPECIFICATION Spec
INVARIANTS
  TypeOK
  ClientKnowsItsLease
PROPERTIES
  RefinesLeaseAbstract
