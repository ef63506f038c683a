CONSTANTS
  c1 = c1
  c2 = c2
  Clients <- MCClients
  MaxLength = 3
  \* Sequence numbers play no part in this run's properties.
  MaxSeq = 0
  MaxEtag = 2
  NoValue = NoValue
  \* Callers make writes conditional on the ETag of their last listing.
  Conditions = {"IfMatch"}

SPECIFICATION Spec

INVARIANTS
  TypeOK
  NoLostUpdate
  ListingMatchesBlob
  DiffRestoresBlob

PROPERTIES
  RefinesAbstract

\* No property or refinement mapping names a client.
SYMMETRY ClientSymmetry
