CONSTANTS
  NoValue = NoValue
  Names <- MCNames
  FilterPrefixes <- MCPrefixes
  PrefixMatch <- MCPrefixMatch
  PageSizes <- MCPageSizes
  Methods <- MCMethods
  MaxChanges = 2
SPECIFICATION Spec
INVARIANTS
  TypeOK
  ListedSound
  ListingComplete
PROPERTIES
  ListingTerminates
\* The caller stops once its listing is complete and the other clients'
\* changes are spent.
CHECK_DEADLOCK FALSE
