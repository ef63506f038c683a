CONSTANTS
  Credentials <- MCCredentials
  PerOperation <- MCPerOperation
  PerRetry <- MCPerRetry
  Statuses <- MCStatuses
  ExpectedStatus = "200"
  RetryableStatuses = {"503"}
  MaxTries = 3
  Bodies <- MCBodies

SPECIFICATION Spec

INVARIANTS
  TypeOK
  EveryAttemptAuthenticated

PROPERTIES
  RefinesStorageCall

\* The call stops once it has returned its result or raised.
CHECK_DEADLOCK FALSE
