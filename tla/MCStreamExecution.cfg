SPECIFICATION Spec
CONSTANTS
  NumAuths = 2
  PoolSize = 2
  MaxCredentials = 0
  RequestRetry = 1
  BootstrapRetries = 1
  MaxChunks = 2
  MaxAttempts = 2
INVARIANTS
  TypeOK
  OneAttemptDelivered
  RecordedOnce
  ResultTrue
  OkIsComplete
PROPERTY
  NothingLeaks
