SPECIFICATION MCSpec
CONSTANTS
  Principal = {"owner", "other"}
  Owner = "owner"
  Issuer = {"admin", "second"}
  Server = "server"
  Session = {"s1"}
  Requests <- MCRequests
  Operations <- MCOperations
  Served <- MCServed
  Unsupported <- MCUnsupported
  Conformance = FALSE
  Alone = TRUE
  MaxCredentials = 3
  MaxCrashes = 2
CHECK_DEADLOCK FALSE
INVARIANTS CredentialsSound AnswersSound
PROPERTY WorksWhileLive
