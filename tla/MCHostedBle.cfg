SPECIFICATION PrepareSpec
CONSTANTS
  ConnectAttempts = 5
  BringupAttempts = 2
INVARIANTS
  PrepareTypeOK
  ReadyMeansEnabled
  DelaysBounded
PROPERTIES
  Returns
\* hostedBlePrepare() returns, and is not called again.
CHECK_DEADLOCK FALSE
