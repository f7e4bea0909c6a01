SPECIFICATION Spec
CONSTANTS
  MaxRetries = 1
  Nips = {n1, n2}
  NoNip = NoNip
  ConfigNip = n1
  Signers = {NoNip, n2}
  Failures = {400, 503}
  Timeout = 1
  MaxCalls = 2
INVARIANT TimestampIsSealed
CHECK_DEADLOCK FALSE
