SPECIFICATION Spec
CONSTANTS
  MaxRetries = 1
  Contents = {"a"}
  Failures = {401, 503}
  Timeout = 1
  MaxCalls = 4
INVARIANTS TypeOK HandleOpensItsSession ReceiptNamesLastCopy CopiesPerCall
PROPERTIES WaitIsHonest CloseClosed
CHECK_DEADLOCK FALSE
