SPECIFICATION Spec
CONSTANTS
  MaxRetries = 0
  Contents = {"a", "b"}
  Failures = {503}
  Timeout = 2
  MaxCalls = 4
PROPERTIES CallEnds ImplementsInvoiceDelivery
CHECK_DEADLOCK FALSE
