SPECIFICATION Spec
CONSTANTS
  MaxRetries = 3
  Statuses = {200, 202, 401, 429, 501, 503}
  Tokens = {t1, t2}
  NoToken = NoToken
INVARIANTS TypeOK SendBudget SuccessWasPerformed RaisesOnlyAfterBudget BackoffIsTriangular
PROPERTIES NoSendAfterVerdict CallEnds ImplementsAtLeastOnce
