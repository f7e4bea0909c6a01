SPECIFICATION Spec
CONSTANTS
  MaxRetries = 1
  Nips = {n1, n2}
  NoNip = NoNip
  ConfigNip = n1
  Signers = {NoNip, n2}
  Failures = {503}
  Timeout = 1
  MaxCalls = 2
INVARIANTS TypeOK TokensBelongToOwner SessionIsOwn RedeemsConfirmed ChallengeUsedByOneCall SessionsPerCall PollsBounded
PROPERTIES GivesUpHonestly OnlySuccessChangesTokens CallEnds ImplementsAuthentication
CHECK_DEADLOCK FALSE
