SPECIFICATION Spec
CONSTANTS
  Grosz = 10
  Amounts <- MCAmounts
  Rates <- MCRates
  MaxLines = 3
INVARIANTS TypeOK DocumentAddsUp GrossIsClose
CHECK_DEADLOCK FALSE
