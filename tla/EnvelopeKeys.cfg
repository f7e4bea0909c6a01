SPECIFICATION Spec
CONSTANTS
  Certs <- MCCerts
  NoId = "none"
  MaxCerts = 3
  MaxRotations = 1
INVARIANTS TypeOK PicksBestCertificate FailureHasItsCause IdNamesItsKeyIfStable
