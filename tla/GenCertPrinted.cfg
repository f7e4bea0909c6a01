SPECIFICATION Spec
CONSTANTS
  Nips = {n1, n2}
  NoNip = NoNip
  Countries = {"PL", "Pl", "pL", "pl", "DE"}
  Passwords = {p1}
  NoPassword = NoPassword
  MaxRuns = 2
INVARIANT PrintedCallLoads
