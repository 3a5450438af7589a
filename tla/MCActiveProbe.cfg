SPECIFICATION Spec
CONSTANTS
  Probes <- MCProbes
  MaxCases = 3
  MaxPayload = 2
  Budget = 2
INVARIANTS
  SentIsCheckedPrefix
  ResultIsComplete
