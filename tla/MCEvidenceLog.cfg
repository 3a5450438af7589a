SPECIFICATION Spec
CONSTANTS
  t1 = t1
  t2 = t2
  t3 = t3
  command = command
  Calls <- MCCalls
  ProcessOf <- MCProcessOf
  MaxOutages = 1
SYMMETRY ThreadSymmetry
INVARIANTS
  ReturnedIsKept
  DamageBounded
PROPERTIES
  AppendOnly
