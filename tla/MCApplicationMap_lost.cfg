SPECIFICATION Spec
CONSTANTS
  Observations = {"o1", "o2", "o3"}
  ProcessOf <- MCProcessOf
  EndpointOf <- MCEndpointOf
  Adds <- MCAdds
  FieldOrder <- MCFieldOrder
  MaxCrashes = 0
INVARIANTS
  EveryReturnIsSaved
