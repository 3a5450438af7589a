SPECIFICATION FairSpec
CONSTANTS
  Tools <- MCTools
INVARIANTS
  StartedWithReceipt
  ObservationIsFinal
PROPERTIES
  RunEnds
  ToolEnds
