SPECIFICATION Spec
CONSTANTS
  IdFields = {"id", "order_id"}
  VolatileFields = {"created_at"}
  ImpactFields = {"email", "owner"}
  Runs = {r1, r2}
  Hashes = {"h1", "h2"}
  Answers <- MCAnswers
  Responses <- MCResponses
  Requested = {"email"}
  MaxSteps = 2
  MaxActive = 2
SYMMETRY RunSymmetry
INVARIANTS
  ComparisonsBounded
  VerdictEndsRun
  VerifiedIsReproduced
  ReportHasEvidence
  OnePolicyPerFile
  StepsKept
  SuccessIsBacked
  StalePolicyStops
