CONSTANTS
  Words = {"docker", "run", "rm", "", "--", "-c", "-it", "-crm", "--name", "--name=run", "--name="}
  Shape <- MCShape
  Wrappers <- MCWrappers
  MaxWords = 5
SPECIFICATION Spec
INVARIANTS
  PartitionsAgree
  CapturedIsInspected
  TooEarlyIsMarked
PROPERTIES
  GrowthOnlyAdds
CHECK_DEADLOCK FALSE
