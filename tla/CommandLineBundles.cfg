CONSTANTS
  Words = {"docker", "run", "rm", "", "--", "-c", "-it", "-xc", "--name", "--name=run", "--name="}
  Shape <- MCShape
  Wrappers <- MCWrappers
  MaxWords = 6
SPECIFICATION Spec
INVARIANTS
  PartitionsAgree
CHECK_DEADLOCK FALSE
