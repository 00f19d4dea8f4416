CONSTANTS
  Words = {"docker", "bash", "rm", "helm", "run", "exec", "--", "-c", "--name"}
  Shape <- MCShape
  Embedded <- MCEmbedded
  Declared <- MCDeclared
  Dashed = {"--name"}
  Depths <- MCDepths
  Scribbles <- MCScribbles
  Lines <- MCLines
  MaxResolves = 2
SPECIFICATION Spec
INVARIANTS
  TypeOK
PROPERTIES
  CopiesAreIsolated
  EveryResolveIsUnion
  DeclaringHidesNothing
CHECK_DEADLOCK FALSE
