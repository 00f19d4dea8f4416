CONSTANTS
  RuleSet <- MCRules
  CommandSet <- MCCommands
  Tools = {"Bash", "Read"}
  MaxRules = 3
  MaxCommands = 2
SPECIFICATION FairSpec
INVARIANTS
  TypeOK
  VerdictIsStrictest
  TraceExplainsVerdict
  NoVacuousException
PROPERTIES
  ImplementsVerdict
  Terminates
CHECK_DEADLOCK FALSE
