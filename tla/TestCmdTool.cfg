CONSTANTS
  CommandLines <- MCCommandLines
  Configs <- MCConfigs
  CallsOf <- MCCallsOf
  Shape <- MCShape
  Words = {"", "/etc", "rm", "-rf", "kubectl", "-n", "-nprod", "prod", "get", "x", "ls", "bash", "-c", "("}
  NotShell = {"$("}
  CliFlags <- MCCliFlags
SPECIFICATION TestSpec
INVARIANTS
  RuleToolIsUsed
CHECK_DEADLOCK FALSE
