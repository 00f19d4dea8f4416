CONSTANTS
  Subcommands = {"", "check", "claude", "codex", "cursor", "copilot", "antigravity"}
  Calls <- MCCalls
  Malformed <- MCMalformed
  CommandLines <- MCCommandLines
  Configs <- MCConfigs
  CallsOf <- MCCallsOf
  Shape <- MCShape
  Words = {"", "/etc", "rm", "-rf", "kubectl", "-n", "-nprod", "prod", "get", "x", "ls", "bash", "-c", "("}
  NotShell = {"$("}
  CliFlags <- MCCliFlags
SPECIFICATION DispatchSpec
INVARIANTS
  RulesApplyUnchanged
  AlwaysEvaluated
  UnreadableCommandAsks
  ShowsWhatTheHookSees
  EveryRuleIsShown
  FinalIsExplained
CHECK_DEADLOCK FALSE
