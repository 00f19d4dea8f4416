CONSTANTS
  Subcommands = {"", "check", "claude", "codex", "cursor", "copilot", "antigravity"}
  Calls <- MCCalls
  Malformed <- MCMalformed
  NotShell = {"$("}
SPECIFICATION Spec
INVARIANTS
  MalformedIsSurfaced
CHECK_DEADLOCK FALSE
