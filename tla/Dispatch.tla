-------------------------------- MODULE Dispatch --------------------------------
(* One binary, called as an agent's hook or as wardhook test (run in             *)
(* cmd/wardhook/run.go): one process is one of them, and both parse a tool's     *)
(* input with the parsers of module ToolInput.  The third way to call it,        *)
(* wardhook validate, is ValidateRun's.                                          *)
EXTENDS ToolCall, TestCmd

\* No event is read, or no test is run, by a process that is the other one.
NoHook ==
  /\ sub = "test" /\ call = NoCall /\ event = [tool |-> "", input |-> Only("command", "")]
  /\ invs = << >> /\ seen = << >> /\ phase = "none"

NoTest ==
  /\ args = [ok |-> FALSE, ruleNames |-> << >>, tool |-> "", text |-> ""]
  /\ file = [ok |-> FALSE, rules |-> << >>]
  /\ pc = "none" /\ exit = 0 /\ toolName = "" /\ cmds = << >> /\ report = NoReport

run == (Init /\ NoTest) \/ (TestInit /\ NoHook)

HookStep == Next /\ UNCHANGED testVars
TestStep == TestNext /\ UNCHANGED vars

DispatchSpec == run /\ [][HookStep \/ TestStep]_<<vars, testVars>>
================================================================================
