------------------------------ MODULE MCRuleEval -------------------------------
(* A small instance of RuleEval: every config of up to MaxRules of the rules    *)
(* below, against every list of up to MaxCommands of the commands below.        *)
EXTENDS RuleEval

Nil == [mode |-> "nil", accepts |-> {}]
Any(S) == [mode |-> "any", accepts |-> S]
All(S) == [mode |-> "all", accepts |-> S]
NoAliases == [c \in {} |-> {}]

Blank == [command |-> "", flagsAll |-> {}, flagsAny |-> {}, flagAliases |-> NoAliases,
          subcommandsAll |-> {}, subcommandsAny |-> {}, glob |-> Nil, regex |-> Nil,
          flagValues |-> {}]

Rule(tl, act, m, ex) == [tool |-> tl, action |-> act, match |-> m, except |-> ex]

\* rm -r and rm --recursive are the same to this rule; /tmp alone is excepted.
DenyRm == Rule("Bash", "deny",
  [Blank EXCEPT !.command = "rm", !.flagsAll = {"r"}, !.flagAliases = [r |-> {"recursive"}]],
  {[Blank EXCEPT !.glob = All({"/tmp"})]})
AskEtc == Rule("*", "ask", [Blank EXCEPT !.glob = Any({"/etc"})], {})
AskPush == Rule("Bash", "ask", [Blank EXCEPT !.subcommandsAny = {<<"push">>}], {})
AllowGit == Rule("Bash", "allow", [Blank EXCEPT !.command = "git"], {})
DenyReadEtc == Rule("Read", "deny", [Blank EXCEPT !.regex = Any({"/etc"})], {})
\* Both f and F list "force": the config loads, and the reverse table is one of two.
DenyForce == Rule("Bash", "deny",
  [Blank EXCEPT !.flagsAny = {"f"}, !.flagAliases = [f |-> {"force"}, F |-> {"force"}]], {})

MCRules == {DenyRm, AskEtc, AskPush, AllowGit, DenyReadEtc, DenyForce}

NoValues == [f \in {} |-> {}]
Cmd(n, fl, ar, failed) ==
  [name |-> n, flags |-> fl, flagValues |-> NoValues, args |-> ar, inspectionFailed |-> failed]

MCCommands == {Cmd("rm", {"recursive"}, <<"/tmp">>, FALSE),
               Cmd("rm", {"r"}, << >>, FALSE),
               Cmd("rm", {"r"}, <<"/tmp", "/etc">>, TRUE),
               Cmd("git", {"force"}, <<"push">>, FALSE),
               Cmd("bash", {}, << >>, TRUE)}
================================================================================
