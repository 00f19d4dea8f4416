-------------------------------- MODULE TestCmd --------------------------------
(* wardhook test (cmd/wardhook/test_cmd.go): the command line of the debugging  *)
(* tool, the tool and input it makes up, and the report it prints.  A rule is   *)
(* RuleMatch's with a name, names need not differ; of the rest of a config only *)
(* the value-taking flags of its CLI specs matter here, constant CliFlags.  The *)
(* report is known by what it says, not by its layout:                          *)
(*   [tool, cmds, blocks: a set of [name, tool, action, lines], final, forced], *)
(* lines a set of [cmd, action, outcome], outcome "matched", "excepted" or      *)
(* "noMatch".                                                                   *)
EXTENDS ToolInput, RuleMatch, FlagNorm, Decisions

CONSTANTS CommandLines,  \* [ok, ruleNames, tool, text]: ok if flags parse and one text is left
          Configs,       \* rule sequences that Load may return
          CliFlags,      \* command -> value-taking flags of its spec
          CallsOf        \* Bash line -> calls found in it: [words, failed]

\* What --rule is given, in order (repeatableStrings).
ASSUME CommandLinesAssumption == \A l \in CommandLines : l.ruleNames \in Seq(Elems(l.ruleNames))

ASSUME ConfigsAssumption == \A rules \in Configs : rules \in Seq(Elems(rules))

VARIABLES args,      \* the command line
          file,      \* [ok, rules]: ok if there is a config and Load accepts it
          pc,        \* what runTest does next, "exit" at last
          exit,      \* exit code, 0 until another is known
          toolName,
          cmds,
          report     \* what was printed, or NoReport

testVars == <<args, file, pc, exit, toolName, cmds, report>>

Files == {[ok |-> TRUE, rules |-> rules] : rules \in Configs} \cup {[ok |-> FALSE, rules |-> << >>]}
NoReport == [tool |-> "", cmds |-> << >>, blocks |-> {}, final |-> "none", forced |-> FALSE]

--------------------------------------------------------------------------------
(* Tools *)

isSupportedTestTool(tool) ==
  tool \in {"Bash", "Read", "Write", "Edit", "NotebookEdit", "Glob", "WebFetch", "WebSearch"}

NamesOf(rules) == {r.name : r \in Elems(rules)}

\* resolveTool, "" for its error.
resolveTool(rules, ruleNames, toolFlag) ==
  LET named == {i \in DOMAIN rules : Len(ruleNames) = 1 /\ rules[i].name = ruleNames[1]}
      own   == rules[CHOOSE i \in named : \A j \in named : i <= j].tool
  IN  IF toolFlag # "" THEN (IF isSupportedTestTool(toolFlag) THEN toolFlag ELSE "")
      ELSE IF named # {} /\ isSupportedTestTool(own) THEN own
      ELSE "Bash"

toolInputKey(tool) ==
  CASE tool = "Bash"      -> "command"
    [] tool = "Glob"      -> "pattern"
    [] tool = "WebFetch"  -> "url"
    [] tool = "WebSearch" -> "query"
    [] OTHER              -> "file_path"

buildToolInput(tool, t) == Only(toolInputKey(tool), t)

--------------------------------------------------------------------------------
(* Parsing and evaluating *)

takenBy(map, name) == IF name \in DOMAIN map THEN map[name] ELSE {}

\* The commands of a parsed input, with the parser that pickParser makes for these
\* rules: those of a Bash line, or one without a name.
CommandsFor(rules, tool, parsed) ==
  LET ruleFlags == ResolvedValueTakingFlags(rules)
      taking(name) == takenBy(CliFlags, name) \cup takenBy(ruleFlags, name) \cup takenBy(ruleFlags, "")
      command(c) == CommandOf(c.words, taking(c.words[1]),
                              c.failed \/ ~Normalize(c.words, taking(c.words[1])).ok)
      calls == IF parsed = << >> THEN << >> ELSE CallsOf[parsed[1][1]]
  IN  IF tool = "Bash" THEN [i \in DOMAIN calls |-> command(calls[i])]
      ELSE [i \in DOMAIN parsed |->
              [name |-> "", flags |-> {}, flagValues |-> [f \in {} |-> {}], args |-> parsed[i],
               inspectionFailed |-> FALSE]]

\* All rules without --rule, else those named, in the order of the config.
filterRules(rules, names) ==
  IF names = << >> THEN rules ELSE AtPlaces(rules, {n \in DOMAIN rules : rules[n].name \in Elems(names)})

Selected == filterRules(file.rules, args.ruleNames)

V == INSTANCE Verdict WITH
       RuleSet <- {}, CommandSet <- {}, Tools <- {}, MaxRules <- 0, MaxCommands <- 0,
       outcomes <- evalRule, rules <- Selected, tool <- toolName, answer <- report

\* The places of a trace: each command against each selected rule.
TracePlaces == {[cmd |-> i, rule |-> j] : i \in DOMAIN cmds, j \in DOMAIN Selected}

\* The places of rules of this name that are meant for the tool.
PlacesOf(name) == {p \in TracePlaces : appliesTo(Selected[p.rule], toolName) /\ Selected[p.rule].name = name}

LineAt(p, outcome) == [cmd |-> p.cmd, action |-> Selected[p.rule].action, outcome |-> outcome[p]]

\* Of the rules of one name only the first is looked at.
MutFirstOfName(name, outcome) ==
  LET places == PlacesOf(name)
      first == CHOOSE p \in places : \A q \in places : p.rule <= q.rule
  IN  [name |-> name, tool |-> Selected[first.rule].tool, action |-> Selected[first.rule].action,
       lines |-> {LineAt(p, outcome) : p \in {p \in places : p.rule = first.rule}}]

\* Tool and action are those of the first rule of that name.
RuleBlock(name, outcome) ==
  LET places == PlacesOf(name)
      first == CHOOSE p \in places : \A q \in places : p.rule <= q.rule
  IN  [name |-> name, tool |-> Selected[first.rule].tool, action |-> Selected[first.rule].action,
       lines |-> {LineAt(p, outcome) : p \in places}]

\* The lines of the trace under the names of their rules.
writeRuleTrace(outcome) ==
  {RuleBlock(name, outcome) : name \in {name \in NamesOf(Selected) : PlacesOf(name) # {}}}

\* Only the first command is looked at.
MutFirstOnly == cmds # << >> /\ cmds[1].inspectionFailed

anyInspectionFailed == \E i \in DOMAIN cmds : cmds[i].inspectionFailed

\* What formatTrace prints of a trace with these outcomes.
ReportOf(outcome, final) ==
  [tool |-> toolName, cmds |-> cmds, blocks |-> writeRuleTrace(outcome), final |-> final,
   forced |-> final = "ask" /\ anyInspectionFailed]

--------------------------------------------------------------------------------
TestInit ==
  /\ args \in CommandLines /\ file \in Files
  /\ pc = "args" /\ exit = 0
  /\ toolName = "" /\ cmds = << >> /\ report = NoReport

Step(from, to) == pc = from /\ pc' = to /\ UNCHANGED exit
Stop(from, code) == pc = from /\ pc' = "exit" /\ exit' = code

ParseArgs ==
  /\ IF args.ok THEN Step("args", "load") ELSE Stop("args", 2)
  /\ UNCHANGED <<args, file, toolName, cmds, report>>

\* Nothing found without --config, and a config that is not there or that Load
\* rejects, are all errors.
LoadConfig ==
  /\ IF file.ok THEN Step("load", "names") ELSE Stop("load", 2)
  /\ UNCHANGED <<args, file, toolName, cmds, report>>

validateRuleNames ==
  /\ IF Elems(args.ruleNames) \subseteq NamesOf(file.rules) THEN Step("names", "tool") ELSE Stop("names", 2)
  /\ UNCHANGED <<args, file, toolName, cmds, report>>

PickTool ==
  /\ toolName' = resolveTool(file.rules, args.ruleNames, args.tool)
  /\ IF toolName' = "" THEN Stop("tool", 2) ELSE Step("tool", "parse")
  /\ UNCHANGED <<args, file, cmds, report>>

\* The parser is made for the rules that will be evaluated.
MutParseForSelected ==
  /\ LET r == Parse([tool |-> toolName, input |-> buildToolInput(toolName, args.text)])
     IN  IF r.ok THEN Step("parse", "report") /\ cmds' = CommandsFor(Selected, toolName, r.cmds)
         ELSE Stop("parse", 3) /\ UNCHANGED cmds
  /\ UNCHANGED <<args, file, toolName, report>>

\* The parser is made for all the rules of the config.
ParseText ==
  /\ LET r == Parse([tool |-> toolName, input |-> buildToolInput(toolName, args.text)])
     IN  IF r.ok THEN Step("parse", "report") /\ cmds' = CommandsFor(file.rules, toolName, r.cmds)
         ELSE Stop("parse", 3) /\ UNCHANGED cmds
  /\ UNCHANGED <<args, file, toolName, report>>

\* The outcomes of a trace: each is one that evalRule may report.
PossibleOutcomes ==
  LET may(p) == evalRule(Selected[p.rule], cmds[p.cmd])
      open == {p \in TracePlaces : \A o \in Outcome : may(p) # {o}}
  IN  {[p \in TracePlaces |-> IF p \in open THEN pick[p] ELSE CHOOSE o \in Outcome : o \in may(p)] :
         pick \in {pick \in [open -> Outcome] : \A p \in open : pick[p] \in may(p)}}

\* What asks for a verdict: the rules that matched and the failed inspections.
Fired(outcome) ==
  {p \in TracePlaces : appliesTo(Selected[p.rule], toolName) /\ outcome[p] = "matched"}
    \cup {[cmd |-> i, rule |-> Len(Selected) + 1] : i \in {i \in DOMAIN cmds : cmds[i].inspectionFailed}}

\* EvaluateTrace and formatTrace; the verdict is that of module Verdict, which RuleEval
\* implements.
Report ==
  /\ Step("report", "exit")
  /\ \E outcome \in PossibleOutcomes, d \in Decision :
       \E why \in Fired(outcome) \cup {V!NoReason} :
         V!IsVerdict(Fired(outcome), d, why) /\ report' = ReportOf(outcome, d)
  /\ UNCHANGED <<args, file, toolName, cmds>>

TestNext == ParseArgs \/ LoadConfig \/ validateRuleNames \/ PickTool \/ ParseText \/ Report

TestSpec == TestInit /\ [][TestNext]_testVars

--------------------------------------------------------------------------------
(* Properties *)

Printed == report # NoReport

\* The commands that the hook sees of a text under a tool, whose documented key is the
\* only one in its input.
HookSees(tool, t) ==
  IF tool = "Bash"
    THEN CommandsFor(file.rules, tool, parseBash(Only("command", t)).cmds)
    ELSE CommandsFor(file.rules, tool, <<<<t>>>>)

\* The report is about the commands the hook would evaluate, whichever rules are
\* selected: --rule neither takes flag_values of another rule from the parser
\* (test_cmd.go:334-336) nor changes how a text is split, and the text of another tool
\* than Bash is the argument that rules look at (toolInputKey against fieldsFor).
ShowsWhatTheHookSees == Printed => report.cmds = HookSees(report.tool, args.text)

\* No --tool, and one --rule.
NamedAlone == Len(args.ruleNames) = 1 /\ args.tool = ""

\* A selected rule is missing from the report only if it is about another tool than the
\* one the report names: otherwise it has its line about every command, under its name
\* and with an outcome it may have.  A name that no rule has is refused, not left out,
\* and what is named alone is tried as a tool that it is about, provided that test
\* supports the tools of the rules of that name (test_cmd.go:41-43; without that it may
\* be missing: RuleToolIsUsed).
EveryRuleIsShown ==
  Printed =>
    /\ Elems(args.ruleNames) \subseteq NamesOf(Selected)
    /\ \A i \in DOMAIN report.cmds : \A r \in Elems(Selected) :
         appliesTo(r, report.tool) =>
           \E b \in report.blocks : b.name = r.name /\
             \E l \in b.lines : l.cmd = i /\ l.action = r.action /\ l.outcome \in evalRule(r, cmds[i])
    /\ NamedAlone /\ (\A r \in Elems(Selected) : r.tool = "*" \/ isSupportedTestTool(r.tool)) =>
         \E r \in Elems(Selected) : appliesTo(r, report.tool)

\* What the documentation says of --rule: "When exactly one --rule is passed and its tool
\* is a concrete name, that tool is used automatically" (README.md:124).  To refuse a
\* tool that is not supported ("are rejected", test_cmd.go:45) would do as well.
RuleToolIsUsed ==
  Printed /\ NamedAlone /\ (\A r \in Elems(Selected) : r.tool # "*") =>
    \E r \in Elems(Selected) : r.tool = report.tool

\* The verdict follows from what is printed above it: a reader who sees no line that
\* matched with deny, and no mark that an inspection failed, can rule both out.
FinalIsExplained ==
  LET matched == {l.action : l \in {l \in UNION {b.lines : b \in report.blocks} : l.outcome = "matched"}}
  IN  Printed =>
        /\ report.final = "deny" <=> "deny" \in matched
        /\ report.final = "ask" <=> "deny" \notin matched /\ ("ask" \in matched \/ report.forced)
================================================================================
