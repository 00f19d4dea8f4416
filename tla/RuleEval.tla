-------------------------------- MODULE RuleEval -------------------------------
(* rule.Evaluate and rule.EvaluateTrace (internal/rule/evaluate.go, trace.go):  *)
(* two nested loops, over the commands and over cfg.Rules, with an accumulator  *)
(* in each.  One step is one iteration of the inner loop, or the tail of the    *)
(* outer one.  tracing tells the two functions apart: EvaluateTrace passes a    *)
(* sink to the engine they share.                                               *)
EXTENDS Decisions, RuleMatch

CONSTANTS RuleSet, CommandSet, Tools, MaxRules, MaxCommands

\* load.go:84 rejects any other action; the bounds only cut the enumeration.
ASSUME RuleAssumption == \A r \in RuleSet : r.action \in Decision
ASSUME CommandAssumption == \A c \in CommandSet : c.inspectionFailed \in BOOLEAN
ASSUME BoundAssumption == MaxRules \in Nat /\ MaxCommands \in Nat

VARIABLES rules, tool, cmds,       \* arguments: cfg.Rules, toolName, cmds
          tracing,                 \* EvaluateTrace (sink # nil) or Evaluate
          ci, ri,                  \* the loops' positions
          dec, reason,             \* evalCommandWithTrace's accumulator
          overall, overallReason,  \* the caller's accumulator
          sink,                    \* TraceEntry list of the current command
          trace,                   \* t.Commands
          returned,
          fired                    \* history: the places whose rule matched

args == <<rules, tool, cmds, tracing>>
vars == <<rules, tool, cmds, tracing, ci, ri, dec, reason, overall, overallReason,
          sink, trace, returned, fired>>

\* Evaluate returns its two accumulators.
V == INSTANCE Verdict WITH
       outcomes <- evalRule,
       answer <- IF returned THEN [dec |-> overall, reason |-> overallReason]
                             ELSE [dec |-> "none", reason |-> [cmd |-> 0, rule |-> 0]]

--------------------------------------------------------------------------------
Init ==
  /\ rules \in V!ListsUpTo(RuleSet, MaxRules)
  /\ cmds \in V!ListsUpTo(CommandSet, MaxCommands)
  /\ tool \in Tools
  /\ tracing \in BOOLEAN
  /\ ci = 1 /\ ri = 1
  /\ dec = "allow" /\ reason = V!NoReason
  /\ overall = "allow" /\ overallReason = V!NoReason
  /\ sink = << >> /\ trace = << >>
  /\ returned = FALSE
  /\ fired = {}

InRules == ci <= Len(cmds) /\ ri <= Len(rules)

\* The position advanced by the body and by the loop.
MutSkipTwo ==
  /\ InRules
  /\ ~appliesTo(rules[ri], tool)
  /\ ri' = ri + 2
  /\ UNCHANGED <<args, ci, dec, reason, overall, overallReason, sink, trace, returned, fired>>

\* The rule is for another tool: no trace entry either.
SkipOtherTool ==
  /\ InRules
  /\ ~appliesTo(rules[ri], tool)
  /\ ri' = ri + 1
  /\ UNCHANGED <<args, ci, dec, reason, overall, overallReason, sink, trace, returned, fired>>

Record(outcome) ==
  sink' = IF tracing
            THEN Append(sink, [rule |-> ri, action |-> rules[ri].action, outcome |-> outcome])
            ELSE sink

\* The rule did not match, or its except clause did.
Pass ==
  /\ InRules
  /\ appliesTo(rules[ri], tool)
  /\ \E o \in evalRule(rules[ri], cmds[ci]) : o # "matched" /\ Record(o)
  /\ ri' = ri + 1
  /\ UNCHANGED <<args, ci, dec, reason, overall, overallReason, trace, returned, fired>>

\* The last matching rule decides, whatever its strength.
MutLastRuleWins ==
  /\ InRules
  /\ appliesTo(rules[ri], tool)
  /\ "matched" \in evalRule(rules[ri], cmds[ci])
  /\ Record("matched")
  /\ fired' = fired \cup {[cmd |-> ci, rule |-> ri]}
  /\ dec' = rules[ri].action /\ reason' = [cmd |-> ci, rule |-> ri]
  /\ ri' = ri + 1
  /\ UNCHANGED <<args, ci, overall, overallReason, trace, returned>>

\* Only what changed the accumulator is traced.
MutTraceWinnersOnly ==
  /\ InRules
  /\ appliesTo(rules[ri], tool)
  /\ "matched" \in evalRule(rules[ri], cmds[ci])
  /\ fired' = fired \cup {[cmd |-> ci, rule |-> ri]}
  /\ IF stricter(rules[ri].action, dec)
       THEN dec' = rules[ri].action /\ reason' = [cmd |-> ci, rule |-> ri] /\ Record("matched")
       ELSE UNCHANGED <<dec, reason, sink>>
  /\ ri' = ri + 1
  /\ UNCHANGED <<args, ci, overall, overallReason, trace, returned>>

Match ==
  /\ InRules
  /\ appliesTo(rules[ri], tool)
  /\ "matched" \in evalRule(rules[ri], cmds[ci])
  /\ Record("matched")
  /\ fired' = fired \cup {[cmd |-> ci, rule |-> ri]}
  /\ IF stricter(rules[ri].action, dec)
       THEN dec' = rules[ri].action /\ reason' = [cmd |-> ci, rule |-> ri]
       ELSE UNCHANGED <<dec, reason>>
  /\ ri' = ri + 1
  /\ UNCHANGED <<args, ci, overall, overallReason, trace, returned>>

\* An uninspectable command is forced to at least ask.
Forced == cmds[ci].inspectionFailed /\ rank(dec) < rank("ask")

cmdDecision == IF Forced THEN "ask" ELSE dec
cmdReason == IF Forced THEN [cmd |-> ci, rule |-> ri] ELSE reason

\* The loop over the commands does not advance on an inspection failure.
MutStuckOnFailure ==
  /\ ci <= Len(cmds) /\ ri = Len(rules) + 1
  /\ UNCHANGED <<overall, overallReason, trace, args, returned, fired>>
  /\ ci' = IF cmds[ci].inspectionFailed THEN ci ELSE ci + 1
  /\ ri' = 1
  /\ dec' = "allow" /\ reason' = V!NoReason /\ sink' = << >>

\* The inner loop is over: aggregate, record the command, take the next one with
\* fresh accumulators.
EndCommand ==
  /\ ci <= Len(cmds) /\ ri = Len(rules) + 1
  /\ IF stricter(cmdDecision, overall)
       THEN overall' = cmdDecision /\ overallReason' = cmdReason
       ELSE UNCHANGED <<overall, overallReason>>
  /\ trace' = IF tracing
                THEN Append(trace, [rules |-> sink, inspectionFailed |-> cmds[ci].inspectionFailed])
                ELSE trace
  /\ ci' = ci + 1 /\ ri' = 1
  /\ dec' = "allow" /\ reason' = V!NoReason /\ sink' = << >>
  /\ UNCHANGED <<args, returned, fired>>

Return ==
  /\ ci > Len(cmds) /\ ~returned
  /\ returned' = TRUE
  /\ UNCHANGED <<args, ci, ri, dec, reason, overall, overallReason, sink, trace, fired>>

Next == SkipOtherTool \/ Pass \/ Match \/ EndCommand \/ Return

Spec == Init /\ [][Next]_vars
FairSpec == Spec /\ WF_vars(Next)   \* the loops run on one goroutine that nothing blocks

--------------------------------------------------------------------------------
(* Properties *)

Inspections == {p \in {[cmd |-> c, rule |-> Len(rules) + 1] : c \in DOMAIN cmds} :
                  V!IsInspection(p)}

\* trace.go:19-33
TraceEntry == [rule : Nat, action : Decision, outcome : Outcome]
CommandTrace == [rules : Seq(TraceEntry), inspectionFailed : BOOLEAN]

TypeOK ==
  /\ rules \in Seq(RuleSet) /\ cmds \in Seq(CommandSet) /\ tool \in Tools
  /\ tracing \in BOOLEAN /\ returned \in BOOLEAN
  /\ ci \in 1 .. Len(cmds) + 1 /\ ri \in 1 .. Len(rules) + 1
  /\ dec \in Decision /\ overall \in Decision
  /\ reason \in V!Place /\ overallReason \in V!Place
  /\ sink \in Seq(TraceEntry) /\ trace \in Seq(CommandTrace)
  /\ fired \subseteq V!Place

\* The answer is the strictest of the rules that matched and of the failed
\* inspections, and the reason names the first place, in the order of evaluation,
\* that is as strict (evaluate.go:10-16): nothing met on the way is lost to a later
\* rule, to a later command or to a tie.
VerdictIsStrictest ==
  returned => V!IsVerdict(fired \cup Inspections, overall, overallReason)

\* The trace alone explains the answer (trace.go:43-46): it has one entry per
\* command, and in it the applicable rules, each once and in the order of the
\* config, and the verdict worked out from the recorded outcomes is the one returned.
TraceExplainsVerdict ==
  returned /\ tracing =>
    /\ Len(trace) = Len(cmds)
    /\ \A c \in DOMAIN trace :
         /\ {trace[c].rules[i].rule : i \in DOMAIN trace[c].rules}
              = {r \in DOMAIN rules : appliesTo(rules[r], tool)}
         /\ \A i, j \in DOMAIN trace[c].rules :
              i < j => trace[c].rules[i].rule < trace[c].rules[j].rule
    /\ LET matched == UNION {{[cmd |-> c, rule |-> e.rule] :
                               e \in {e \in Elems(trace[c].rules) : e.outcome = "matched"}} :
                             c \in DOMAIN trace}
           failed == {[cmd |-> c, rule |-> Len(rules) + 1] :
                        c \in {c \in DOMAIN trace : trace[c].inspectionFailed}}
       IN  V!IsVerdict(matched \cup failed, overall, overallReason)

\* An except clause about positional arguments needs some: whatever its mode, it
\* never switches a rule off for a command that has none (match.go:193-195, "the
\* empty-input case for mode=all returns false").
NoVacuousException ==
  \A c \in 1 .. ci - 1, r \in DOMAIN rules :
    /\ appliesTo(rules[r], tool)
    /\ cmds[c].args = << >>
    /\ matchSpec(rules[r].match, cmds[c]) = {TRUE}
    /\ \A e \in rules[r].except : e.glob.mode # "nil" \/ e.regex.mode # "nil"
    => [cmd |-> c, rule |-> r] \in fired

\* The two loops implement the one-step promise.
ImplementsVerdict == V!Spec

\* Every call returns.
Terminates == <>returned
================================================================================
