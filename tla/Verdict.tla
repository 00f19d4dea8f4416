-------------------------------- MODULE Verdict --------------------------------
(* What rule.Evaluate promises its callers (the comment at evaluate.go:10-16    *)
(* and trace.go:32-33), as one atomic step: the answer to a list of commands is *)
(* the strictest of what the matching rules and the failed inspections ask for, *)
(* explained by the first of the strictest.  RuleEval implements this module.   *)
(*                                                                              *)
(* A reason is known by the place that produced it: [cmd, rule] is the text     *)
(* formatReason builds for that command and that rule, and the rule number one  *)
(* past the last stands for "inspection failed for that command".               *)
EXTENDS Decisions, Sequences

CONSTANTS RuleSet,     \* the rules a config may list
          CommandSet,  \* the commands a parser may emit
          Tools,       \* the tool names an invocation may carry
          MaxRules,    \* bound on the length of cfg.Rules
          MaxCommands, \* bound on the number of commands
          appliesTo(_, _), \* is the rule meant for the tool?
          outcomes(_, _)   \* what evalRule may report of a rule and a command

VARIABLES rules, tool, cmds,  \* the arguments cfg.Rules, toolName, cmds
          answer              \* what the call returned, or NoAnswer

NoReason == [cmd |-> 0, rule |-> 0]
NoAnswer == [dec |-> "none", reason |-> NoReason]

ListsUpTo(S, n) == UNION {[1 .. m -> S] : m \in 0 .. n}

Place == [cmd : Nat, rule : Nat]

Applies(place) ==
  /\ place.cmd \in DOMAIN cmds
  /\ place.rule \in DOMAIN rules
  /\ appliesTo(rules[place.rule], tool)

\* Where a rule may match, and where it has to: they differ only where the order
\* of a Go map decides (RuleMatch).
MayFire(place) == Applies(place) /\ "matched" \in outcomes(rules[place.rule], cmds[place.cmd])

MustFire(place) == Applies(place) /\ outcomes(rules[place.rule], cmds[place.cmd]) = {"matched"}

IsInspection(place) ==
  /\ place.cmd \in DOMAIN cmds
  /\ place.rule = Len(rules) + 1
  /\ cmds[place.cmd].inspectionFailed

Places == (DOMAIN cmds) \X (1 .. Len(rules) + 1)

\* How strong a verdict the place asks for.
strength(place) ==
  IF place.rule \in DOMAIN rules THEN rank(rules[place.rule].action) ELSE rank("ask")

\* The order in which the evaluation reaches the places.
before(p, q) == p.cmd < q.cmd \/ (p.cmd = q.cmd /\ p.rule < q.rule)

\* Decision d with reason why is the verdict on the places of F.
IsVerdict(F, d, why) ==
  \/ /\ d = "allow" /\ why = NoReason
     /\ \A p \in F : strength(p) <= rank("allow")
  \/ /\ d \in {"ask", "deny"} /\ why \in F
     /\ strength(why) = rank(d)
     /\ \A p \in F : strength(p) <= rank(d)
     /\ \A p \in F : strength(p) = rank(d) => ~before(p, why)

\* F holds every failed inspection and the rules that matched.
Admissible(F) ==
  /\ \A p \in F : IsInspection(p) \/ MayFire(p)
  /\ \A pr \in Places :
       LET p == [cmd |-> pr[1], rule |-> pr[2]]
       IN  IsInspection(p) \/ MustFire(p) => p \in F

Init ==
  /\ rules \in ListsUpTo(RuleSet, MaxRules)
  /\ cmds \in ListsUpTo(CommandSet, MaxCommands)
  /\ tool \in Tools
  /\ answer = NoAnswer

Answer ==
  /\ answer = NoAnswer
  /\ answer' \in [dec : Decision, reason : Place]
  /\ \E F \in SUBSET {[cmd |-> pr[1], rule |-> pr[2]] : pr \in Places} :
       Admissible(F) /\ IsVerdict(F, answer'.dec, answer'.reason)
  /\ UNCHANGED <<rules, tool, cmds>>

Spec == Init /\ [][Answer]_<<rules, tool, cmds, answer>>
================================================================================
