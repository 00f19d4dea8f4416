-------------------------------- MODULE Inspect --------------------------------
(* What the hook makes of one Bash invocation (runHook, run.go:106-118): a      *)
(* parser is picked for the loaded config, it turns the line into commands      *)
(* (module BashParse), and rule.Evaluate answers for them (module Verdict,      *)
(* which RuleEval implements).  A config is [rules, cliSpecs, maxDepth], rules  *)
(* with the clauses of RuleMatch, cliSpecs what ResolvedCLISpecs gave.          *)
EXTENDS BashParse, RuleMatch, Decisions

CONSTANTS Configs,  \* the configs a load may return
          Means     \* line -> calls that its author wants run inside its wrappers

\* What load.go lets through: one of the three actions, one except clause at most.
ASSUME ConfigsAssumption ==
  \A cfg \in Configs :
    /\ cfg.rules \in Seq(Elems(cfg.rules))
    /\ \A r \in Elems(cfg.rules) : r.action \in Decision /\ \A e, f \in r.except : e = f

VARIABLES config,   \* cfg
          answer    \* what Evaluate returned, or NoAnswer

inspectVars == <<vars, config, answer>>

\* pickParser of the tool Bash.
pickParser(cfg) ==
  [cliSpecs |-> cfg.cliSpecs, maxDepth |-> cfg.maxDepth,
   valueTakingFlags |-> ResolvedValueTakingFlags(cfg.rules)]

\* The commands as the rules see them.
CommandsOf(list) ==
  [i \in DOMAIN list |->
     CommandOf(list[i].words, resolveValueTaking(list[i].words[1]), list[i].inspectionFailed)]

V == INSTANCE Verdict WITH
       RuleSet <- {}, CommandSet <- {}, Tools <- {"Bash"}, MaxRules <- 0, MaxCommands <- 0,
       outcomes <- evalRule, rules <- config.rules, tool <- "Bash", cmds <- CommandsOf(cmds)

InspectInit ==
  /\ config \in Configs
  /\ Init /\ parser = pickParser(config)
  /\ answer = V!NoAnswer

Parsing == Next /\ UNCHANGED <<config, answer>>

\* A command is answered for by the last of its rules that matches.
MutLaterRuleWins(fired, d, why) ==
  IF fired = {} THEN d = "allow" /\ why = V!NoReason
  ELSE /\ why \in fired /\ \A p \in fired : ~V!before(why, p)
       /\ d = IF why.rule \in DOMAIN config.rules THEN config.rules[why.rule].action ELSE "ask"

IsAnswer(fired, d, why) == V!IsVerdict(fired, d, why)

Evaluate ==
  /\ outcome = "parsed" /\ answer = V!NoAnswer
  /\ LET all  == {[cmd |-> pr[1], rule |-> pr[2]] : pr \in V!Places}
         must == {p \in all : V!MustFire(p) \/ V!IsInspection(p)}
     IN  \E may \in SUBSET {p \in all \ must : V!MayFire(p)} :
           \E d \in Decision, why \in must \cup may \cup {V!NoReason} :
             IsAnswer(must \cup may, d, why) /\ answer' = [dec |-> d, reason |-> why]
  /\ UNCHANGED <<vars, config>>

\* The error of Parse is answered with ask, before any rule is looked at.
ParseError ==
  /\ outcome = "error" /\ answer = V!NoAnswer
  /\ answer' = [dec |-> "ask", reason |-> V!NoReason]
  /\ UNCHANGED <<vars, config>>

InspectNext == Parsing \/ Evaluate \/ ParseError

\* One goroutine that waits for nobody.
InspectSpec == InspectInit /\ [][InspectNext]_inspectVars /\ WF_vars(Parsing)

--------------------------------------------------------------------------------
(* Properties *)

InspectTypeOK ==
  /\ TypeOK
  /\ config \in Configs /\ parser = pickParser(config)
  /\ answer \in [dec : Decision, reason : V!Place] \cup {V!NoAnswer}
  /\ answer.reason.cmd \in 0 .. Len(cmds)

Answered == answer # V!NoAnswer

Strictest(S) == IF S = {} THEN 1 ELSE CHOOSE n \in S : \A k \in S : k <= n

\* What the rules say of one call by itself, as a rank.
Said(call) ==
  LET cmd == CommandOf(call, resolveValueTaking(call[1]), FALSE)
  IN  Strictest({rank(r.action) : r \in {r \in Elems(config.rules) :
                   appliesTo(r, "Bash") /\ "matched" \in evalRule(r, cmd)}})

Unseen(call, depth) ==
  \/ ~Normalize(call, resolveValueTaking(call[1])).ok
  \/ \E x \in Extractions(call) : x.failed
  \/ \E t \in TargetsOf(call) : depth = maxDepth \/ Broken(t)

\* What a call at some depth deserves: the strictest of what the rules say of it and of
\* every call in it, at any depth that is looked into, and ask where something cannot be
\* inspected.
worst[at \in Seq(Words) \X (0 .. maxDepth)] ==
  LET call == at[1]
      depth == at[2]
      all(calls, d) == {worst[<<calls[n], d>>] : n \in DOMAIN calls}
      inner == IF depth = maxDepth THEN {}
               ELSE UNION {all(Calls(t), depth + 1) : t \in {t \in TargetsOf(call) : ~Broken(t)}}
  IN  Strictest({Said(call)} \cup inner \cup all(Substituted(call), depth)
                \cup (IF Unseen(call, depth) THEN {rank("ask")} ELSE {}))

\* What a line deserves: the strictest of what its calls deserve.
Deserves ==
  IF line = NotShell THEN rank("ask") ELSE Strictest({worst[<<line[n], 0>>] : n \in DOMAIN line})

\* The answer is what the line deserves, however its calls are nested and in whatever
\* order they are found: no deny is softened by what stands around it, and nothing is
\* denied that no call asks for (README.md:640-661, 673-682; evaluate.go:10-16).
AnswerIsDeserved == Answered => rank(answer.dec) = Deserves

\* What the author of a line wants run inside a wrapper is found there: the answer is
\* no weaker than for that call alone, or ask if something could not be inspected
\* (README.md:653-661).
WrappersHideNothing ==
  Answered => \A call \in Means[line] :
    \/ rank(answer.dec) >= Said(call)
    \/ answer.dec = "ask" /\ \E i \in DOMAIN cmds : cmds[i].inspectionFailed

--------------------------------------------------------------------------------
(* What the answer is a function of the line under *)

\* No alternative of a flag is listed under two names of one clause, which load.go does
\* not look for: the order of a Go map would decide what matches.
Unambiguous(spec) ==
  \A c, d \in DOMAIN spec.flagAliases : spec.flagAliases[c] \cap spec.flagAliases[d] # {} => c = d

UnambiguousRules ==
  \A cfg \in Configs : \A r \in Elems(cfg.rules) :
    Unambiguous(r.match) /\ \A e \in r.except : Unambiguous(e)

\* What stands in a substitution nests less deep than the word it stands in, of whose
\* text it is a part; no word nests deeper than h.
Nests(nesting, h) ==
  /\ h \in Nat /\ nesting \in [Words -> 0 .. h]
  /\ \A w \in Words : \A c \in Elems(Inside[w]) : \A v \in Elems(c) : nesting[v] < nesting[w]
================================================================================
