-------------------------------- MODULE HookRun --------------------------------
(* One process of the hook: cmd/wardhook/run.go (runHook) with                  *)
(* config_lookup.go (resolveConfigPath) and the part of rule.Load that tells a  *)
(* missing file from a bad one.  The process reads one event on stdin, looks    *)
(* for a config, evaluates the invocations of the event one by one and writes   *)
(* one decision on stdout.  Somebody else may be editing, removing or renaming  *)
(* config files meanwhile: every stat and every open sees the file system of    *)
(* its own instant.                                                             *)
(*                                                                              *)
(* What an invocation is answered by one config is RuleEval's matter: here a    *)
(* config is the table of its answers (Verdicts).                               *)
EXTENDS Decisions, Sequences

CONSTANTS NumCandidates, \* length of defaultConfigCandidates (8 in the code)
          Configs,       \* contents of a well-formed wardhook.yaml
          Targets,       \* what an invocation is about, as far as rules can tell
          Verdicts,      \* Verdicts[c][t]: what rule.Evaluate answers for t under c
          Events,        \* what may be read on stdin
          MaxChanges     \* bound on the changes made to the file system

NoConfig == ""

ASSUME CandidatesAssumption == NumCandidates \in Nat
ASSUME VerdictsAssumption == Verdicts \in [Configs -> [Targets -> Decision]]
ASSUME NamesAssumption == Configs \cap {NoConfig, "absent", "unreachable", "dir", "broken"} = {}
ASSUME EventsAssumption ==
  /\ "nothing" \in Targets
  /\ \A e \in Events : e.inputs \in Seq(Targets) /\ (e.kind = "single" => e.inputs # << >>)
ASSUME ChangesAssumption == MaxChanges \in Nat

\* --config's path comes after the candidates, which count from the highest priority.
Explicit == NumCandidates + 1
Path == 1 .. Explicit

\* unreachable: a parent is a file or may not be searched, so stat and open fail,
\* but not with ErrNotExist.  broken: opens or decodes with an error (no permission,
\* not YAML, unknown key, rejected by validate).
FileState == {"absent", "unreachable", "dir", "broken"} \cup Configs

VARIABLES pc,
          flags,    \* "bad": fs.Parse fails; "none": no --config; "config": --config
          event,    \* what is on stdin
          fs,       \* the file system: Path -> FileState
          changes,  \* number of changes made to it
          past,     \* history: the states each path has been in since the start
          k,        \* position in the candidate list
          path,     \* the resolved path, 0 before
          config,   \* the loaded config, NoConfig before
          i,        \* position in the invocations
          final,    \* finalDec and finalReason, then the answer to write
          out,      \* the decisions written on stdout
          lost      \* a write to stdout failed

vars == <<pc, flags, event, fs, changes, past, k, path, config, i, final, out, lost>>
world == <<flags, event, fs, changes, past>>

--------------------------------------------------------------------------------
(* provider.ReadInvocations.  An event is [kind, inputs]: "bad" (the JSON does  *)
(* not decode), "single" (every event but the next), or "editFiles" (Copilot),  *)
(* with the parts its invocations are about.                                    *)

\* copilot.go:87-118: one well-formed Edit per file, a single one without a path for
\* an empty list; every other event is one invocation (claude.go:21, codex.go:32,
\* cursor.go:44, antigravity.go:71) whose tool_input the parser may still refuse.
ReadInvocations(e) ==
  IF e.kind = "single" THEN <<[target |-> e.inputs[1], parses |-> e.parses]>>
  ELSE IF e.inputs = << >> THEN <<[target |-> "nothing", parses |-> TRUE]>>
  ELSE [n \in DOMAIN e.inputs |-> [target |-> e.inputs[n], parses |-> TRUE]]

invs == ReadInvocations(event)

NoReason == [kind |-> "none", inv |-> 0]
Because(kind) == [kind |-> kind, inv |-> 0]
Answer(d, why) == [dec |-> d, reason |-> why]

\* The paths this run may look at.
Watched == IF flags = "config" THEN {Explicit} ELSE 1 .. NumCandidates

Init ==
  /\ pc = "flags"
  /\ flags \in {"bad", "none", "config"}
  /\ event \in Events
  /\ fs \in [Path -> FileState]
  /\ \A p \in Path \ Watched : fs[p] = "absent"
  /\ changes = 0
  /\ past = [p \in Path |-> {fs[p]}]
  /\ k = 1 /\ path = 0 /\ config = NoConfig /\ i = 1
  /\ final = Answer("allow", NoReason)
  /\ out = << >> /\ lost = FALSE

\* writeAllow, writeAsk and the last statement: this answer, then the exit.
Reply(d, why) ==
  /\ final' = Answer(d, why)
  /\ pc' = "write"

ParseFlags ==
  /\ pc = "flags"
  /\ IF flags = "bad"
       THEN Reply("ask", Because("flag error"))
       ELSE pc' = "read" /\ UNCHANGED final
  /\ UNCHANGED <<world, k, path, config, i, out, lost>>

\* resolveConfigPath starts, or is over at once with --config's path as it is.
Read ==
  /\ pc = "read"
  /\ IF event.kind = "bad"
       THEN Reply("ask", Because("input error")) /\ UNCHANGED path
       ELSE /\ UNCHANGED final
            /\ IF flags = "config"
                 THEN path' = Explicit /\ pc' = "open"
                 ELSE pc' = "stat" /\ UNCHANGED path
  /\ UNCHANGED <<world, k, config, i, out, lost>>

isRegular(state) == state \notin {"absent", "unreachable", "dir"}

\* A directory of that name keeps the scan where it is.
MutStatStaysOnDir ==
  /\ pc = "stat" /\ k <= NumCandidates
  /\ IF isRegular(fs[k])
       THEN path' = k /\ pc' = "open" /\ UNCHANGED k
       ELSE k' = (IF fs[k] = "dir" THEN k ELSE k + 1) /\ UNCHANGED <<path, pc>>
  /\ UNCHANGED <<world, config, i, final, out, lost>>

\* The scan goes one past the end of the list.
MutStatPastTheEnd ==
  /\ pc = "stat" /\ k <= NumCandidates + 1
  /\ IF isRegular(fs[k])
       THEN path' = k /\ pc' = "open" /\ UNCHANGED k
       ELSE k' = k + 1 /\ UNCHANGED <<path, pc>>
  /\ UNCHANGED <<world, config, i, final, out, lost>>

\* One os.Stat of the scan.
Stat ==
  /\ pc = "stat" /\ k <= NumCandidates
  /\ IF isRegular(fs[k])
       THEN path' = k /\ pc' = "open" /\ UNCHANGED k
       ELSE k' = k + 1 /\ UNCHANGED <<path, pc>>
  /\ UNCHANGED <<world, config, i, final, out, lost>>

NotFound ==
  /\ pc = "stat" /\ k > NumCandidates
  /\ Reply("allow", NoReason)
  /\ UNCHANGED <<world, k, path, config, i, out, lost>>

\* Any failure to load counts as a missing config.
MutLoadErrorsAllow ==
  /\ pc = "open"
  /\ IF fs[path] \in Configs
       THEN config' = fs[path] /\ pc' = "parse" /\ UNCHANGED final
       ELSE Reply("allow", NoReason) /\ UNCHANGED config
  /\ UNCHANGED <<world, k, path, i, out, lost>>

\* rule.Load: only ErrNotExist, by now, allows; any other error asks.
Load ==
  /\ pc = "open"
  /\ \/ /\ fs[path] = "absent"
        /\ Reply("allow", NoReason) /\ UNCHANGED config
     \/ /\ fs[path] \in {"unreachable", "dir", "broken"}
        /\ Reply("ask", Because("config error")) /\ UNCHANGED config
     \/ /\ fs[path] \in Configs
        /\ config' = fs[path] /\ pc' = "parse" /\ UNCHANGED final
  /\ UNCHANGED <<world, k, path, i, out, lost>>

\* The answer to a parse error is written without leaving the loop.
MutNoReturnOnParseError ==
  /\ pc = "parse" /\ i <= Len(invs)
  /\ IF invs[i].parses
       THEN pc' = "evaluate" /\ UNCHANGED <<i, out>>
       ELSE /\ out' = Append(out, Answer("ask", Because("parse error")))
            /\ i' = i + 1 /\ UNCHANGED pc
  /\ UNCHANGED <<world, k, path, config, final, lost>>

\* pickParser and Parse: an error asks at once, whatever came before.
Parse ==
  /\ pc = "parse" /\ i <= Len(invs)
  /\ IF invs[i].parses
       THEN pc' = "evaluate" /\ UNCHANGED final
       ELSE Reply("ask", Because("parse error"))
  /\ UNCHANGED <<world, k, path, config, i, out, lost>>

\* The last invocation's verdict is the answer.
MutLastInvocationWins ==
  /\ pc = "evaluate"
  /\ final' = Answer(Verdicts[config][invs[i].target],
                     IF Verdicts[config][invs[i].target] = "allow"
                       THEN NoReason ELSE [kind |-> "rule", inv |-> i])
  /\ i' = i + 1 /\ pc' = "parse"
  /\ UNCHANGED <<world, k, path, config, out, lost>>

\* rule.Evaluate and the aggregation over the invocations.
Evaluate ==
  /\ pc = "evaluate"
  /\ LET dec == Verdicts[config][invs[i].target]
     IN  IF stricter(dec, final.dec)
           THEN final' = Answer(dec, [kind |-> "rule", inv |-> i])
           ELSE UNCHANGED final
  /\ i' = i + 1 /\ pc' = "parse"
  /\ UNCHANGED <<world, k, path, config, out, lost>>

Evaluated ==
  /\ pc = "parse" /\ i > Len(invs)
  /\ pc' = "write"
  /\ UNCHANGED <<world, k, path, config, i, final, out, lost>>

\* WriteDecision, the error of which is at most logged.  The exit code is 0 anyway.
Write ==
  /\ pc = "write"
  /\ \/ out' = Append(out, final) /\ UNCHANGED lost
     \/ lost' = TRUE /\ UNCHANGED out
  /\ pc' = "exit"
  /\ UNCHANGED <<world, k, path, config, i, final>>

\* A panic anywhere below runHook, WriteDecision's included, reaches its recover.
Panic ==
  /\ pc \notin {"recover", "exit"}
  /\ pc' = "recover"
  /\ final' = Answer("ask", Because("panic"))
  /\ UNCHANGED <<world, k, path, config, i, out, lost>>

\* safeWriteAsk: the write may fail or panic again, which is swallowed.
Recover ==
  /\ pc = "recover"
  /\ \/ out' = Append(out, final) /\ UNCHANGED lost
     \/ lost' = TRUE /\ UNCHANGED out
  /\ pc' = "exit"
  /\ UNCHANGED <<world, k, path, config, i, final>>

Step == \/ ParseFlags \/ Read \/ Stat \/ NotFound \/ Load \/ Parse \/ Evaluate
        \/ Evaluated \/ Write \/ Recover

\* Someone writes, removes or replaces one file, or renames one onto another.
Change ==
  /\ changes < MaxChanges
  /\ \E p \in Watched :
       \/ \E s \in FileState \ {fs[p]} : fs' = [fs EXCEPT ![p] = s]
       \/ \E q \in Watched \ {p} : fs[p] \in Configs /\ fs' = [fs EXCEPT ![q] = fs[p], ![p] = "absent"]
  /\ changes' = changes + 1
  /\ past' = [p \in Path |-> past[p] \cup {fs'[p]}]
  /\ UNCHANGED <<pc, flags, event, k, path, config, i, final, out, lost>>

ChangeFile ==
  /\ pc \in {"stat", "open"}   \* the others do not look at the file system
  /\ Change

Next == Step \/ Panic \/ ChangeFile

\* The process is one goroutine that waits for nobody once stdin is read; a panic may
\* never come, and the writers of config files owe it nothing.
Spec == Init /\ [][Next]_vars /\ WF_vars(Step)

--------------------------------------------------------------------------------
TypeOK ==
  /\ pc \in {"flags", "read", "stat", "open", "parse", "evaluate", "write", "recover", "exit"}
  /\ fs \in [Path -> FileState] /\ past \in [Path -> SUBSET FileState]
  /\ changes \in 0 .. MaxChanges
  /\ k \in 1 .. NumCandidates + 1 /\ path \in 0 .. Explicit
  /\ config \in Configs \cup {NoConfig}
  /\ i \in Nat \ {0}
  /\ final.dec \in Decision
  /\ \A n \in DOMAIN out : out[n].dec \in Decision
  /\ lost \in BOOLEAN

\* One process answers once: exactly one decision on stdout, whatever goes wrong,
\* unless stdout itself refuses it.
OneAnswer ==
  /\ Len(out) <= 1
  /\ pc = "exit" => Len(out) = 1 \/ lost

\* The strictest verdict of a config on the event, an invocation that does not parse
\* counting as ask, and the first invocation it comes from.
Strictest(c) ==
  LET verdict(n) == IF invs[n].parses THEN Verdicts[c][invs[n].target] ELSE "ask"
      worst == CHOOSE n \in DOMAIN invs : \A m \in DOMAIN invs :
                 /\ rank(verdict(m)) <= rank(verdict(n))
                 /\ rank(verdict(m)) = rank(verdict(n)) => n <= m
  IN  Answer(verdict(worst),
             IF verdict(worst) = "allow" THEN NoReason
             ELSE IF invs[worst].parses THEN [kind |-> "rule", inv |-> worst]
             ELSE Because("parse error"))

\* The answer to give if the file system f never changes: the config is --config's
\* path, or else the first candidate that is a file; none at all allows.
AnswerOn(f) ==
  LET files == {p \in 1 .. NumCandidates : isRegular(f[p])}
      first == CHOOSE p \in files : \A q \in files : p <= q
      used  == IF flags = "config" THEN Explicit ELSE first
  IN  IF flags = "bad" THEN Answer("ask", Because("flag error"))
      ELSE IF event.kind = "bad" THEN Answer("ask", Because("input error"))
      ELSE IF flags = "none" /\ files = {} THEN Answer("allow", NoReason)
      ELSE IF f[used] \in Configs THEN Strictest(f[used])
      ELSE IF f[used] = "absent" THEN Answer("allow", NoReason)
      ELSE Answer("ask", Because("config error"))

\* While nobody touches the files, the hook answers what its config says: the first
\* candidate, the strictest invocation, the first reason as strict; no verdict already
\* reached is lost to the invocation after it (README.md:177).
AnswersItsConfig ==
  changes = 0 /\ out # << >> => out[1] \in {AnswerOn(fs), Answer("ask", Because("panic"))}

\* Whatever happens to the files, allow has a cause the hook saw: a config that was
\* in place and allows every invocation, or a path that was gone when it was opened,
\* or no candidate that was always a file.
AllowIsExplained ==
  out # << >> /\ out[1].dec = "allow" =>
    \/ config # NoConfig /\ config \in past[path] /\ Strictest(config).dec = "allow"
    \/ config = NoConfig /\ path # 0 /\ "absent" \in past[path]
    \/ path = 0 /\ \A p \in 1 .. NumCandidates : \E s \in past[p] : ~isRegular(s)

\* The process always comes to its end.
Terminates == <>(pc = "exit")
================================================================================
