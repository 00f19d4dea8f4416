# A verification development of wardhook

wardhook is a hook that coding agents call before they run a tool. It reads one
event on stdin, finds a `wardhook.yaml`, evaluates its rules on what the tool is
about to do and writes `allow`, `ask` or `deny` on stdout. For a shell command it
takes the text apart first: pipelines, command substitutions, and the texts that
wrappers such as `bash -c`, `docker run` or `kubectl exec ... --` would run.

This directory holds TLA+ modules translated from the Go source, the TLC
configurations that check them on small instances, and proofs that TLAPS checks
for every value of the constants. `PROJECT.json` ties every definition to the
lines it models and every property to a plausible bug that would break it.

    tlc -workers 2 -config RuleEval.cfg MCRuleEval     # model-check one run
    tlapm RuleProofs.tla                               # check the proofs

## 1. Inventory

The program is one process per event and one goroutine per process. It has no
shared memory and no persistent state; what makes it hard is not concurrency
inside the process but (a) several accumulators that aggregate over rules,
commands and invocations, (b) one list of words that is read by two independent
scans, (c) a recursion whose partial failures must be reported at the right
place, (d) error paths that must end in the right one of two answers, and (e) a
file system that others change while the process looks at it.

| Component (source) | State | Operations | Talks to | What is hard | What makes it correct |
|---|---|---|---|---|---|
| Decision lattice (`hook/io.go`, ranks in `rule/evaluate.go`, `run.go`) | none | `rank`, `stricter` | every aggregation | two copies of the ranks | deny > ask > allow everywhere |
| Rule matcher (`rule/match.go`) | none; a reverse alias table per call | `matchSpec` and its clauses | called by evaluation | vacuous truth, aliases of flags *and* values, map order | a rule's reach does not depend on spelling, nor shrink when words are added |
| Rule evaluation (`rule/evaluate.go`) | two accumulators (per command, overall) | `Evaluate`, `evalCommandWithTrace`, `evalRule` | matcher; called by `runHook` | ties, order, forced `ask` | strictest verdict wins, first reason of that strength is given, an uninspectable command is never allowed |
| Evaluation trace (`rule/trace.go`) | the same, and a list of entries | `EvaluateTrace` | matcher; called by `wardhook test` | a second copy of the loop | explains, and agrees with, `Evaluate` |
| Flag normalisation (`flagnorm/flagnorm.go`) | cursor over the words | `Normalize` | called by the Bash parser | bundles, `=`, values at the end | flags, values and positionals partition the words |
| Recursion targets (`parser/recurse.go`) | cursor over the words | flag lookup, terminator, subcommand | called by the Bash parser | a second scan of the same words | finds the inner command the rules' partition implies |
| Bash parser (`parser/bash_parser.go`, `parser.go`) | the call tree, a depth | `Parse`, `parseCommand`, `expandRecursive` | shell parser (external), `flagnorm`, `recurse` | depth limit, partial failure, order | what is not marked is complete; what could not be inspected is marked |
| Hook process (`cmd/wardhook/run.go`) | accumulator over invocations | `runHook`, `safeWriteAsk`, `runValidateWithIO` | all of the below | error paths, panics, one answer | exactly one answer, fails to `ask` |
| Config lookup (`cmd/wardhook/config_lookup.go`) | position in a list of 8 candidates | `resolveConfigPath` | file system | stat and open at different instants | first regular file wins |
| Config loading (`rule/load.go`, `types.go`) | none | `Load`, `validate`, `ResolvedValueTakingFlags` | YAML decoder (external) | which error may allow | only "does not exist" allows; a loaded config needs no further checks |
| Providers (`internal/provider/*`) | none | `ReadInvocations`, `WriteDecision` | hook process | one event, many invocations | every file of an edit is evaluated |
| Passthrough parser (`parser/passthrough_parser.go`) | none | `Parse` | hook process, test command | arguments of an unexpected type | lifts every field of a tool that is a string, in order; one that is not is left out like an absent one (`passthrough_parser.go:68-71`), only the Bash parser refuses it |
| CLI specs (`internal/clispec/*`, `rule/defaults.go`) | built-in table | `Merge`, deep copies | Bash parser | aliasing, skip replaced | a declared spec extends a built-in one |
| `wardhook test` (`cmd/wardhook/test_cmd.go`) | none | tool choice, rule filter, report | `EvaluateTrace` | report about another tool | reports on what the hook would evaluate |
| Entry point (`cmd/wardhook/main.go`) | none | exit | | | |

The hazards, each at its line and with the properties that watch it, are listed
in `PROJECT.json` under `hazards`. The two worth knowing first: `evaluate.go:29`
(a later command, or a tie, could replace a verdict or its reason) and
`recurse.go:263` (the same words partitioned twice, by different code).

## 2. Plan

Written first what decides the answer, then what feeds it, then the process
around it, then the compositions, and proofs as soon as a module was checked. All of
these exist; 13 is what is left to prove.

1. `Decisions`, `RuleMatch` - operators.
2. `Verdict`, the abstract specification of an evaluation, and `RuleEval`, the
   two loops that implement it; `RuleProofs`.
3. `MatchSteps` - a command line edited under a fixed rule; also in `RuleProofs`.
4. `FlagNorm`, `Recurse`, and `CommandLine`, which lets the two scans read the
   same growing list of words; `CommandLineProofs`.
5. `BashParse` - the recursive parser over `Recurse` and `FlagNorm`.
6. `HookRun` - the process around the evaluation; proofs in `ValidateRunProofs`.
7. `RuleLoad` - from the file to the rules: decoding, `validate`, and the flags
   that rules make take a value; `RuleLoadProofs`.
8. `CLISpecs` - merging, with memory cells, so that sharing with the built-in
   table is a state; `CLISpecsProofs`.
9. `ToolInput` and `ToolCall` - the providers and the parsers of all tools.
10. `TestCmd` - `wardhook test`; `ToolProofs`, about both. `Dispatch` - one process is
    the one or the other; its run checks the properties of both.
11. `Inspect` - `BashParse` and `Verdict` composed through the list of commands
    and the parser picked for a config. Its run checks the properties of both.
    `InspectProofs`, about both.
12. `ValidateRun` - `wardhook validate` followed by the hook. Its run checks the
    properties of both processes. `ValidateRunProofs`, about both.
13. Left to prove: `UnmarkedIsComplete` and `WrappersHideNothing`; section 5 says
    what stands in the way.

Modules that are proved about declare no recursive operator: recursion is written
as a function over positions or words, or a fold.

## 3. What each module models

**`Decisions`** - `hook.Decision`, `decisionRank`, `stricter`.

**`RuleMatch`** - `matchSpec` and the operators it calls, one each, and
`evalRule`. Lists of patterns are abstracted to the set of inputs that at least
one of them accepts, so doublestar and RE2 do not appear; the `any`/`all`/absent
modes do. Go ranges over maps in an unspecified order: `buildReverseAliases`
gives every table the loop may build, and `matchSpec`, which builds two of them,
every result it may return. For an unambiguous alias list this is a single result.

**`Verdict`** - what a call of `rule.Evaluate` promises, in one step: the
strictest of what the matching rules and the failed inspections ask for, with the
first place of that strength as its reason. A reason is known by the place
(command, rule) that produced it, not by its wording.

**`RuleEval`** - both evaluation functions. Variables: the arguments (`rules`,
`tool`, `cmds`), which function runs (`tracing`: `EvaluateTrace` passes a sink
into the shared engine), the loop positions (`ci`, `ri`), the accumulators of
`evalCommandWithTrace` (`dec`, `reason`) and of its caller (`overall`,
`overallReason`), the sink, the trace, and the history variable `fired`, read by
no guard. Actions: `SkipOtherTool`, `Pass`, `Match` are the three ways through the
inner loop's body, `EndCommand` is the end of the inner loop together with the
forcing and the outer aggregation, `Return` ends the call. `RuleEval` implements
`Verdict` under the mapping in the `INSTANCE` of its head.

**`MatchSteps`** - steps are edits of a command line: a positional, a flag or a
value added, a flag written under another of its names. The edits are the
environment; the matcher is what is examined, before and after each of them.

**`FlagNorm`** - `Normalize` with `handleDoubleDash` and `handleSingleDash`. A word is an
atom; the constant `Shape` tells how it reads (plain, `--`, long, short, with or
without `=`, its letters and what follows each). The only caller passes no
aliases, so the alias branches are left out. `Normalize` is the loop, written from the word it
has come to: what that word says, `Joined` with what the words after it say. `CommandOf` is the `Command` that the
Bash parser makes of the result.

**`Lists`** - the elements of a list at a set of places, in their order: how a loop
with an `append` filters a list.

**`Recurse`** - `lookupFlag`, `terminatorTail`, `extractSubcommandTarget` with its
`consumeFlag` and `findInnerStart`, and `extractRecursionTargets`, which applies
all three strategies.

**`CommandLine`** - the words of one wrapper, typed one by one (the environment),
with what both scans make of them.

**`BashParse`** - one parse with the parser (variable `parser`: merged CLI specs,
depth limit, flags that rules ask for) that some config makes: the recursion of `parseCommand` and `expandRecursive`. The Go
call stack is the variable `levels`; each level has the targets it has still to
parse, the calls still to visit, its depth, and the wrapper it works for. The
lists the Go functions return and concatenate are one list `cmds`, to which each
command is appended when it is emitted. `Visit` is one call expression:
resolution of the value-taking flags, `Normalize`, the targets, the depth test and
the mark. `ParseTarget` is one iteration over the targets, whose failure marks the
wrapper. The shell's grammar (mvdan.cc/sh) is a lexicon: `Tokens[w]` is how the
text of word `w` reads when parsed again, `Unclosed` the words that cannot be,
`Inside[w]` the calls of its command substitutions.

**`HookRun`** - `runHook`, one action per call it makes that can fail or that
looks outside: `ParseFlags`, `Read`, one `Stat` per candidate, `NotFound`, `Load`,
`Parse`, `Evaluate`, `Evaluated`, `Write`; `Panic` from any of them and `Recover`
(the deferred `safeWriteAsk`). `ChangeFile` is anybody else, changing, removing or
renaming a file between two steps. What a config answers on a target is the table
`Verdicts`: that is `RuleEval`'s matter.

**`RuleLoad`** - `Load`: decoding a rule as far as its shape decides (a scalar or
a list, flat or nested subcommand paths, one pattern or many), the conditions of
`validate` in their order, and what the loaded rules mean. Regular expressions and
globs are names that compile or do not.

**`CLISpecs`** - `Builtins`, `Merge` and their helpers over memory cells: a spec or a
recurse block is an address, so that a copy and an alias differ, and a caller that
writes into what it was given (the environment) can be seen by others. A behaviour has
one config, resolved up to `MaxResolves` times. A shipped process resolves at most once
and writes into nothing it was given, so this checks what `defaults.go:7-9` promises
any caller.

**`ToolInput`** - the JSON of a tool's input (its type and which keys are there) and
`Parse` of both parsers. **`ToolCall`** - one event of one agent: `ReadEvent` is the
provider's `ReadInvocations` with the tables of tool names and keys, `Evaluate` the
parse of the next invocation. What a call *means* is the initial state's history
variable `call`; `Spellings` are the events each agent writes for it.

**`Inspect`** - `pickParser`, the whole of `BashParse`, and `rule.Evaluate` by its
abstract specification. Commands become what rules see through
`FlagNorm!CommandOf`. `Deserves` and `Means` are the references: what the calls of
a line ask for one by one, and what its author wants run.

**`TestCmd`** - `runTest`: one action per call that may end it (`ParseArgs`,
`LoadConfig`, `validateRuleNames`, `PickTool`, `ParseText`), and `Report`, which is
`EvaluateTrace` on the selected rules and `formatTrace`. The report is the
structure of what is printed, down to one line per rule and command.

**`Dispatch`** - `run`, which makes a process a hook (`ToolCall`) or `wardhook test`
(`TestCmd`); what the other one would keep stays as it is.

**`ValidateRun`** - `runValidateWithIO` to its end, then `HookRun`, over the same
files, which others change at any time.

### How the modules fit

    Decisions --- Verdict <== RuleEval --- RuleProofs* (MatchSteps)
        |           |  \
        |           |   \--- TestCmd (RuleMatch, FlagNorm, ToolInput)
        |           \--- Inspect (BashParse, RuleMatch)
        +-- HookRun --- ValidateRun --- ValidateRunProofs*
    RuleMatch --- RuleEval
             \--- MatchSteps
             \--- RuleLoad (FlagNorm) --- RuleLoadProofs*
    FlagNorm --- Recurse (Lists) --- CommandLine --- CommandLineProofs* (CommonProofs*)
                        \--- BashParse --- Inspect
                        |                      \--- InspectProofs* (CommonProofs*)
                        +--- CLISpecs --- CLISpecsProofs* (CommonProofs*)
                        \--- CommonProofs*
    Lists --- ToolInput --- ToolCall --- ToolProofs* (TestCmd, CommonProofs*)
                                    \--- Dispatch (TestCmd)

`<==` is "is implemented by", a line is EXTENDS (`Verdict` is taken by INSTANCE), a
star marks the modules whose proofs TLAPS checks. The `MC*` modules only define
values of constants.

## 4. What each run checks and shows

| Run (cfg) | Shows |
|---|---|
| `rule_eval` (`RuleEval.cfg`) | for every config of up to 3 of 6 rules and every list of up to 2 of 5 commands, with both functions: the answer is the strictest and is explained by the first of the strictest, the trace by itself yields the same verdict, an `except` about arguments never removes a rule from a command without any, the loops implement `Verdict`, every call returns |
| `match_steps` (`MatchSteps.cfg`) | another spelling of a flag never changes a result, its values included; a spec that asks for presence keeps matching a command that grows |
| `command_line` (`CommandLine.cfg`) | over every line of up to 5 of 11 words, the two scans agree where the inner command begins, the captured value of a recurse flag that is written alone is inspected, a line cut short is marked, later words take nothing away |
| `command_line_bundles` (`CommandLineBundles.cfg`) | finding 1: with a bundle whose last letter takes a value the two scans disagree |
| `inspect` (`Inspect.cfg`) | over 4 configs and 694 lines of wrappers within wrappers, of several targets, broken texts and command substitutions: without marks the commands are exactly what the line runs (a reference definition, `Runs`); marks are exactly where something was not inspected; parents come first and nothing foreign comes in between; parsing ends; the answer is exactly what the calls of the line deserve, at any depth; a wrapper around a call never weakens the answer |
| `inspect_quotes` (`InspectQuotes.cfg`) | finding 2: it does if a quoted text stands within a wrapper that joins its words |
| `rule_load` (`RuleLoad.cfg`) | what a loaded rule means is what its file says, a file is accepted exactly if it has no mistake (each kind of mistake is in some file, in a `match`, an `except` and behind a good rule), every flag a `match` asks a value of is known to take one |
| `cli_specs` (`CLISpecs.cfg`) | over sequences of resolves and writes: nobody's writes reach the built-in table or another's result, every resolve is the union of built-in and declared, declaring a spec hides none of the built-in flags and verbs |
| `dispatch` (`Dispatch.cfg`) | of a process called as a hook: a call is the same tool and arguments to the rules whichever agent makes it and whichever key it uses; every event becomes at least one invocation that is parsed for the rules, with a command to look at unless the tool is Bash; a Bash command that is no string asks, but for Antigravity. Of one called as `wardhook test`, over configs whose rules share names, ask values of flags, are about other tools or have ambiguous aliases: the report is about the commands the hook would evaluate, whatever rules are selected; a selected rule is left out only if it is about another tool than the report; a rule named alone is tried as a tool it is about if `test` supports that; the verdict follows from the lines above it |
| `tool_call_malformed` (`ToolCallMalformed.cfg`) | finding 3: not for Antigravity's `run_command` |
| `test_cmd_tool` (`TestCmdTool.cfg`) | finding 4: a rule named alone that is about an unsupported tool is tried as Bash, and missing |
| `hook_run` (`HookRun.cfg`) | for every state of the files, every event, every panic and up to 2 changes to the files, during `wardhook validate`, between it and the hook and during the hook: the hook gives one answer, the one the files call for while nobody changes them, and an explained `allow` in any case; its process ends; validate's OK is about the very config that the hook then uses unless a file changes, and an error means that it uses none; whatever changes, OK is about a config that was in place and no candidate before it was a file all the time |

The action properties are `SpellingIsIrrelevant`, `GrowthKeepsMatch`,
`GrowthOnlyAdds` and `MarksStay`; the liveness properties are the three
`Terminates`. For every property of a passing run, `PROJECT.json` names a mutant:
a bug that could have been written at that place and that breaks the property
under the run's own bounds. The `Mut...` operators in the modules are those bugs
and nothing else refers to them.

### Bounds, and why they are enough

* `MaxRules = 3`, `MaxCommands = 2`. Ties, a stricter rule after a weaker one and
  a weaker after a stricter one, with one in between, need three rules; taking a
  verdict across commands needs two. The proofs hold for every bound.
* `MaxArgs = 2` in `MatchSteps`: verb paths have one and two words, so that a path
  may be too long, match, and match with words to come.
* `MaxWords = 5` in `CommandLine`: command, flag, value, verb, image; 6 in the
  violation run.
* A depth limit of 1, 2 and the default (3) in `Inspect`, with words that nest three
  deep, so that the limit bites in some lines and not in others; the lines include
  every strategy of a wrapper at once, broken and empty targets among them, and
  substitutions inside targets.
* `NumCandidates = 2` (8 in the code): the scan's body is the same for each, and two
  are needed to move a file to a candidate already passed. `MaxChanges = 2`: one for
  each of the two reads of a path, by stat and by open, or for each process. The proofs hold for every number.
* `CLISpecs`: two resolves and the writes between them are enough for a write to be
  seen where it must not be.
* `TestCmd`: configs of up to 4 rules (one of them about a tool it does not support), up to 3 `--rule`, 7 values of `--tool`, 7
  texts of up to two calls.
* `ToolCall`: every tool the tables name and three they do not, edits of 0 to 3
  files, every pair of the path keys with a string, an empty string, a list, null
  or another value.

`CHECK_DEADLOCK FALSE` everywhere: a call that has returned and a process that has
exited stop, and the environments of `MatchSteps` and `CommandLine` stop at their
bound.

### Fairness

Weak fairness of the process's own next step, and of nothing else. It is one
goroutine that takes no lock, waits for no channel and, once stdin has been read,
for no one else (in `Inspect`, of the parsing; in `ValidateRun`, of both processes).
A panic (`Panic`) and the changes of files (`ChangeFile`) are
never assumed to happen. Reading stdin is assumed to end.

### Findings

1. *The two scans partition a bundle differently.* `flagnorm.go:150-167` looks for
   the letter of a bundle that takes a value, `recurse.go:263` only looks at the
   whole name, so that the value of `-xc value` is a positional to the search for
   the inner command and not to the rules. `recurse.go:13-14` promises a correct
   partition. In `docker -xc rm`, the line of the run `command_line_bundles`, rules see
   no positional; the search takes `rm` for the verb and finds an inner command after
   it, past the end.
2. *Quotes are lost when a wrapper's words are joined.* `recurse.go:85` joins the
   literals of the inner words with blanks and parses the result again, so that
   `docker exec ct bash -c '...'` is read with the first word of the text as the
   command of `bash -c`. `README.md:603-618` shows wrappers in one another as
   looked into. Run `inspect_quotes`.
3. *A `run_command` of an unexpected shape is evaluated as an empty command.*
   `antigravity.go:137` passes it on "and let downstream parser surface it"; the
   Bash parser finds no key `command`, which is no error. Run `tool_call_malformed`.
4. *A rule about a tool that `wardhook test` does not support is tried as Bash.*
   `README.md:124` says that the tool of a rule named alone is used, `test_cmd.go:45`
   that unknown tools are rejected; `test_cmd.go:60` falls back to Bash, and the rule
   is silently missing from the report. Run `test_cmd_tool`.

Met while modelling, and kept in the models as the code has it, without a run:

* A flag that only an `except` asks a value of is not known to take one:
  `ResolvedValueTakingFlags` (`load.go:48`) looks at `match` alone, so that the
  exception applies to `--namespace=dev` and not to `--namespace dev`.
  `load.go:36` and `README.md:573` speak of all rules. `ValuesAreSeen` is
  therefore about `match`.
* An ambiguous alias list makes a rule answer differently from one evaluation to the
  next: `match.go:178` ranges over a map; if two canonical names list the same
  alternative, which one the reverse table keeps is up to the run time, while
  `trace.go:46` says `EvaluateTrace` matches `Evaluate`. `rule_eval` includes such a
  rule: the abstract verdict says where a rule *may* match and where it *must*.
  Without such a list the two are the same set, and by the theorem `OutcomesDecide`,
  which holds of both functions, they give the same answer with the same reason.
* Aliases are looked up once. If `flag_aliases` makes `namespace` an alternative of `n`
  and `n` one of `c`, the names `n` and `namespace` end as `c` and `n`
  (`match.go:176-191`): two entries of `flag_values` about them are accepted although
  the file calls them one flag, and a rule about `n` misses a flag written `-n`. No
  comment promises more, so the precondition of `LoadsUnlessBroken` (`Plain`) leaves
  such lists out, as it does ambiguous ones; `rule_load` has a file with each.
* A recurse flag within a bundle, as in `bash -lc x`, is captured with its value by
  `flagnorm.go:150-167` but not found by `lookupFlag` (`recurse.go:106`), so that the
  text `x` is neither inspected nor marked as not inspected. `README.md:608` promises
  only `-c <value>`; `CapturedIsInspected` leaves such lines out (`WrittenAlone`), as it
  does those in which a flag was taken for a value (`NoFlagTaken`).

## 5. What is proved

### The evaluation

`RuleProofs`, for every set of rules and commands, every matcher outcome and
every length of the lists, from the three assumptions of `RuleEval` (actions are
decisions, which `load.go:84` checks; the mark is Boolean; the bounds are natural
numbers) and no others:

* `TypeCorrect`: `Spec => []TypeOK`.
* `AnswerIsStrictest`: `Spec => []VerdictIsStrictest`.
* `EvaluationFailsClosed`: a returned answer is at least as strict as every rule
  that had to match, and at least `ask` when an inspection failed. `allow` means
  that nothing was found against the commands.
* `EvaluateImplementsVerdict`: `Spec => V!Spec`, the refinement.

`VerdictIsStrictest` speaks of the moment of return only and is not inductive. The
invariant that is, `IInv`, says in addition what the accumulators hold on the way:
`FiredOK` (what is recorded did match, behind the loops' position),
`NothingMissed` (nothing behind it that had to match is unrecorded), `InnerOK`
(the inner accumulator is the verdict on the places of the current command),
`OuterOK` (the outer one is the verdict on the commands behind) and `ReturnedOK`.
The proof turns on `VerdictsCombine`: verdicts on two sets of places, one wholly
before the other, combine into the verdict on their union if the accumulator
changes only for something strictly stronger. That is where `>` instead of `>=`
matters. Each action has its lemma (`PassedOver` for two of them, `Matched`,
`CommandEnded`, `Returning`). The refinement maps `Return` to `Answer` and every
other action to a stutter.

### The hook process

`ValidateRunProofs`, first part, for any number of candidates, any configs, events, panics and
any number of changes to the files:

* `AnswersOnce`: `Spec => []OneAnswer`. It needs no assumption. `OneAnswer` allows
  one decision at any time and so is not inductive; `AnswersInv` adds that nothing
  is written and no write has failed before the exit (`SilentBeforeExit`), which
  makes the two writing steps, `Write` and `Recover`, exclude each other.
* `TypeCorrect`: `Spec => []TypeOK`, and `AllowHasCause`: `Spec => []AllowIsExplained`,
  from the assumptions of `HookRun`: the numbers are natural, a config has a verdict
  on every target, no config has the name of a state of a file that is none, and an
  event is about known targets, at least one if it is a single one. `AllowIsExplained`
  speaks of what is on stdout; the inductive invariant `CauseInv` says how the cause
  comes about: the history of a path contains its state (`PastOK`), what the scan has
  passed was no file when it looked (`SearchOK`), an answer that still allows within
  the loop means that every invocation so far is allowed (`LoopOK`), and once the
  answer is decided an allow has its cause, which no later step can undo because
  histories only grow (`AnswerOK`). One lemma per action; `Replying` and
  `WritingCause` are what the steps to an answer and to the exit have in common.
  `AllowedIsStrictest` relates the invariant to the choice of the strictest
  invocation in the property.

### The evaluation, further

* `TraceIsComplete`: `Spec => []TraceExplainsVerdict`. The inductive `TInv` adds
  `TraceOK` to `IInv`: the trace has an entry for each command behind the outer loop,
  the sink one for each applicable rule behind the inner one, in order, and what is
  recorded as matched there is what `fired` holds.
* `OutcomesDecide`: the verdict on a set of places is unique (`AnswerIsDetermined`),
  which is what "matches Evaluate" (`trace.go:43-46`) comes down to: both functions
  are runs of `RuleEval`, so with the same matches they have the same answer.
* `ExceptionsNeedArguments`: `Spec => []NoVacuousException`, by what `evalGlobMatch`
  and `matchPathAnchored` say of no arguments.

### The processes, further

* `HookFollowsItsConfig`: `Spec => []AnswersItsConfig`. `FaithInv` is `CauseInv`,
  `SoFarOK` (the accumulator of the loop is the strictest of the invocations behind it,
  with the first of them as reason) and what is true *as long as no file has changed*
  (`changes = 0`): the candidates that were passed are no files, the path found is the
  one `Located` names, and what was loaded is what is there (`FoundOK`), so that the
  reply, once decided, is the right one (`ReplyOK`).
* The second part of `ValidateRunProofs`: `ExitCodeForetells` (`[]ValidateForetells`) and `OkHasCause`
  (`[]OkIsExplained`), of `ValidateSpec`. `ValidateInv` says that the hook does not
  move before validate's exit (`Waiting`), what validate's scan has passed (`ScanOK`,
  by the history of each path) and, while nothing has changed, that it is what is
  there (`ScanTrue`). The hook's half is `FaithInv`, reused as it stands.

### The matcher

`RuleProofs`, second part, of `EditSpec`, for every spec, command and vocabulary, from `PathsAssumption`
(a verb path is a sequence):

* `SpellingNeverMatters`: `EditSpec => SpellingIsIrrelevant`. The reverse table is one
  function when no alternative is listed twice, the canonical name of all spellings
  is the same, so the canonical flags and the merged values of the two commands are
  equal, and `matchSpec` looks at nothing else.
* `GrowthNeverEscapes`: `EditSpec => GrowthKeepsMatch`, clause by clause: each clause
  that asks for presence is monotone in the flags, values and arguments.

Both are action properties of the environment's steps; the invariant they need
(`CmdOK`) is only that the spec is one of `MatchSpecs` and that the command is a record
with a sequence of words for its arguments.

### The scans of a command line

`CommandLineProofs`, for every lexicon, every wrapper and lines of any length, from
`LexiconAssumption` (a word reads in one of four ways, its letters are a list) and
`WrappersAssumption` (the wrapper has a plain name, its flags are a list, it skips no
negative number of positionals, which `types.go:74` checks).

* `ScansAgree`: `Spec => []PartitionsAgree`, and `TooEarlyIsSeen`:
  `Spec => []TooEarlyIsMarked`. Both have a hypothesis, `BundlesEndPlainly`: no word is a
  bundle whose last letter is the first that takes a value. Such a word makes both
  properties false: that is finding 1, and the configuration of its run is one in
  which the hypothesis does not hold. In that of `command_line` it does.
* `CapturedAreInspected`: `Spec => []CapturedIsInspected`. The property itself has two
  conditions: no flag was taken for a value (`NoFlagTaken`), and every recurse flag is
  written alone and not within a bundle (`WrittenAlone`, see the end of section 4). Of
  other flags in bundles it holds too.
* `GrowthIsMonotone`: `Spec => GrowthOnlyAdds`, an action property, of bundles too.

The invariant, `LineInv`, only says that the words are a line of the wrapper; what the
theorems are about is what the loops compute, at every position. `NormalizeUnfolds`,
`StartUnfolds` and `ScanUnfolds` give each loop its equation, position by position
(`RecursionIsSound`). `SameStep` says that one word takes both scans equally far,
`SkipsAlike` and `VerbsAlike` that they then agree on the start of the inner command
and on the verb, from any word to the end (`FromTheEnd`); `BothScans` puts this
together. `Failure` says when a reading fails, `FirstIsFound` and `LookedUp` that the
search for a recurse flag stops where its first value was captured. For growth,
`ReadAgain` reads a word of the longer line as before, or finds the value that was
missing; `ReadingsGrow`, `StartsStay`, `ScansStay` and `LookupStays` carry this over
the loops.

### The Bash parser

`InspectProofs`, first part, for every lexicon, every CLI spec and rule flags, every
depth limit and any nesting, from `ShapeAssumption` and `ParsersAssumption` (the tables
cover the words; a spec has at most one recurse block, whose flags are a list and
whose verbs skip a natural number of positionals, which `types.go:74` checks).

* `WalkIsNested`: `Spec => []NestedInOrder`. `NestInv` is about the Go call stack
  (`LevelOK`): the wrapper of each level is a command already emitted, one level up,
  the wrappers of the outer levels come before it, and everything emitted after it is
  within it.
* `MarksAreKept`: `Spec => MarksStay`, an action property.
* `MarkedMeansUnseen`: `Spec => []MarkedWhenUnseen`. `MarkInv` splits the targets of a
  wrapper into those that are done and those that wait on the level that works for it
  (`TargetsOK`), so that a mark at any moment is the failures among the first
  (`MarkOK`); when the last is done, that is the property.

### From a line to its answer

`InspectProofs`, second part, of `InspectSpec`, from the assumptions above,
`LinesAssumption` (a line is a list of calls) and `ConfigsAssumption` (rules are a list,
their actions decisions, an `except` is there at most once).

* `InspectionIsTyped`: `InspectSpec => []InspectTypeOK`, by which also nothing is listed
  from deeper than the parser's limit. The part that takes work is that
  everything that is looked into is again a text or a call of known words
  (`CallsTyped`, `SubstitutedTyped`, and `TargetsTyped`, for which every position the
  loops of `Recurse` return must be one behind their start).
* `AnswersAreDeserved`: `InspectSpec => []AnswerIsDeserved`: the answer is exactly the
  strictest of what the calls of the line deserve, at any depth that is looked into.

The second theorem has two hypotheses. `SubstitutionsNest`: what stands in a command
substitution nests less deep than the word it stands in, of whose text it is a part;
a lexicon without it would be of words that contain themselves. `UnambiguousRules`: no
flag alternative is listed under two names of a clause; with such a list the answer
depends on the order of a Go map, as said above, and is no function of the line. An
`ASSUME` of `MCInspect` has TLC check that the run's lexicon and rules satisfy both.

The property compares what an iterative walk and an evaluation make of a line with the
recursive definition `worst`. The argument:

* `WorstUnfolds` gives that definition its equation. Its recursion goes into targets,
  one level deeper, and into substitutions, at the same depth; `below` counts both, the
  depth left first, and each call has less below it (`BelowIs`), so that
  `RecursionIsSound` applies.
* `GraveIs` reads the equation as a disjunction: a call is at least `ask` (or `deny`) if
  its own command is, if it is marked, or if a call within it is.
* `OwesInv` is the invariant of the walk: at every moment the line is at least `k` exactly
  if a command of the list is or something still on the call stack is (`Owed`). `VisitOwes`,
  `ParseTargetOwes` and `UpOwes` are the steps: a call is replaced by its command, the calls
  of its substitutions and its targets; a target by its calls, or, if it cannot be parsed,
  by the mark that `MarkInv` knows to be there at the end.
* When the stack is empty only commands are left. `GroundsAre` says that the grounds the
  evaluation has are these (`Settled`: without ambiguous aliases a rule that may match
  must; `BlindToMarks`: a mark does not change what matches), and `EvaluateDeserves`
  that the strictest of the grounds is the rank the line deserves.

`HookInv` joins the invariants of the walk with the types of the answer.

### CLI specs

`CLISpecsProofs`, for every embedded table, every config, any number of calls and any
writes of callers, from `DepthsAssumption`, `SpecsAssumption` (depths and skips are
integers, lists are lists, a spec has at most one recurse block) and `LinesAssumption`
(lines are lists of words).

* `TypeCorrect`: `Spec => []TypeOK`, and `CopiesStayApart`: `Spec => CopiesAreIsolated`,
  by `MemInv`: every spec in use lies within the cells of its owners. A result lies
  within the cells its own call allocated, which is why `Merge` must clone the built-in
  specs *and* the declared ones that have no built-in counterpart.
* `ResolvesAreUnions`: `Spec => EveryResolveIsUnion`, by `ContentInv` in addition: in
  memory the built-in specs still read as they are embedded and the declared ones as
  the config has them, so that a later call starts from what the first one saw.
  `Deduplicated` and `MergedIsUnion` say what `dedupAppend` and `mergeSpec` compute.
  The first occurrence of a name in a list is found with the least-element principle
  (`Least`, from the well-foundedness of `<` on the naturals).
* `DeclaringKeepsTargets`: `Spec => DeclaringHidesNothing`, an action property. By
  `ResolvedAsDeclared` every call returns, by value, the declared specs merged into the
  embedded ones, so that two specs are to be compared on one line. Where they know
  alike of the line's flags which ones take a value (`Alike`, which holds when the
  declaration names no flag of the line), they find the same inner command
  (`StartsAlike`) and, after a verb that the built-in spec knows, the same target
  (`ScansAlike`), both from the end of the line. `MoreIsFound` puts flags, terminator and verbs together, `UnionFindsMore`
  ties it to the union.

### Loading

`RuleLoadProofs`, for every set of files, the first two theorems from `FilesAssumption`
and `PatternAssumption` alone: a decoded file
has the fields of `types.go`, its lists are lists, an `except` is there at most once,
and a pattern is one that cannot be read or one that accepts something.

* `LoadKeepsMeaning`: `Spec => []LoadedMeansFile`.
* `LoadFindsMistakes`: `Spec => []LoadsUnlessBroken`, in both directions.

`LoadInv` says of each rule in memory that it is the rule of the file, decoded and, as
far as the checks have come, compiled (`Holds`), and of each check that has passed that
the mistakes it looks for are not in the file (`Passed`); a load that has failed had a
mistake to find (`Blamed`). Under it lie the lemmas about each check: `PathsAsWritten`
and `UndecodableIsBroken` (the forms of a subcommands list), `MatcherChecked`,
`EntryChecked`, `OneFlag` (with plain aliases two names have one canonical name
exactly if they are spellings of one flag), `PathsChecked`, and `GlobAsWritten`,
`RegexAsWritten`, `SpecAsWritten` (what passes and is compiled accepts what was
written).

* `LoadSeesValues`: `FormsStandApart` implies `Spec => []ValuesAreSeen`. A rule that asks
  for the value of a flag answers alike to every spelling of the flag and every way to
  attach the value, whatever the other rules make the parser know.

`FormsAssumption` says what the ways are: `--name value`, `--name=value` and `-nvalue`,
with the reading that `Shape` gives the words, and that every flag a file may ask for
has its ways. `FormsStandApart` is the hypothesis the theorem needs beyond it: of
`-nvalue`, the whole word is not itself the name of a flag that takes a value, because
`flagnorm.go:135-147` looks at the whole name before the letters. The run evaluates
both. The proof has three parts. `TakingAreAsked` says what the parser knows: every
spelling of a flag that the rules for this command ask for, and nothing else.
`FormRead` says what it makes of a line, from `FlagWithValue` (one word, or two, are
read as one flag and its value) and the equation of the loop of `Normalize`
(`LoopIsEquation`, which exhibits a solution). `OneAnswer` says that the clause, which
reads flags through the one table there is (`OneTable`), cannot tell the spellings
apart.

### Tool calls

`ToolProofs`, for every set of calls and of events in no dialect, from
`CallsAssumption`: a call has as many arguments as its tool has fields, none of them
empty, an edit has any number of files, a tool the tables do not name has no name they
translate to, and only a JSON list has items.

* `NoAnswerUnasked`: `Spec => []AlwaysEvaluated`, by `ReadsSomething` (whatever a
  provider reads of an event is one invocation or more) and `CommandParsed` (a parser
  makes a command of every invocation that is no Bash line).
* `UnreadableIsNotEmpty`: `Spec => []UnreadableCommandAsks`, by `BashAsSent` (only
  Antigravity's provider rewrites the input of a Bash call) and `NothingParsed`.
* `AgentsShareRules`: `Spec => []RulesApplyUnchanged`: every spelling of a call that an
  agent may send (its own tool names, any of its keys, the other keys empty or absent,
  one event for several files) ends as the same invocations with the same arguments.

The invariant is in two parts. `ReadInv` says that what the rules have seen is what the
parsers made of the first invocations, in order; `CallInv` that the event is one its
agent writes for the call, and that the user is asked only about an event that cannot
be read. The rest is about pure operators: `Rewritten` (a provider finds the only text
there is under one of its keys), `PlainParsed` (the parser lifts all fields of a tool,
in order), and `LineAsMeant`, `FilesAsMeant`, `OthersAsMeant`, one per kind of call.

### `wardhook test`

`ToolProofs`, second part, of `TestSpec`, for every config, command line and text, from
`ConfigsAssumption` (the rules of a config are a list) and `CommandLinesAssumption`
(so are the names given with `--rule`).

* `TestSeesWhatTheHookSees`: `TestSpec => []ShowsWhatTheHookSees`: the commands are the
  hook's for the same text and tool. The verdict need not be, as `--rule` changes it.
* `TestShowsEveryRule`: `TestSpec => []EveryRuleIsShown`: no selected rule about the
  report's tool is missing, also of two rules with one name, which share a block. A
  rule named alone is about that tool (`OwnTool`) if `test` supports the tools of the
  rules of its name; otherwise it may be missing, which is finding 4.
* `TestExplainsItsVerdict`: `TestSpec => []FinalIsExplained`: the verdict that is printed
  follows from the lines that are printed, although what is printed is no longer the
  trace but its lines sorted under names.

Each property is about a report that is on the screen, made by `Report` from what four
earlier steps left behind. `TestInv` carries that: the names asked for are names of
rules, the tool is the one `resolveTool` picks, a supported one, the commands are those the hook would see for the
text, and the report is one of a possible outcome (`Reported`).

### Lists and loops

`CommonProofs`: that a list filtered by places has exactly the elements of these places
(`PlacesReached`, by counting), all of them (`AllPlaces`) or none (`NoPlaces`);
`RecursionIsSound`, that a function defined by recursion exists and satisfies its
equation if each call leaves less to do; `RecursionIsUnique`, that two such functions
agree if they agree wherever they agree on what is left; and `FromTheEnd`, induction from
the end of a list. With them what `CHOOSE` stands for can be used in a proof; the
induction is over a number, and the definition or the set of good positions is handed
over as a function or a set, so that no operator is instantiated. The second half is
about the loops of `Recurse`: each has its equation (`StartUnfolds`, `ScanUnfolds`), and
`Targets` and `TextsCounted` say which texts they find, and `TextsAreTargets` that the
targets are exactly these, without the empty ones.

### Only model-checked

* The three `Terminates`: liveness under fairness is out of the prover's reach.
* `UnmarkedIsComplete`: it compares the list with the calls a line runs (`Runs`), which
  recurs over texts within texts without a depth limit. A proof needs, for the targets
  too, an order in which what is parsed is smaller than the text it stands in; the
  hypotheses of `AnswersAreDeserved` give one for substitutions only, where the depth
  limit does the rest. That theorem says for verdicts what this property says for
  lists: nothing of a line is lost.
* `WrappersHideNothing`: `Means` is what the author of a line had in mind, a constant of
  the run that no assumption ties to the words.

## 6. What is not modelled, and what is abstracted

* Shell grammar, quoting and printing belong to mvdan.cc/sh. A word's text is
  identified with its literal. Calls with assignments only are left out.
* The walk visits a call's words after the call, and a target after its wrapper;
  other kinds of syntax nodes only contain calls and are not told apart.
* YAML decoding, JSON decoding, logging, the wording of reasons and the layout of
  the report of `wardhook test`.
* A config is read at the instant it is opened: a file overwritten in place while
  it is read is not modelled.
* A panic inside `WriteDecision` after its bytes were written; the encoders write
  once, at their end.
* What providers write around a decision (`WriteDecision`: the key it stands under);
  every provider passes the decision on unchanged.
* Only the type of a JSON value and the keys of an input are modelled, not invalid
  JSON inside it, which a decoder has refused before.
* In `Inspect` and `TestCmd` an evaluation is one step of `Verdict`, which `RuleEval`
  is proved to implement. In `TestCmd` the calls of a text are given; how they are
  found is `BashParse`'s matter.
* Rules are looked at as loaded: a file that is overwritten between the reads of two
  processes is a change of the file in `HookRun` and `ValidateRun` only.
* The environment variable for debug output, and `main.go`, which only exits with
  the code that `run` returns.
