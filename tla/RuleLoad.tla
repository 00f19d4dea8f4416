-------------------------------- MODULE RuleLoad -------------------------------
(* internal/rule/load.go and types.go: a wardhook.yaml becomes a Config, or an  *)
(* error.  One step is one of the checks of validate, in the order of the code; *)
(* the first one that fails ends the load.                                      *)
(*                                                                              *)
(* A file is [decodes, version, maxDepth, cliSpecsOk, rules]: decodes is what   *)
(* the YAML decoder says of keys and types, cliSpecsOk what CLISpec.Validate    *)
(* says of defaults.cli_specs (module CLISpecs).  A rule of the file has the    *)
(* fields of types.go; except is the set of its zero or one except clauses, and *)
(* subcommandsAny and subcommandsAll are YAML nodes [kind, value, content],     *)
(* kind "absent" for a missing or null key.  A matcher is [mode, patterns,      *)
(* compiled], mode "nil" for an absent one.  The Config in memory has verb      *)
(* paths in the place of the nodes.                                             *)
EXTENDS RuleMatch, FlagNorm

CONSTANTS Files,       \* the files a load may find
          Dashed,      \* the flag names that begin with "-"
          BadGlobs,    \* the patterns doublestar cannot read
          BadRegexes,  \* the patterns regexp.Compile cannot read
          Accepts,     \* pattern that can be read -> the inputs it matches
          Forms        \* flag -> value -> the ways to write them: sequences of words

ASSUME PatternAssumption == BadGlobs \cap BadRegexes \cap DOMAIN Accepts = {}

\* What a file is once its keys and types are read; what they say may be anything.
IsList(s) == s \in Seq(Elems(s))

IsMatcher(m, bad) ==
  /\ DOMAIN m = {"mode", "patterns", "compiled"}
  /\ IsList(m.patterns) /\ Elems(m.patterns) \subseteq bad \cup DOMAIN Accepts
  /\ m.mode = "nil" => m.patterns = << >>

Absent == [kind |-> "absent", value |-> "", content |-> << >>]

IsNode(n) ==
  /\ n.kind = "absent" => n = Absent
  /\ IsList(n.content) /\ \A i \in DOMAIN n.content : IsList(n.content[i].content)

ClauseFields == {"command", "flagsAll", "flagsAny", "flagAliases", "flagValues",
                 "subcommandsAny", "subcommandsAll", "glob", "regex"}

IsClause(c) ==
  /\ DOMAIN c = ClauseFields
  /\ IsNode(c.subcommandsAny) /\ IsNode(c.subcommandsAll)
  /\ IsMatcher(c.glob, BadGlobs) /\ IsMatcher(c.regex, BadRegexes)
  /\ IsList(c.flagValues)
  /\ \A e \in Elems(c.flagValues) :
       /\ DOMAIN e = {"name", "glob", "regex"}
       /\ IsMatcher(e.glob, BadGlobs) /\ IsMatcher(e.regex, BadRegexes)

IsRule(r) ==
  /\ DOMAIN r = {"name", "tool", "action", "match", "except"}
  /\ \A c \in {r.match} \cup r.except : IsClause(c)
  /\ \A c, d \in r.except : c = d

ASSUME FilesAssumption ==
  \A f \in Files :
    /\ f.decodes \in BOOLEAN /\ f.cliSpecsOk \in BOOLEAN /\ f.maxDepth \in Int
    /\ IsList(f.rules) /\ \A i \in DOMAIN f.rules : IsRule(f.rules[i])

\* A way to write a flag and its value, as Shape reads the words (README.md:547-556):
\* the value is the next word, or follows "=", or follows the letter of the flag.
IsForm(form, flag, value) ==
  LET w == Shape[form[1]]
  IN  /\ w.kind \in {"long", "short"}
      /\ \/ form = <<form[1], value>> /\ w.name = flag /\ ~w.eq
            /\ Shape[value].kind \in {"plain", "terminator", "long", "short"}
         \/ form = <<form[1]>> /\ w.name = flag /\ w.eq /\ w.value = value
         \/ form = <<form[1]>> /\ w.kind = "short" /\ ~w.eq /\ w.name # flag /\ IsList(w.letters)
            /\ Len(w.letters) > 1 /\ w.letters[1] = flag /\ w.rests[1] = value

\* The flags whose values a rule asks for can be written, all with the same values.
ASSUME FormsAssumption ==
  /\ Shape["apply"].kind = "plain"
  /\ \A f, g \in DOMAIN Forms : DOMAIN Forms[f] = DOMAIN Forms[g]
  /\ \A f \in DOMAIN Forms : \A v \in DOMAIN Forms[f] : \A form \in Forms[f][v] : IsForm(form, f, v)
  /\ \A f \in Files : \A i \in DOMAIN f.rules :
       LET c == f.rules[i].match
       IN  \A e \in Elems(c.flagValues) :
             e.name \in Dashed \cup {""} \/ spellings(e.name, c.flagAliases) \subseteq DOMAIN Forms

VARIABLES file,
          config,      \* *cfg
          step,        \* the next check ("decode", "header", "fields", "match", "except"
                       \* or "subcommands"), or how Load returned: "loaded" or "error"
          ri           \* index of the loop over cfg.Rules

vars == <<file, config, step, ri>>

--------------------------------------------------------------------------------
(* Decoding *)

EmptyList == [Absent EXCEPT !.kind = "sequence"]

\* A flat list of verbs, or a list of such lists; never a mixture.
UnmarshalYAML(node) ==
  LET items == node.content
      all(kind) == \A i \in DOMAIN items : items[i].kind = kind
      values(n) == [i \in DOMAIN n.content |-> n.content[i].value]
  IN  IF node \in {Absent, EmptyList} THEN [ok |-> TRUE, paths |-> << >>]
      ELSE IF node.kind = "sequence" /\ all("scalar")
        THEN [ok |-> TRUE, paths |-> [i \in DOMAIN items |-> <<items[i].value>>]]
      ELSE IF /\ node.kind = "sequence" /\ all("sequence")
              /\ \A i \in DOMAIN items : \A v \in Elems(items[i].content) : v.kind = "scalar"
        THEN [ok |-> TRUE, paths |-> [i \in DOMAIN items |-> values(items[i])]]
      ELSE [ok |-> FALSE, paths |-> << >>]

Nodes(rule) ==
  UNION {{c.subcommandsAny, c.subcommandsAll} : c \in {rule.match} \cup rule.except}

decodeClause(c) ==
  [c EXCEPT !.subcommandsAny = UnmarshalYAML(@).paths, !.subcommandsAll = UnmarshalYAML(@).paths]

decodeRule(r) == [r EXCEPT !.match = decodeClause(@), !.except = {decodeClause(c) : c \in @}]

--------------------------------------------------------------------------------
(* The checks: each says whether it passes. *)

validMatcher(m, bad) ==
  m.mode = "nil" \/ (m.mode \in {"any", "all"} /\ m.patterns # << >> /\ Elems(m.patterns) \cap bad = {})

validateFlagValueEntry(e) ==
  /\ e.name # "" /\ e.name \notin Dashed
  /\ ~(e.glob.mode = "nil" /\ e.regex.mode = "nil")
  /\ validMatcher(e.glob, BadGlobs) /\ validMatcher(e.regex, BadRegexes)

\* Two entries for one flag, under the names that rev gives them.
Duplicates(entries, rev) ==
  \E i, j \in DOMAIN entries :
    i # j /\ canonicalName(entries[i].name, rev) = canonicalName(entries[j].name, rev)

\* The results validateMatchSpec may return: the reverse table is any of those that
\* ranging over flag_aliases builds.
validateMatchSpec(c) ==
  {/\ validMatcher(c.glob, BadGlobs) /\ validMatcher(c.regex, BadRegexes)
   /\ \A i \in DOMAIN c.flagValues : validateFlagValueEntry(c.flagValues[i])
   /\ ~Duplicates(c.flagValues, rev) : rev \in buildReverseAliases(c.flagAliases)}

hasSubcommand(rule) ==
  \E c \in {rule.match} \cup rule.except : c.subcommandsAny # << >> \/ c.subcommandsAll # << >>

checkPaths(paths) == \A p \in Elems(paths) : p # << >> /\ "" \notin Elems(p)

\* Only the clause of the match is looked at.
MutExceptPathsUnchecked(rule) ==
  /\ hasSubcommand(rule) => rule.tool = "Bash"
  /\ checkPaths(rule.match.subcommandsAny) /\ checkPaths(rule.match.subcommandsAll)

\* validateSubcommandsTool and validateSubcommandPaths.
validateSubcommands(rule) ==
  /\ hasSubcommand(rule) => rule.tool = "Bash"
  /\ \A c \in {rule.match} \cup rule.except :
       checkPaths(c.subcommandsAny) /\ checkPaths(c.subcommandsAll)

Compiled(m) == [m EXCEPT !.compiled = m.mode # "nil"]

\* The entries of flag_values are ranged over as copies: compiled there, the regexes
\* of the config would stay as they were.
MutCompileCopies(c) == [c EXCEPT !.regex = Compiled(@)]

compileEntry(e) == [e EXCEPT !.regex = Compiled(@)]

\* RegexMatch.Validate fills the regex that all copies of its clause point to.
compileClause(c) ==
  [c EXCEPT !.regex = Compiled(@), !.flagValues = [i \in DOMAIN @ |-> compileEntry(@[i])]]

--------------------------------------------------------------------------------
Init ==
  /\ file \in Files
  /\ config = << >> /\ step = "decode" /\ ri = 1

\* Load goes on with the next check when this one passes.
Check(here, passes, next) ==
  /\ step = here
  /\ \E ok \in passes : step' = IF ok THEN next ELSE "error"

Decode ==
  /\ Check("decode",
           {/\ file.decodes
            /\ \A i \in DOMAIN file.rules : \A n \in Nodes(file.rules[i]) : UnmarshalYAML(n).ok},
           "header")
  /\ config' = [i \in DOMAIN file.rules |-> decodeRule(file.rules[i])]
  /\ UNCHANGED <<file, ri>>

\* The loop over the rules, or its end.
AtRule(i) == IF i > Len(config) THEN "loaded" ELSE "fields"

\* version and validateDefaults
CheckHeader ==
  /\ Check("header", {file.version = 1 /\ file.maxDepth >= 0 /\ file.cliSpecsOk}, AtRule(1))
  /\ UNCHANGED <<file, config, ri>>

CheckFields ==
  /\ Check("fields",
           {config[ri].name # "" /\ config[ri].tool # "" /\ config[ri].action \in {"allow", "deny", "ask"}},
           "match")
  /\ UNCHANGED <<file, config, ri>>

CheckMatch ==
  /\ Check("match", validateMatchSpec(config[ri].match), "except")
  /\ config' = [config EXCEPT ![ri].match = compileClause(@)]
  /\ UNCHANGED <<file, ri>>

exceptResultsOf(rule) ==
  IF rule.except = {} THEN {TRUE} ELSE UNION {validateMatchSpec(c) : c \in rule.except}

CheckExcept ==
  /\ Check("except", exceptResultsOf(config[ri]), "subcommands")
  /\ config' = [config EXCEPT ![ri].except = {compileClause(c) : c \in @}]
  /\ UNCHANGED <<file, ri>>

CheckSubcommands ==
  /\ Check("subcommands", {validateSubcommands(config[ri])}, AtRule(ri + 1))
  /\ ri' = ri + 1
  /\ UNCHANGED <<file, config>>

Next == Decode \/ CheckHeader \/ CheckFields \/ CheckMatch \/ CheckExcept \/ CheckSubcommands

Spec == Init /\ [][Next]_vars

--------------------------------------------------------------------------------
(* What matchSpec makes of a clause in memory. *)

\* A pattern that cannot be read matches nothing, nor does a regex that was never
\* compiled (match.go:217, 250).
globOf(m) == [mode |-> m.mode, accepts |-> UNION {Accepts[p] : p \in Elems(m.patterns) \cap DOMAIN Accepts}]
regexOf(m) ==
  IF m.mode = "nil" THEN [mode |-> "nil", accepts |-> {}]
  ELSE [mode |-> IF m.compiled THEN m.mode ELSE "any",
        accepts |-> IF m.compiled THEN globOf(m).accepts ELSE {}]

specOf(c) ==
  [command |-> c.command, flagsAll |-> c.flagsAll, flagsAny |-> c.flagsAny,
   flagAliases |-> c.flagAliases,
   subcommandsAll |-> Elems(c.subcommandsAll), subcommandsAny |-> Elems(c.subcommandsAny),
   glob |-> globOf(c.glob), regex |-> regexOf(c.regex),
   flagValues |-> {[name |-> e.name, glob |-> globOf(e.glob), regex |-> regexOf(e.regex)] :
                     e \in Elems(c.flagValues)}]

rulesOf(rules) == [i \in DOMAIN rules |-> [match |-> specOf(rules[i].match)]]

--------------------------------------------------------------------------------
(* Properties *)

Clauses(rule) == {rule.match} \cup rule.except

\* What the clause means, read off the file: [pr, create] asks for one of two verbs,
\* [[pr, create]] for the two in a row (types.go:53-75), and every pattern counts.
PathsWritten(node) ==
  {IF n.kind = "scalar" THEN <<n.value>> ELSE [i \in DOMAIN n.content |-> n.content[i].value] :
     n \in Elems(node.content)}

MatcherWritten(m) ==
  [mode |-> m.mode, accepts |-> UNION {Accepts[p] : p \in Elems(m.patterns)}]

Written(c) ==
  [command |-> c.command, flagsAll |-> c.flagsAll, flagsAny |-> c.flagsAny,
   flagAliases |-> c.flagAliases,
   subcommandsAll |-> PathsWritten(c.subcommandsAll), subcommandsAny |-> PathsWritten(c.subcommandsAny),
   glob |-> MatcherWritten(c.glob), regex |-> MatcherWritten(c.regex),
   flagValues |-> {[name |-> e.name, glob |-> MatcherWritten(e.glob), regex |-> MatcherWritten(e.regex)] :
                     e \in Elems(c.flagValues)}]

\* A config that loads says what the file says: every clause, of a match as of an
\* except, tests its patterns and its verb paths as they were written, and none of the
\* branches of match.go that are "defensive" (match.go:205-207, 244-252) is ever taken.
LoadedMeansFile ==
  step = "loaded" =>
    \A i \in DOMAIN file.rules :
      /\ specOf(config[i].match) = Written(file.rules[i].match)
      /\ {specOf(c) : c \in config[i].except} = {Written(c) : c \in file.rules[i].except}

\* The mistakes a file can have (README.md:232-262, load.go, types.go:178-199).
BrokenMatcher(m, bad) ==
  /\ m.mode # "nil"
  /\ m.mode \notin {"any", "all"} \/ m.patterns = << >> \/ \E p \in Elems(m.patterns) : p \in bad

BrokenPaths(node) ==
  \/ node.kind \notin {"absent", "sequence"}
  \/ \E n \in Elems(node.content) :
       \/ n.kind \notin {"scalar", "sequence"}
       \/ n.kind # node.content[1].kind
       \/ n.kind = "sequence" /\ (n.content = << >> \/ \E v \in Elems(n.content) : v.kind # "scalar")
  \/ "" \in UNION {Elems(p) : p \in PathsWritten(node)}

BrokenEntry(e) ==
  \/ e.name \in Dashed \cup {""} \/ {e.glob.mode, e.regex.mode} = {"nil"}
  \/ BrokenMatcher(e.glob, BadGlobs) \/ BrokenMatcher(e.regex, BadRegexes)

BrokenClause(c, tool) ==
  \/ BrokenMatcher(c.glob, BadGlobs) \/ BrokenMatcher(c.regex, BadRegexes)
  \/ \E e \in Elems(c.flagValues) : BrokenEntry(e)
  \/ BrokenPaths(c.subcommandsAny) \/ BrokenPaths(c.subcommandsAll)
  \/ tool # "Bash" /\ Elems(c.subcommandsAny.content) \cup Elems(c.subcommandsAll.content) # {}

\* The names that mean the same flag as this one.
Unambiguous(aliases) ==
  \A c, d \in DOMAIN aliases : c # d => aliases[c] \cap aliases[d] = {}
Plain(aliases) ==
  Unambiguous(aliases) /\ \A c, d \in DOMAIN aliases : c # d => d \notin aliases[c]
SameFlag(a, b, aliases) ==
  a = b \/ \E c \in DOMAIN aliases : {a, b} \subseteq spellings(c, aliases)
AskedTwice(c) ==
  \E i, j \in DOMAIN c.flagValues :
    i # j /\ SameFlag(c.flagValues[i].name, c.flagValues[j].name, c.flagAliases)

Broken(f) ==
  \/ ~f.decodes \/ f.version # 1 \/ f.maxDepth < 0 \/ ~f.cliSpecsOk
  \/ \E r \in Elems(f.rules) :
       \/ "" \in {r.name, r.tool} \/ r.action \notin {"allow", "deny", "ask"}
       \/ \E c \in Clauses(r) : BrokenClause(c, r.tool) \/ AskedTwice(c)

\* A file loads unless something in it is wrong, wherever that is; an alternative that
\* two flags list may make either of them the flag, and the alternatives of one that is
\* itself an alternative are not its spellings, so such files are left out.
LoadsUnlessBroken ==
  (\A r \in Elems(file.rules) : \A c \in Clauses(r) : Plain(c.flagAliases)) =>
    /\ step = "loaded" => ~Broken(file)
    /\ step = "error" => Broken(file)

\* Every way to write a flag and its value before a positional, as the parser that
\* pickParser builds from the loaded rules reads it.
TakingOf(name) ==
  LET table == ResolvedValueTakingFlags(rulesOf(config))
      of(c) == IF c \in DOMAIN table THEN table[c] ELSE {}
  IN  of(name) \cup of("")

WaysToWrite(names, name, value) ==
  {CommandOf(<<name>> \o form \o <<"apply">>, TakingOf(name), FALSE) :
     form \in UNION {Forms[f][value] : f \in names}}

SeesValues(c, command) ==
  \A e \in Elems(c.flagValues) :
    Unambiguous(c.flagAliases) /\ (\A d \in DOMAIN c.flagAliases : e.name \notin c.flagAliases[d]) =>
      \A name \in IF command = "" THEN {"git", "kubectl"} ELSE {command} :
        \A value \in DOMAIN Forms[e.name] :
          LET cmds == WaysToWrite(spellings(e.name, c.flagAliases), name, value)
          IN  \E matches \in BOOLEAN :
                \A cmd \in cmds : cmd.args = <<"apply">> /\ matchSpec(specOf(c), cmd) = {matches}

\* A rule about the value of a flag gives one answer however the flag and the value
\* are written, and the value is not taken for a positional (README.md:543-560): the
\* names its match asks for, and their alternatives, are known to take values.  Those
\* that only an except clause asks for are not (load.go:49).
ValuesAreSeen ==
  step = "loaded" => \A r \in Elems(config) : SeesValues(r.match, r.match.command)

--------------------------------------------------------------------------------
\* No flag that a rule asks a value of is written like another one with its value
\* attached: if -nprod is a flag, it is not the flag -n with the value prod
\* (flagnorm.go:135-147 looks at the whole name first).
FormsStandApart ==
  \A f \in DOMAIN Forms : \A v \in DOMAIN Forms[f] : \A form \in Forms[f][v] :
    LET w == Shape[form[1]]
    IN  w.name # f => w.name \notin DOMAIN Forms
================================================================================
