------------------------------- MODULE RuleMatch -------------------------------
(* internal/rule/match.go: does one parsed command satisfy one MatchSpec?       *)
(*                                                                              *)
(* Data.  A command is a record                                                 *)
(*   [name, flags: set, flagValues: flag -> set of values, args: sequence,      *)
(*    inspectionFailed: BOOLEAN]                                                *)
(* and a MatchSpec a record                                                     *)
(*   [command, flagsAll, flagsAny: sets, flagAliases: canonical -> set of       *)
(*    alternatives, subcommandsAll, subcommandsAny: sets of verb paths,         *)
(*    glob, regex: matchers, flagValues: set of [name, glob, regex]].           *)
(* A matcher is [mode, accepts]: a list of patterns is the set of inputs that   *)
(* at least one of them matches, mode "nil" is an absent clause.  Captured      *)
(* values and flag lists are sets: no test below looks at their order.          *)
(*                                                                              *)
(* Go ranges over a map in an unspecified order, so when two canonical names    *)
(* list the same alternative the reverse table keeps either of them, and each   *)
(* call may keep another one.  The operators therefore give the SET of the      *)
(* results a call may return.                                                   *)
EXTENDS Integers, Sequences

Elems(s) == {s[i] : i \in DOMAIN s}

\* match.go:176-184.  Every reverse table buildReverseAliases may return.
buildReverseAliases(aliases) ==
  LET alts == UNION {aliases[c] : c \in DOMAIN aliases}
  IN  {rev \in [alts -> DOMAIN aliases] : \A a \in alts : a \in aliases[rev[a]]}

canonicalName(name, rev) == IF name \in DOMAIN rev THEN rev[name] ELSE name

\* A table consulted on flags only, so that values keep the spelling used.
MutValuesAsSpelled(values, rev) == values

canonicalizeFlags(flags, rev) == {canonicalName(f, rev) : f \in flags}

\* The values captured under every spelling of one flag are merged.
canonicalizeFlagValues(values, rev) ==
  [c \in canonicalizeFlags(DOMAIN values, rev) |->
     UNION {values[k] : k \in {k \in DOMAIN values : canonicalName(k, rev) = c}}]

matchFlagsAll(want, canonical) == want \subseteq canonical

matchFlagsAny(want, canonical) == want = {} \/ want \cap canonical # {}

\* A path compared from the end of the arguments instead of anchored at Args[0].
MutPathAtEnd(path, args) ==
  /\ path # << >>
  /\ Len(args) >= Len(path)
  /\ \A i \in DOMAIN path : args[Len(args) - Len(path) + i] = path[i]

\* Args[0:len(path)] equals path; an empty or a too long path never matches.
matchPathAnchored(path, args) ==
  /\ path # << >>
  /\ Len(args) >= Len(path)
  /\ \A i \in DOMAIN path : args[i] = path[i]

matchSubcommandsAny(paths, args) ==
  paths = {} \/ \E p \in paths : matchPathAnchored(p, args)

matchSubcommandsAll(paths, args) ==
  \A p \in paths : matchPathAnchored(p, args)

\* mode all adopting vacuous truth.
MutVacuousAll(g, inputs) ==
  \/ g.mode = "nil"
  \/ g.mode = "any" /\ inputs \cap g.accepts # {}
  \/ g.mode = "all" /\ inputs \subseteq g.accepts

\* An absent clause passes; mode all is not satisfied by an empty input.
evalGlobMatch(g, inputs) ==
  \/ g.mode = "nil"
  \/ g.mode = "any" /\ inputs \cap g.accepts # {}
  \/ g.mode = "all" /\ inputs # {} /\ inputs \subseteq g.accepts

\* The same quantifiers over RE2 patterns.  Load has compiled every pattern.
matchRegex(r, inputs) == evalGlobMatch(r, inputs)

matchFlagValues(entries, cmd, rev) ==
  LET values == canonicalizeFlagValues(cmd.flagValues, rev)
  IN  \A e \in entries :
        LET name == canonicalName(e.name, rev)
        IN  /\ name \in DOMAIN values
            /\ values[name] # {}
            /\ evalGlobMatch(e.glob, values[name])
            /\ matchRegex(e.regex, values[name])

\* One evaluation of matchSpec: revF is the table canonicalizeFlags builds, revV
\* the one matchFlagValues builds for itself.
matchSpecWith(spec, cmd, revF, revV) ==
  LET canonical == canonicalizeFlags(cmd.flags, revF)
  IN  /\ spec.command \in {"", cmd.name}
      /\ matchFlagsAll(spec.flagsAll, canonical)
      /\ matchFlagsAny(spec.flagsAny, canonical)
      /\ matchSubcommandsAll(spec.subcommandsAll, cmd.args)
      /\ matchSubcommandsAny(spec.subcommandsAny, cmd.args)
      /\ evalGlobMatch(spec.glob, Elems(cmd.args))
      /\ matchRegex(spec.regex, Elems(cmd.args))
      /\ matchFlagValues(spec.flagValues, cmd, revV)

\* The results matchSpec may return.
matchSpec(spec, cmd) ==
  LET tables == buildReverseAliases(spec.flagAliases)
  IN  {matchSpecWith(spec, cmd, f, v) : f \in tables, v \in tables}

--------------------------------------------------------------------------------
(* internal/rule/evaluate.go:77-109, evalRule.  A rule is                       *)
(* [tool, action, match: MatchSpec, except: the set of its zero or one except   *)
(* clauses].                                                                    *)

Outcome == {"noMatch", "excepted", "matched"}

exceptResults(r, cmd) ==
  IF r.except = {} THEN {FALSE} ELSE UNION {matchSpec(e, cmd) : e \in r.except}

\* The outcomes evalRule may report: except is consulted after match.
evalRule(r, cmd) ==
  {o \in Outcome :
     \/ o = "noMatch"  /\ FALSE \in matchSpec(r.match, cmd)
     \/ o = "excepted" /\ TRUE \in matchSpec(r.match, cmd) /\ TRUE \in exceptResults(r, cmd)
     \/ o = "matched"  /\ TRUE \in matchSpec(r.match, cmd) /\ FALSE \in exceptResults(r, cmd)}

appliesTo(r, tool) == r.tool \in {"*", tool}

--------------------------------------------------------------------------------
(* internal/rule/load.go: what pickParser asks of the rules of a loaded config. *)

spellings(name, aliases) == {name} \cup (IF name \in DOMAIN aliases THEN aliases[name] ELSE {})

\* The last rule about a command replaces the names of the others.
MutLastRuleOfCommand(rules) ==
  LET asking == {i \in DOMAIN rules : rules[i].match.flagValues # {}}
      last(c) == CHOOSE i \in asking : /\ rules[i].match.command = c
                                       /\ \A j \in asking : rules[j].match.command = c => j <= i
  IN  [c \in {rules[i].match.command : i \in asking} |->
         UNION {spellings(e.name, rules[last(c)].match.flagAliases) :
                  e \in rules[last(c)].match.flagValues}]

\* Command, or "" for rules about any command, -> the names match.flag_values asks for
\* and their alternatives.
ResolvedValueTakingFlags(rules) ==
  LET asking == {r \in Elems(rules) : r.match.flagValues # {}}
  IN  [c \in {r.match.command : r \in asking} |->
         UNION {UNION {spellings(e.name, r.match.flagAliases) : e \in r.match.flagValues} :
                  r \in {r \in asking : r.match.command = c}}]
================================================================================
