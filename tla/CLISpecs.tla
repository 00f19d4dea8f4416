-------------------------------- MODULE CLISpecs -------------------------------
(* internal/clispec and rule/defaults.go: the built-in CLI specs, merged with   *)
(* those a config declares, for every invocation that is parsed.                *)
(*                                                                              *)
(* Go shares slices, maps and structs by reference, so what a spec holds lives  *)
(* in cells of memory: a spec is [valueTaking: reference, recurse: zero or one  *)
(* reference].  A cell holds a list of flags, or a RecurseSpec [flags,          *)
(* terminator, subcommands: verb -> skip] with all that hangs from it, which    *)
(* the code always copies together.  A reference <<owner, cli, part>> names the *)
(* allocation it comes from and is never reused.                                *)
EXTENDS Recurse, SequencesExt

CONSTANTS Embedded,    \* builtins/*.yaml: cli -> [valueTaking, recurse], by value
          Declared,    \* the defaults.cli_specs of some configs, likewise
          Dashed,      \* the flag names that begin with "-"
          Depths,      \* the values of defaults.recursive_max_depth
          Scribbles,   \* what a caller may write into the specs it was given: part -> value
          Lines,       \* command lines to ask the specs about
          MaxResolves  \* bound on the calls of ResolvedCLISpecs

VARIABLES mem,         \* reference -> value
          builtins,    \* builtinsMap: cli -> spec
          declared,    \* d.CLISpecs: cli -> spec
          depth,       \* d.RecursiveMaxDepth
          results      \* what the calls of ResolvedCLISpecs returned: cli -> spec

vars == <<mem, builtins, declared, depth, results>>

ASSUME DepthsAssumption == Depths \subseteq Int

\* What the decoder makes of cli_specs, whatever the names in it.
IsList(s) == s \in Seq(Range(s))

IsSpec(s) ==
  /\ s = [valueTaking |-> s.valueTaking, recurse |-> s.recurse]
  /\ IsList(s.valueTaking)
  /\ \A r, q \in s.recurse : r = q
  /\ \A r \in s.recurse : /\ IsList(r.flags) /\ r.terminator \in BOOLEAN
                          /\ \A v \in DOMAIN r.subcommands : r.subcommands[v] \in Int

ASSUME SpecsAssumption ==
  \A specs \in Declared \cup {Embedded} : \A cli \in DOMAIN specs : IsSpec(specs[cli])

ASSUME LinesAssumption == \A words \in Lines : IsList(words)

BuiltinOwner == <<"builtin", 0>>
ConfigOwner == <<"config", 0>>
BaseOwner(n) == <<"base", n>>
ResultOwner(n) == <<"result", n>>

NoRecurse == [flags |-> << >>, terminator |-> FALSE, subcommands |-> << >>]

References(spec) == {spec.valueTaking} \cup spec.recurse
Cells(specs) == UNION {References(specs[cli]) : cli \in DOMAIN specs}

\* The cells of f over those of g: @@, as a function that can be reasoned about.
Over(f, g) == [x \in DOMAIN f \cup DOMAIN g |-> IF x \in DOMAIN f THEN f[x] ELSE g[x]]

\* What memory m says of a spec, and of a map of specs.
Value(m, spec) ==
  [valueTaking |-> m[spec.valueTaking], recurse |-> {m[ref] : ref \in spec.recurse}]

View(m, specs) == [cli \in DOMAIN specs |-> Value(m, specs[cli])]

--------------------------------------------------------------------------------
\* CLISpec.Validate and RecurseSpec.validate, of a spec by value.
Validate(spec) ==
  /\ spec.valueTaking # << >> \/ spec.recurse # {}
  /\ Range(spec.valueTaking) \cap (Dashed \cup {""}) = {}
  /\ \A r \in spec.recurse :
       /\ r.flags # << >> \/ r.terminator \/ DOMAIN r.subcommands # {}
       /\ \A verb \in DOMAIN r.subcommands : verb # "" /\ r.subcommands[verb] >= 0

\* Every value where it comes first.
dedupAppend(base, override) ==
  LET all == base \o override
  IN  AtPlaces(all, {n \in DOMAIN all : \A m \in 1 .. n - 1 : all[m] # all[n]})

\* A spec in fresh cells with these contents: the spec, and the cells written.
Allocate(owner, cli, valueTaking, recurse) ==
  LET list == <<owner, cli, "valueTaking">>
      struct == <<owner, cli, "recurse">>
  IN  [spec |-> [valueTaking |-> list, recurse |-> {struct : r \in recurse}],
       written |-> [ref \in {list} \cup {struct : r \in recurse} |->
                      IF ref = list THEN valueTaking ELSE CHOOSE r \in recurse : TRUE]]

\* The copy keeps the pointer to the RecurseSpec.
MutSharedRecurse(m, s, owner, cli) ==
  LET list == <<owner, cli, "valueTaking">>
  IN  [spec |-> [valueTaking |-> list, recurse |-> s.recurse], written |-> list :> m[s.valueTaking]]

cloneSpec(m, s, owner, cli) == Allocate(owner, cli, m[s.valueTaking], {m[ref] : ref \in s.recurse})

\* The declared verbs replace the built-in ones.
MutVerbsReplaced(dst, override) ==
  [flags |-> dedupAppend(dst.flags, override.flags),
   terminator |-> dst.terminator \/ override.terminator,
   subcommands |-> IF DOMAIN override.subcommands = {} THEN dst.subcommands ELSE override.subcommands]

\* Lists are united, terminator can only be added, a declared verb takes precedence.
mergeRecurse(dst, override) ==
  [flags |-> dedupAppend(dst.flags, override.flags),
   terminator |-> dst.terminator \/ override.terminator,
   subcommands |-> Over(override.subcommands, dst.subcommands)]

\* What is declared is merged into the base spec itself.
MutMergeInPlace(m, base, override, owner, cli) ==
  [spec |-> [base EXCEPT !.recurse = IF base.recurse = {} THEN override.recurse ELSE @],
   written |-> (base.valueTaking :> dedupAppend(m[base.valueTaking], m[override.valueTaking]))
               @@ [ref \in IF override.recurse = {} THEN {} ELSE base.recurse |->
                     mergeRecurse(m[ref], m[CHOOSE o \in override.recurse : TRUE])]]

\* Only a spec with a RecurseSpec of its own is merged with the declared one.
MutNoAllocation(m, base, override, owner, cli) ==
  Allocate(owner, cli, dedupAppend(m[base.valueTaking], m[override.valueTaking]),
           IF override.recurse = {} THEN {m[b] : b \in base.recurse}
           ELSE {mergeRecurse(m[b], m[CHOOSE o \in override.recurse : TRUE]) : b \in base.recurse})

\* A copy of base into which override is merged; a base without a RecurseSpec gets an
\* empty one for it.
mergeSpec(m, base, override, owner, cli) ==
  LET mine == {m[ref] : ref \in base.recurse}
  IN  Allocate(owner, cli, dedupAppend(m[base.valueTaking], m[override.valueTaking]),
               IF override.recurse = {} THEN mine
               ELSE {mergeRecurse(b, m[o]) : b \in IF mine = {} THEN {NoRecurse} ELSE mine,
                                             o \in override.recurse})

\* A map of specs, each with the cells it writes, as one.
Gather(specs) ==
  [spec |-> [cli \in DOMAIN specs |-> specs[cli].spec],
   written |-> [ref \in UNION {DOMAIN specs[cli].written : cli \in DOMAIN specs} |->
                  specs[ref[2]].written[ref]]]

\* The specs of a file, in memory.
Stored(owner, specs) ==
  Gather([cli \in DOMAIN specs |-> Allocate(owner, cli, specs[cli].valueTaking, specs[cli].recurse)])

Builtins(m, owner) ==
  Gather([cli \in DOMAIN builtins |-> cloneSpec(m, builtins[cli], owner, cli)])

MergeCLISpecs(m, base, override, owner) ==
  Gather([cli \in DOMAIN base \cup DOMAIN override |->
            IF cli \notin DOMAIN override THEN cloneSpec(m, base[cli], owner, cli)
            ELSE IF cli \notin DOMAIN base THEN cloneSpec(m, override[cli], owner, cli)
            ELSE mergeSpec(m, base[cli], override[cli], owner, cli)])

\* Without declarations the copy of the built-in specs is the result itself.
ResolvedCLISpecs(n) ==
  LET base == Builtins(mem, BaseOwner(n))
      merged == MergeCLISpecs(Over(base.written, mem), base.spec, declared, ResultOwner(n))
  IN  IF DOMAIN declared = {} THEN base
      ELSE [spec |-> merged.spec, written |-> Over(merged.written, base.written)]

ResolvedRecursiveMaxDepth == IF depth > 0 THEN depth ELSE 3

--------------------------------------------------------------------------------
\* loadBuiltins has cached the embedded specs, a config has been loaded: both
\* validate every spec.
Init ==
  /\ \A cli \in DOMAIN Embedded : Validate(Embedded[cli])
  /\ \E d \in {d \in Declared : \A cli \in DOMAIN d : Validate(d[cli])} :
       LET b == Stored(BuiltinOwner, Embedded)
           c == Stored(ConfigOwner, d)
       IN  builtins = b.spec /\ declared = c.spec /\ mem = Over(b.written, c.written)
  /\ depth \in {d \in Depths : d >= 0}
  /\ results = << >>

\* An invocation is to be parsed.
Resolve ==
  /\ Len(results) < MaxResolves
  /\ LET r == ResolvedCLISpecs(Len(results) + 1)
     IN  results' = Append(results, r.spec) /\ mem' = Over(r.written, mem)
  /\ UNCHANGED <<builtins, declared, depth>>

\* A caller changes the specs that the k-th call gave it.
Scribble(k) ==
  /\ \E value \in Scribbles :
       mem' = [ref \in DOMAIN mem |-> IF ref \in Cells(results[k]) THEN value[ref[3]] ELSE mem[ref]]
  /\ UNCHANGED <<builtins, declared, depth, results>>

Next == Resolve \/ \E k \in DOMAIN results : Scribble(k)

Spec == Init /\ [][Next]_vars

--------------------------------------------------------------------------------
(* Properties *)

\* Every reference leads to a cell, and no two owners share one.
TypeOK ==
  LET holders == <<builtins, declared>> \o results
  IN  /\ \A i \in DOMAIN holders : Cells(holders[i]) \subseteq DOMAIN mem
      /\ \A i, j \in DOMAIN holders : i # j => Cells(holders[i]) \cap Cells(holders[j]) = {}
      /\ ResolvedRecursiveMaxDepth > 0

Contents == [builtins |-> View(mem, builtins), declared |-> View(mem, declared),
             results |-> [k \in DOMAIN results |-> View(mem, results[k])]]

\* Neither a merge nor a caller that changes what it was given changes the built-in
\* specs, the config, or what another call returned (merge.go:12, builtins.go:24-28,
\* defaults.go:7-9).
CopiesAreIsolated ==
  [][/\ Contents'.builtins = Contents.builtins /\ Contents'.declared = Contents.declared
     /\ \A j, k \in DOMAIN results :
          j # k => Contents'.results[j] = Contents.results[j] \/ Contents'.results[k] = Contents.results[k]
     /\ results' # results =>
          \A k \in DOMAIN results : Contents'.results[k] = Contents.results[k]]_vars

\* What a spec stands for: sets of names, and verbs with their skips.
Flags(spec) == Range(spec.valueTaking)
RecurseFlags(spec) == UNION {Range(r.flags) : r \in spec.recurse}
Terminates(spec) == \E r \in spec.recurse : r.terminator
Verbs(spec) == UNION {{<<v, r.subcommands[v]>> : v \in DOMAIN r.subcommands} : r \in spec.recurse}

NoSpec == [valueTaking |-> << >>, recurse |-> {}]
Among(specs, cli) == IF cli \in DOMAIN specs THEN specs[cli] ELSE NoSpec

\* Names from either, terminator from either, verbs from both and u's if both have one
\* (merge.go:3-11).
IsUnion(spec, b, u) ==
  LET over == {v[1] : v \in Verbs(u)}
  IN  /\ Flags(spec) = Flags(b) \cup Flags(u)
      /\ RecurseFlags(spec) = RecurseFlags(b) \cup RecurseFlags(u)
      /\ (Terminates(spec) <=> Terminates(b) \/ Terminates(u))
      /\ Verbs(spec) = Verbs(u) \cup {v \in Verbs(b) : v[1] \notin over}

\* Every call, the last as the first, returns the union of the built-in specs as they
\* are embedded and the declared ones, in specs that are valid, whatever happened to
\* the results of earlier calls.
EveryResolveIsUnion ==
  [][results' # results =>
       LET merged == View(mem', results'[Len(results')])
           user == Contents.declared
       IN  /\ DOMAIN merged = DOMAIN Embedded \cup DOMAIN user
           /\ \A cli \in DOMAIN merged :
                /\ IsUnion(merged[cli], Among(Embedded, cli), Among(user, cli))
                /\ Validate(merged[cli])]_vars

\* The texts found in a line under the spec of its command; the parser lets the flags
\* whose value is a command take one (bash_parser.go:210-224).
Found(spec, words) ==
  UNION {Range(extractRecursionTargets(words, r, Flags(spec) \cup {r.flags[n].name : n \in DOMAIN r.flags}).targets) :
           r \in spec.recurse}

\* The declared spec changes how the words of the line are read: it says that a flag of
\* the line takes a value, or redefines a built-in verb.
Rereads(user, builtin, words) ==
  \/ \E i \in DOMAIN words :
       LET w == Shape[words[i]]
           names == {w.name} \cup Range(w.letters)
       IN  isFlagToken(words[i]) /\ names \cap (Flags(user) \cup {f.name : f \in RecurseFlags(user)}) # {}
  \/ \E u \in Verbs(user), b \in Verbs(builtin) : u[1] = b[1] /\ u # b

\* A config that declares a spec for a wrapper hides nothing the built-in spec lets
\* wardhook inspect ("User declarations are additive", README.md:599), as long as it
\* does not say otherwise of the flags and the verb that the line has.
DeclaringHidesNothing ==
  [][results' # results =>
       LET merged == View(mem', results'[Len(results')])
       IN  \A words \in Lines :
             words[1] \in DOMAIN Embedded =>
               LET b == Embedded[words[1]]
               IN  ~Rereads(Among(Contents.declared, words[1]), b, words) =>
                     Found(b, words) \subseteq Found(merged[words[1]], words)]_vars
================================================================================
