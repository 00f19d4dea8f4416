------------------------------- MODULE RuleProofs -------------------------------
(* Proofs about the matcher and the evaluation: what the edits of a command line *)
(* do to its match, and what Evaluate and EvaluateTrace return, for every set of *)
(* specs, rules and commands, every vocabulary and lists of any length.          *)
EXTENDS RuleEval, MatchSteps, SequenceTheorems, TLAPS

--------------------------------------------------------------------------------
(* The matcher *)

\* d is the record of a command, and these are its fields.
IsCommand(d, name, flags, flagValues, list, failed) ==
  /\ d = [name |-> name, flags |-> flags, flagValues |-> flagValues, args |-> list,
          inspectionFailed |-> failed]
  /\ d.name = name /\ d.flags = flags /\ d.flagValues = flagValues /\ d.args = list

\* The spec stays, and words are only ever appended.
CmdOK ==
  /\ spec \in MatchSpecs
  /\ \E n, f, v, a, i : IsCommand(cmd, n, f, v, a, i)
  /\ cmd.args \in Seq(Words)

\* The three ways to edit one.
LEMMA Edited ==
  ASSUME NEW c, NEW n, NEW f, NEW v, NEW a, NEW i, IsCommand(c, n, f, v, a, i),
         NEW F, NEW W, NEW A
  PROVE  /\ IsCommand([c EXCEPT !.flags = F], n, F, v, a, i)
         /\ IsCommand([c EXCEPT !.flagValues = W], n, f, W, a, i)
         /\ IsCommand([c EXCEPT !.args = A], n, f, v, A, i)
<1>1. [c EXCEPT !.flags = F] =
         [name |-> n, flags |-> F, flagValues |-> v, args |-> a, inspectionFailed |-> i]
  BY DEF IsCommand
<1>2. [c EXCEPT !.flagValues = W] =
         [name |-> n, flags |-> f, flagValues |-> W, args |-> a, inspectionFailed |-> i]
  BY DEF IsCommand
<1>3. [c EXCEPT !.args = A] =
         [name |-> n, flags |-> f, flagValues |-> v, args |-> A, inspectionFailed |-> i]
  BY DEF IsCommand
<1>5. IsCommand([c EXCEPT !.flags = F], n, F, v, a, i)  BY <1>1 DEF IsCommand
<1>6. IsCommand([c EXCEPT !.flagValues = W], n, f, W, a, i)  BY <1>2 DEF IsCommand
<1>7. IsCommand([c EXCEPT !.args = A], n, f, v, A, i)  BY <1>3 DEF IsCommand
<1> QED  BY <1>5, <1>6, <1>7

LEMMA CmdInit == EditInit => CmdOK
<1> SUFFICES ASSUME EditInit PROVE CmdOK  OBVIOUS
<1>1. PICK n, f, v, i : cmd = [name |-> n, flags |-> f, flagValues |-> v, args |-> << >>, inspectionFailed |-> i]
  BY DEF EditInit
<1>2. cmd.args = << >>  BY <1>1
<1>3. IsCommand(cmd, n, f, v, << >>, i)  BY <1>1 DEF IsCommand
<1>4. spec \in MatchSpecs  BY DEF EditInit
<1> QED  BY <1>2, <1>3, <1>4 DEF CmdOK

LEMMA CmdStep == CmdOK /\ [Edit]_edited => CmdOK'
<1> SUFFICES ASSUME CmdOK, [Edit]_edited PROVE CmdOK'  OBVIOUS
<1>1. PICK n, f, v, a, i : IsCommand(cmd, n, f, v, a, i)  BY DEF CmdOK
<1>2. a \in Seq(Words) /\ cmd.args = a /\ spec' \in MatchSpecs
  BY <1>1 DEF CmdOK, IsCommand, Edit, edited, AppendArg, AddFlag, AddValue, Respelling, Respell
<1>3. CASE AppendArg
  <2>1. PICK w \in Words : cmd' = [cmd EXCEPT !.args = Append(@, w)]  BY <1>3 DEF AppendArg
  <2>2. IsCommand(cmd', n, f, v, Append(a, w), i)  BY <1>1, <1>2, <2>1, Edited
  <2>3. Append(a, w) \in Seq(Words)  BY <1>2, AppendProperties
  <2> QED  BY <1>2, <2>2, <2>3 DEF CmdOK, IsCommand
<1>4. CASE AddFlag
  <2>1. PICK F : cmd' = [cmd EXCEPT !.flags = F]  BY <1>4 DEF AddFlag
  <2>2. IsCommand(cmd', n, F, v, a, i)  BY <1>1, <2>1, Edited
  <2> QED  BY <1>2, <2>2 DEF CmdOK, IsCommand
<1>5. CASE AddValue
  <2>1. PICK W : cmd' = [cmd EXCEPT !.flagValues = W]  BY <1>5 DEF AddValue
  <2>2. IsCommand(cmd', n, f, W, a, i)  BY <1>1, <2>1, Edited
  <2> QED  BY <1>2, <2>2 DEF CmdOK, IsCommand
<1>6. CASE Respelling
  <2>1. PICK c, F, W : c = [cmd EXCEPT !.flags = F] /\ cmd' = [c EXCEPT !.flagValues = W]
    BY <1>6 DEF Respelling, Respell
  <2>2. IsCommand(c, n, F, v, a, i)  BY <1>1, <2>1, Edited
  <2>3. IsCommand(cmd', n, F, W, a, i)  BY <2>1, <2>2, Edited
  <2> QED  BY <1>2, <2>3 DEF CmdOK, IsCommand
<1>7. CASE UNCHANGED edited  BY <1>7 DEF edited, CmdOK, IsCommand
<1> QED  BY <1>3, <1>4, <1>5, <1>6, <1>7 DEF Edit

--------------------------------------------------------------------------------
(* Spelling. *)

\* Under plain aliases every table knows every spelling of a flag by its one name.
LEMMA OneName ==
  ASSUME PlainAliases, NEW rev \in buildReverseAliases(spec.flagAliases),
         NEW c \in DOMAIN spec.flagAliases, NEW f \in spellings(c, spec.flagAliases)
  PROVE  canonicalName(f, rev) = c
<1>1. f = c \/ f \in spec.flagAliases[c]  BY DEF spellings
<1>2. DOMAIN rev = UNION {spec.flagAliases[d] : d \in DOMAIN spec.flagAliases}
      /\ \A a \in DOMAIN rev : rev[a] \in DOMAIN spec.flagAliases /\ a \in spec.flagAliases[rev[a]]
  BY DEF buildReverseAliases
<1>3. CASE f = c
  <2>1. c \notin DOMAIN rev  BY <1>2 DEF PlainAliases
  <2> QED  BY <1>3, <2>1 DEF canonicalName
<1>4. CASE f \in spec.flagAliases[c]
  <2>1. f \in DOMAIN rev  BY <1>2, <1>4
  <2>2. rev[f] = c  BY <1>2, <1>4, <2>1 DEF PlainAliases
  <2> QED  BY <2>1, <2>2 DEF canonicalName
<1> QED  BY <1>1, <1>3, <1>4

\* Writing a flag under another name leaves the canonical flags and values alone.
LEMMA RespellFlags ==
  ASSUME NEW rev, NEW f, NEW g, canonicalName(f, rev) = canonicalName(g, rev),
         NEW flags, f \in flags
  PROVE  canonicalizeFlags((flags \ {f}) \cup {g}, rev) = canonicalizeFlags(flags, rev)
BY DEF canonicalizeFlags

LEMMA RespellValues ==
  ASSUME NEW rev, NEW f, NEW g, f # g, canonicalName(f, rev) = canonicalName(g, rev),
         NEW old, NEW new,
         DOMAIN new = (DOMAIN old \ {f}) \cup (IF f \in DOMAIN old THEN {g} ELSE {}),
         \A k \in DOMAIN new :
           new[k] = IF k = g THEN (IF f \in DOMAIN old THEN old[f] ELSE {})
                                  \cup (IF g \in DOMAIN old THEN old[g] ELSE {})
                    ELSE old[k]
  PROVE  canonicalizeFlagValues(new, rev) = canonicalizeFlagValues(old, rev)
<1> DEFINE of(values, c) == UNION {values[k] : k \in {k \in DOMAIN values : canonicalName(k, rev) = c}}
<1>1. canonicalizeFlags(DOMAIN new, rev) = canonicalizeFlags(DOMAIN old, rev)
  <2>1. CASE f \in DOMAIN old  BY <2>1 DEF canonicalizeFlags
  <2>2. CASE f \notin DOMAIN old
    <3>1. DOMAIN new = DOMAIN old  BY <2>2
    <3> QED  BY <3>1
  <2> QED  BY <2>1, <2>2
<1>2. \A c : of(new, c) = of(old, c)
  <2>1. SUFFICES ASSUME NEW c, NEW v PROVE v \in of(new, c) <=> v \in of(old, c)  OBVIOUS
  <2>2. ASSUME NEW k \in DOMAIN new, canonicalName(k, rev) = c, v \in new[k]
        PROVE  \E j \in DOMAIN old : canonicalName(j, rev) = c /\ v \in old[j]
    BY <2>2
  <2>3. ASSUME NEW k \in DOMAIN old, canonicalName(k, rev) = c, v \in old[k]
        PROVE  \E j \in DOMAIN new : canonicalName(j, rev) = c /\ v \in new[j]
    <3>1. CASE k = f
      <4>1. g \in DOMAIN new /\ v \in new[g]  BY <2>3, <3>1
      <4> QED  BY <2>3, <3>1, <4>1
    <3>2. CASE k # f
      <4>1. k \in DOMAIN new /\ v \in new[k]  BY <2>3, <3>2
      <4> QED  BY <2>3, <4>1
    <3> QED  BY <3>1, <3>2
  <2> QED  BY <2>2, <2>3
<1>3. canonicalizeFlagValues(new, rev) = [c \in canonicalizeFlags(DOMAIN new, rev) |-> of(new, c)]
  BY DEF canonicalizeFlagValues
<1>4. canonicalizeFlagValues(old, rev) = [c \in canonicalizeFlags(DOMAIN old, rev) |-> of(old, c)]
  BY DEF canonicalizeFlagValues
<1> HIDE DEF of
<1> QED  BY <1>1, <1>2, <1>3, <1>4

LEMMA RespellingStep ==
  ASSUME CmdOK, Respelling, PlainAliases
  PROVE  matchSpec(spec, cmd') = matchSpec(spec, cmd)
<1>1. PICK c \in DOMAIN spec.flagAliases : \E f, g \in spellings(c, spec.flagAliases) :
        f # g /\ f \in cmd.flags /\ Respell(f, g)
  BY DEF Respelling
<1>2. PICK f, g \in spellings(c, spec.flagAliases) : f # g /\ f \in cmd.flags /\ Respell(f, g)
  BY <1>1
<1> DEFINE named == (DOMAIN cmd.flagValues \ {f}) \cup (IF f \in DOMAIN cmd.flagValues THEN {g} ELSE {})
           written == [k \in named |-> IF k = g THEN valuesOf(f) \cup valuesOf(g) ELSE cmd.flagValues[k]]
           F == (cmd.flags \ {f}) \cup {g}
<1>3. cmd' = [[cmd EXCEPT !.flags = F] EXCEPT !.flagValues = written]  BY <1>2 DEF Respell
<1>4. PICK n, fl, v, a, i : IsCommand(cmd, n, fl, v, a, i)  BY DEF CmdOK
<1> HIDE DEF F, written
<1>5. IsCommand(cmd', n, F, written, a, i)
  <2>1. PICK d : d = [cmd EXCEPT !.flags = F]  OBVIOUS
  <2>2. IsCommand(d, n, F, v, a, i)  BY <1>4, <2>1, Edited
  <2>3. cmd' = [d EXCEPT !.flagValues = written]  BY <1>3, <2>1
  <2> QED  BY <2>2, <2>3, Edited
<1>6. cmd'.name = cmd.name /\ cmd'.args = cmd.args /\ cmd'.flags = F /\ cmd'.flagValues = written
  BY <1>4, <1>5 DEF IsCommand
<1>7. ASSUME NEW rev \in buildReverseAliases(spec.flagAliases)
      PROVE  /\ canonicalizeFlags(cmd'.flags, rev) = canonicalizeFlags(cmd.flags, rev)
             /\ canonicalizeFlagValues(cmd'.flagValues, rev) = canonicalizeFlagValues(cmd.flagValues, rev)
  <2>1. canonicalName(f, rev) = canonicalName(g, rev)  BY OneName
  <2>2. canonicalizeFlags(F, rev) = canonicalizeFlags(cmd.flags, rev)
    BY <1>2, <2>1, RespellFlags DEF F
  <2>3. DOMAIN written = named
        /\ \A k \in named : written[k] = IF k = g THEN (IF f \in DOMAIN cmd.flagValues THEN cmd.flagValues[f] ELSE {})
                                  \cup (IF g \in DOMAIN cmd.flagValues THEN cmd.flagValues[g] ELSE {})
                    ELSE cmd.flagValues[k]
    BY DEF written, valuesOf
  <2>4. canonicalizeFlagValues(written, rev) = canonicalizeFlagValues(cmd.flagValues, rev)
    BY <1>2, <2>1, <2>3, RespellValues
  <2> QED  BY <1>6, <2>2, <2>4
<1>8. ASSUME NEW revF \in buildReverseAliases(spec.flagAliases),
             NEW revV \in buildReverseAliases(spec.flagAliases)
      PROVE  matchSpecWith(spec, cmd', revF, revV) = matchSpecWith(spec, cmd, revF, revV)
  <2>1. canonicalizeFlags(cmd'.flags, revF) = canonicalizeFlags(cmd.flags, revF)  BY <1>7
  <2>2. canonicalizeFlagValues(cmd'.flagValues, revV) = canonicalizeFlagValues(cmd.flagValues, revV)
    BY <1>7
  <2>3. matchFlagValues(spec.flagValues, cmd', revV) = matchFlagValues(spec.flagValues, cmd, revV)
    BY <2>2 DEF matchFlagValues
  <2> QED  BY <1>6, <2>1, <2>3 DEF matchSpecWith
<1> QED  BY <1>8 DEF matchSpec

\* For any spec whose aliases are plain, any command and any vocabulary, writing a flag
\* under another of its names changes no result of the matcher (match.go:139-184).
THEOREM SpellingNeverMatters == EditSpec => SpellingIsIrrelevant
<1>1. CmdOK /\ [Edit]_edited => (Respelling /\ PlainAliases => matchSpec(spec, cmd') = matchSpec(spec, cmd))
                              \/ UNCHANGED edited
  BY RespellingStep
<1> QED  BY <1>1, CmdInit, CmdStep, PTL DEF EditSpec, SpellingIsIrrelevant

--------------------------------------------------------------------------------
(* Growth. *)

\* Everything that c shows the matcher, d shows it too.
Grown(c, d) ==
  /\ d.name = c.name /\ c.flags \subseteq d.flags
  /\ Len(c.args) <= Len(d.args)
  /\ \A i \in DOMAIN c.args : i \in DOMAIN d.args /\ d.args[i] = c.args[i]
  /\ DOMAIN c.flagValues \subseteq DOMAIN d.flagValues
  /\ \A f \in DOMAIN c.flagValues : c.flagValues[f] \subseteq d.flagValues[f]

LEMMA StepGrows ==
  ASSUME CmdOK, AppendArg \/ AddFlag \/ AddValue
  PROVE  /\ Grown(cmd, cmd') /\ spec' = spec
         /\ Len(cmd.args) \in Nat /\ DOMAIN cmd.args = 1 .. Len(cmd.args) /\ Len(cmd'.args) \in Nat
<1>1. PICK n, f, v, a, i : IsCommand(cmd, n, f, v, a, i)  BY DEF CmdOK
<1>2. /\ cmd.name = n /\ cmd.flags = f /\ cmd.flagValues = v /\ cmd.args = a
      /\ a \in Seq(Words) /\ Len(a) \in Nat /\ DOMAIN a = 1 .. Len(a)
  BY <1>1, LenProperties DEF CmdOK, IsCommand
<1>3. CASE AppendArg
  <2>1. PICK w \in Words : cmd' = [cmd EXCEPT !.args = Append(@, w)]  BY <1>3 DEF AppendArg
  <2>2. IsCommand(cmd', n, f, v, Append(a, w), i)  BY <1>1, <1>2, <2>1, Edited
  <2>3. cmd'.name = n /\ cmd'.flags = f /\ cmd'.flagValues = v /\ cmd'.args = Append(a, w)
    BY <2>2 DEF IsCommand
  <2>4. /\ Len(Append(a, w)) = Len(a) + 1 /\ DOMAIN a = 1 .. Len(a)
        /\ DOMAIN Append(a, w) = 1 .. Len(a) + 1
        /\ \A j \in 1 .. Len(a) : Append(a, w)[j] = a[j]
    <3>1. Append(a, w) \in Seq(Words)  BY <1>2, AppendProperties
    <3> QED  BY <1>2, <3>1, AppendProperties, LenProperties
  <2> QED  BY <1>2, <1>3, <2>3, <2>4 DEF Grown, AppendArg
<1>4. CASE AddFlag
  <2>1. PICK g \in Flags \ cmd.flags : cmd' = [cmd EXCEPT !.flags = @ \cup {g}]  BY <1>4 DEF AddFlag
  <2>2. PICK F : F = cmd.flags \cup {g} /\ cmd' = [cmd EXCEPT !.flags = F]  BY <2>1
  <2>3. IsCommand(cmd', n, F, v, a, i)  BY <1>1, <2>2, Edited
  <2>4. cmd'.name = n /\ cmd'.flags = F /\ cmd'.flagValues = v /\ cmd'.args = a
    BY <2>3 DEF IsCommand
  <2> QED  BY <1>2, <1>4, <2>2, <2>4 DEF Grown, AddFlag
<1>5. CASE AddValue
  <2>1. PICK g \in cmd.flags, val \in Values :
          cmd' = [cmd EXCEPT !.flagValues = [k \in DOMAIN @ \cup {g} |->
                    IF k = g THEN valuesOf(g) \cup {val} ELSE @[k]]]
    BY <1>5 DEF AddValue
  <2>2. PICK W : /\ W = [k \in DOMAIN cmd.flagValues \cup {g} |->
                           IF k = g THEN valuesOf(g) \cup {val} ELSE cmd.flagValues[k]]
                 /\ cmd' = [cmd EXCEPT !.flagValues = W]
    BY <2>1
  <2>3. IsCommand(cmd', n, f, W, a, i)  BY <1>1, <2>2, Edited
  <2>4. cmd'.name = n /\ cmd'.flags = f /\ cmd'.flagValues = W /\ cmd'.args = a
    BY <2>3 DEF IsCommand
  <2>5. \A k \in DOMAIN v : k \in DOMAIN W /\ v[k] \subseteq W[k]  BY <1>2, <2>2 DEF valuesOf
  <2> QED  BY <1>2, <1>5, <2>4, <2>5 DEF Grown, AddValue
<1> QED  BY <1>3, <1>4, <1>5

LEMMA PresenceGrows ==
  ASSUME NEW g, g.mode # "all", NEW few, NEW many, few \subseteq many, evalGlobMatch(g, few)
  PROVE  evalGlobMatch(g, many)
BY DEF evalGlobMatch

LEMMA PathGrows ==
  ASSUME NEW c, NEW d, Grown(c, d), Len(c.args) \in Nat, Len(d.args) \in Nat,
         DOMAIN c.args = 1 .. Len(c.args),
         NEW path, path \in Seq(Elems(path)), matchPathAnchored(path, c.args)
  PROVE  matchPathAnchored(path, d.args)
<1>1. Len(path) \in Nat /\ DOMAIN path = 1 .. Len(path)  BY LenProperties
<1>2. path # << >> /\ Len(path) <= Len(c.args) /\ \A i \in DOMAIN path : c.args[i] = path[i]
  BY DEF matchPathAnchored
<1>3. Len(d.args) >= Len(path)  BY <1>1, <1>2 DEF Grown
<1>4. \A i \in DOMAIN path : d.args[i] = path[i]  BY <1>1, <1>2 DEF Grown
<1> QED  BY <1>2, <1>3, <1>4 DEF matchPathAnchored

\* Canonical flags and values grow with those they are made from.
LEMMA CanonicalGrows ==
  ASSUME NEW c, NEW d, Grown(c, d), NEW rev
  PROVE  LET few == canonicalizeFlagValues(c.flagValues, rev)
             many == canonicalizeFlagValues(d.flagValues, rev)
         IN  /\ canonicalizeFlags(c.flags, rev) \subseteq canonicalizeFlags(d.flags, rev)
             /\ DOMAIN few \subseteq DOMAIN many
             /\ \A f \in DOMAIN few : few[f] \subseteq many[f]
<1>1. canonicalizeFlags(c.flags, rev) \subseteq canonicalizeFlags(d.flags, rev)
  BY DEF Grown, canonicalizeFlags
<1>2. canonicalizeFlags(DOMAIN c.flagValues, rev) \subseteq canonicalizeFlags(DOMAIN d.flagValues, rev)
  BY DEF Grown, canonicalizeFlags
<1>3. \A f : UNION {c.flagValues[k] : k \in {k \in DOMAIN c.flagValues : canonicalName(k, rev) = f}}
             \subseteq
             UNION {d.flagValues[k] : k \in {k \in DOMAIN d.flagValues : canonicalName(k, rev) = f}}
  BY DEF Grown
<1> QED  BY <1>1, <1>2, <1>3 DEF canonicalizeFlagValues

LEMMA MatchGrows ==
  ASSUME spec \in MatchSpecs, AsksForPresence, NEW c, NEW d, Grown(c, d),
         Len(c.args) \in Nat, DOMAIN c.args = 1 .. Len(c.args), Len(d.args) \in Nat,
         NEW revF, NEW revV, matchSpecWith(spec, c, revF, revV)
  PROVE  matchSpecWith(spec, d, revF, revV)
<1>1. /\ spec.command \in {"", c.name}
      /\ matchFlagsAll(spec.flagsAll, canonicalizeFlags(c.flags, revF))
      /\ matchFlagsAny(spec.flagsAny, canonicalizeFlags(c.flags, revF))
      /\ matchSubcommandsAll(spec.subcommandsAll, c.args)
      /\ matchSubcommandsAny(spec.subcommandsAny, c.args)
      /\ evalGlobMatch(spec.glob, Elems(c.args))
      /\ matchRegex(spec.regex, Elems(c.args))
      /\ matchFlagValues(spec.flagValues, c, revV)
  BY DEF matchSpecWith
<1>2. spec.command \in {"", d.name}  BY <1>1 DEF Grown
<1>3. /\ matchFlagsAll(spec.flagsAll, canonicalizeFlags(d.flags, revF))
      /\ matchFlagsAny(spec.flagsAny, canonicalizeFlags(d.flags, revF))
  <2>1. canonicalizeFlags(c.flags, revF) \subseteq canonicalizeFlags(d.flags, revF)
    BY CanonicalGrows
  <2> QED  BY <1>1, <2>1 DEF matchFlagsAll, matchFlagsAny
<1>4. \A p \in spec.subcommandsAll \cup spec.subcommandsAny :
        matchPathAnchored(p, c.args) => matchPathAnchored(p, d.args)
  BY PathsAssumption, PathGrows
<1>5. matchSubcommandsAll(spec.subcommandsAll, d.args)
      /\ matchSubcommandsAny(spec.subcommandsAny, d.args)
  BY <1>1, <1>4 DEF matchSubcommandsAll, matchSubcommandsAny
<1>6. Elems(c.args) \subseteq Elems(d.args)  BY DEF Grown, Elems
<1>7. evalGlobMatch(spec.glob, Elems(d.args)) /\ matchRegex(spec.regex, Elems(d.args))
  BY <1>1, <1>6, PresenceGrows DEF AsksForPresence, matchRegex
<1>8. matchFlagValues(spec.flagValues, d, revV)
  <2> DEFINE few == canonicalizeFlagValues(c.flagValues, revV)
             many == canonicalizeFlagValues(d.flagValues, revV)
  <2>1. DOMAIN few \subseteq DOMAIN many /\ \A f \in DOMAIN few : few[f] \subseteq many[f]
    BY CanonicalGrows
  <2> HIDE DEF few, many
  <2>2. SUFFICES ASSUME NEW e \in spec.flagValues, NEW name, name = canonicalName(e.name, revV)
                 PROVE  /\ name \in DOMAIN many /\ many[name] # {}
                        /\ evalGlobMatch(e.glob, many[name]) /\ matchRegex(e.regex, many[name])
    BY DEF matchFlagValues, many
  <2>3. /\ name \in DOMAIN few /\ few[name] # {}
        /\ evalGlobMatch(e.glob, few[name]) /\ matchRegex(e.regex, few[name])
    BY <1>1, <2>2 DEF matchFlagValues, few
  <2>4. few[name] \subseteq many[name] /\ name \in DOMAIN many  BY <2>1, <2>3
  <2> QED  BY <2>3, <2>4, PresenceGrows DEF AsksForPresence, matchRegex
<1> QED  BY <1>2, <1>3, <1>5, <1>7, <1>8 DEF matchSpecWith

LEMMA Results ==
  ASSUME NEW c, NEW x
  PROVE  x \in matchSpec(spec, c) <=>
           \E f \in buildReverseAliases(spec.flagAliases), v \in buildReverseAliases(spec.flagAliases) :
             x = matchSpecWith(spec, c, f, v)
BY DEF matchSpec

LEMMA GrowingStep ==
  ASSUME CmdOK, AppendArg \/ AddFlag \/ AddValue, AsksForPresence, TRUE \in matchSpec(spec, cmd)
  PROVE  TRUE \in matchSpec(spec, cmd')
<1> DEFINE tables == buildReverseAliases(spec.flagAliases)
<1>1. PICK f \in tables, v \in tables : TRUE = matchSpecWith(spec, cmd, f, v)
  BY Results
<1>2. matchSpecWith(spec, cmd, f, v)  BY <1>1
<1>3. matchSpecWith(spec, cmd', f, v)  BY <1>2, StepGrows, MatchGrows DEF CmdOK
<1>4. matchSpecWith(spec, cmd', f, v) \in BOOLEAN  BY DEF matchSpecWith
<1>5. TRUE = matchSpecWith(spec, cmd', f, v)  BY <1>3, <1>4
<1> QED  BY <1>5, Results

\* For any spec that only asks for things to be present, a command line it matches is
\* still matched with more words after it, another flag or another value
\* (match.go:56-137).
THEOREM GrowthNeverEscapes == EditSpec => GrowthKeepsMatch
<1>1. CmdOK /\ [Edit]_edited =>
        (~Respelling /\ AsksForPresence
           => (TRUE \in matchSpec(spec, cmd) => TRUE \in matchSpec(spec, cmd')))
        \/ UNCHANGED edited
  BY GrowingStep DEF Edit
<1> QED  BY <1>1, CmdInit, CmdStep, PTL DEF EditSpec, GrowthKeepsMatch

--------------------------------------------------------------------------------
(* The evaluation *)


Place == V!Place

\* The position of the loops is past the place.
Passed(p) == p.cmd < ci \/ (p.cmd = ci /\ p.rule < ri)

\* What has been recorded as matching did, and is a place already passed.
FiredOK ==
  \A p \in fired : Passed(p) /\ p.cmd \in DOMAIN cmds /\ p.rule \in DOMAIN rules /\ V!MayFire(p)

\* No place was passed that had to match and was not recorded.
NothingMissed ==
  \A c \in DOMAIN cmds, r \in DOMAIN rules :
    LET p == [cmd |-> c, rule |-> r]
    IN  Passed(p) /\ V!MustFire(p) => p \in fired

\* The inner accumulator is the verdict on the current command so far ...
InnerOK == V!IsVerdict({p \in fired : p.cmd = ci}, dec, reason)

\* ... and the outer one the verdict on the commands that are behind.
OuterOK == V!IsVerdict({p \in fired \cup Inspections : p.cmd < ci}, overall, overallReason)

ReturnedOK == returned => ci = Len(cmds) + 1

IInv == TypeOK /\ FiredOK /\ NothingMissed /\ InnerOK /\ OuterOK /\ ReturnedOK

--------------------------------------------------------------------------------
\* A list of at most n elements of S is a sequence of elements of S.
LEMMA ListsAreSequences ==
  ASSUME NEW S, NEW n \in Nat, NEW s \in V!ListsUpTo(S, n)
  PROVE  s \in Seq(S)
<1>1. PICK m \in 0 .. n : s \in [1 .. m -> S]  BY DEF V!ListsUpTo
<1>2. m \in Nat  BY <1>1
<1> QED  BY <1>1, <1>2, SeqDef

\* Verdicts on two sets of places, one wholly before the other, combine into the
\* verdict on both by keeping the first unless the second is strictly stronger.
LEMMA VerdictsCombine ==
  ASSUME NEW F \in SUBSET Place, NEW G \in SUBSET Place,
         NEW d \in Decision, NEW e \in Decision, NEW w \in Place, NEW v \in Place,
         \A p \in F, q \in G : V!before(p, q),
         V!IsVerdict(F, d, w), V!IsVerdict(G, e, v)
  PROVE  V!IsVerdict(F \cup G, IF stricter(e, d) THEN e ELSE d,
                               IF stricter(e, d) THEN v ELSE w)
<1>1. \A p \in F, q \in G : V!before(p, q) /\ ~V!before(q, p)
  BY DEF V!before, Place, V!Place
<1>2. \A p \in Place : V!strength(p) \in Int  BY DEF V!strength, V!rank
<1>3. CASE stricter(e, d)
  <2>1. e \in {"ask", "deny"} /\ v \in G /\ V!strength(v) = V!rank(e)
    BY <1>3 DEF stricter, rank, V!rank, V!IsVerdict, Decision
  <2>2. \A p \in F : V!strength(p) < V!rank(e)
    BY <1>3, <1>2 DEF stricter, rank, V!rank, V!IsVerdict, Decision
  <2>3. \A p \in G : V!strength(p) <= V!rank(e) /\ (V!strength(p) = V!rank(e) => ~V!before(p, v))
    BY <2>1 DEF V!IsVerdict
  <2> QED  BY <1>2, <1>3, <2>1, <2>2, <2>3 DEF V!IsVerdict, V!rank
<1>4. CASE ~stricter(e, d)
  <2>1. \A p \in G : V!strength(p) <= V!rank(d)
    BY <1>4, <1>2 DEF stricter, rank, V!rank, V!IsVerdict, Decision
  <2>2. CASE d = "allow" /\ w = V!NoReason
    BY <1>4, <2>1, <2>2 DEF V!IsVerdict, V!rank
  <2>3. CASE d \in {"ask", "deny"} /\ w \in F
    <3>1. \A p \in G : ~V!before(p, w)  BY <1>1, <2>3
    <3> QED  BY <1>4, <2>1, <2>3, <3>1 DEF V!IsVerdict
  <2> QED  BY <2>2, <2>3 DEF V!IsVerdict
<1> QED  BY <1>3, <1>4

\* The verdict on one place.
LEMMA VerdictOfOne ==
  ASSUME NEW p \in Place, NEW d \in Decision, V!strength(p) = rank(d)
  PROVE  V!IsVerdict({p}, d, IF d = "allow" THEN V!NoReason ELSE p)
BY DEF V!IsVerdict, V!strength, V!rank, rank, Decision, V!before, Place, V!Place

--------------------------------------------------------------------------------
LEMMA InitIInv == Init => IInv
<1> SUFFICES ASSUME Init PROVE IInv  OBVIOUS
<1>1. rules \in Seq(RuleSet) /\ cmds \in Seq(CommandSet)
  BY BoundAssumption, ListsAreSequences DEF Init
<1>2. TypeOK
  <2>1. ci \in 1 .. Len(cmds) + 1 /\ ri \in 1 .. Len(rules) + 1
    BY <1>1, LenProperties DEF Init
  <2>2. sink \in Seq(TraceEntry) /\ trace \in Seq(CommandTrace)
    BY EmptySeq DEF Init
  <2>3. /\ dec \in Decision /\ overall \in Decision
        /\ reason \in V!Place /\ overallReason \in V!Place /\ fired \subseteq V!Place
    BY DEF Init, Decision, V!Place, V!NoReason
  <2> QED  BY <1>1, <2>1, <2>2, <2>3 DEF Init, TypeOK
<1>3. FiredOK  BY DEF Init, FiredOK
<1>4. NothingMissed
  BY <1>1, LenProperties DEF Init, NothingMissed, Passed
<1>5. InnerOK  BY DEF Init, InnerOK, V!IsVerdict
<1>6. OuterOK
  <2>1. {p \in fired \cup Inspections : p.cmd < ci} = {}
    BY <1>1, LenProperties DEF Init, Inspections
  <2> QED  BY <2>1 DEF Init, OuterOK, V!IsVerdict
<1>7. ReturnedOK  BY DEF Init, ReturnedOK
<1> QED  BY <1>2, <1>3, <1>4, <1>5, <1>6, <1>7 DEF IInv

\* The definitions that read only the arguments of the call keep their values.
LEMMA ArgumentsFixed ==
  ASSUME UNCHANGED args
  PROVE  /\ Inspections' = Inspections
         /\ \A p : V!MayFire(p)' <=> V!MayFire(p)
         /\ \A p : V!MustFire(p)' <=> V!MustFire(p)
         /\ \A F, d, w : V!IsVerdict(F, d, w)' <=> V!IsVerdict(F, d, w)
BY DEF args, Inspections, V!IsInspection, V!MayFire, V!MustFire, V!Applies,
       V!IsVerdict, V!strength

\* What TypeOK says of the positions and of the rule at hand.
LEMMA Positions ==
  ASSUME TypeOK
  PROVE  /\ Len(rules) \in Nat /\ DOMAIN rules = 1 .. Len(rules)
         /\ Len(cmds) \in Nat /\ DOMAIN cmds = 1 .. Len(cmds)
         /\ ci \in Nat \ {0} /\ ri \in Nat \ {0}
         /\ [cmd |-> ci, rule |-> ri] \in V!Place
         /\ InRules => rules[ri] \in RuleSet /\ rules[ri].action \in Decision
<1>1. /\ Len(rules) \in Nat /\ DOMAIN rules = 1 .. Len(rules)
      /\ Len(cmds) \in Nat /\ DOMAIN cmds = 1 .. Len(cmds)
  BY LenProperties DEF TypeOK
<1>2. ci \in Nat \ {0} /\ ri \in Nat \ {0}  BY <1>1 DEF TypeOK
<1>3. InRules => rules[ri] \in RuleSet
  BY <1>1, <1>2, ElementOfSeq DEF TypeOK, InRules
<1> QED  BY <1>1, <1>2, <1>3, RuleAssumption DEF V!Place

\* Recording an outcome keeps the type of the sink.
LEMMA RecordTyped ==
  ASSUME TypeOK, InRules, NEW o \in Outcome, Record(o)
  PROVE  sink' \in Seq(TraceEntry)
<1>1. [rule |-> ri, action |-> rules[ri].action, outcome |-> o] \in TraceEntry
  BY Positions DEF TraceEntry
<1> QED  BY <1>1 DEF Record, TypeOK

LEMMA TypeOKStep == TypeOK /\ [Next]_vars => TypeOK'
<1> SUFFICES ASSUME TypeOK, [Next]_vars PROVE TypeOK'  OBVIOUS
<1>0. InRules => ri + 1 \in 1 .. Len(rules) + 1  BY Positions DEF InRules
<1>1. CASE SkipOtherTool  BY <1>0, <1>1 DEF SkipOtherTool, TypeOK, args
<1>2. CASE Pass
  <2>1. sink' \in Seq(TraceEntry)  BY <1>2, RecordTyped DEF Pass, evalRule
  <2> QED  BY <1>0, <1>2, <2>1 DEF Pass, TypeOK, args
<1>3. CASE Match
  <2>1. sink' \in Seq(TraceEntry)  BY <1>3, RecordTyped DEF Match, Outcome
  <2>2. dec' \in Decision /\ reason' \in V!Place /\ fired' \subseteq V!Place
    BY <1>3, Positions DEF Match, TypeOK
  <2> QED  BY <1>0, <1>3, <2>1, <2>2 DEF Match, TypeOK, args
<1>4. CASE EndCommand
  <2>1. /\ cmdDecision \in Decision /\ cmdReason \in V!Place
        /\ overall' \in Decision /\ overallReason' \in V!Place
    BY <1>4, Positions DEF EndCommand, TypeOK, cmdDecision, cmdReason, Decision
  <2>2. cmds[ci].inspectionFailed \in BOOLEAN
    BY <1>4, Positions, ElementOfSeq, CommandAssumption DEF EndCommand, TypeOK
  <2>3. trace' \in Seq(CommandTrace) /\ sink' \in Seq(TraceEntry)
    <3>1. [rules |-> sink, inspectionFailed |-> cmds[ci].inspectionFailed] \in CommandTrace
      BY <2>2 DEF TypeOK, CommandTrace
    <3> QED  BY <1>4, <3>1, EmptySeq DEF EndCommand, TypeOK
  <2>4. ci' \in 1 .. Len(cmds) + 1 /\ ri' \in 1 .. Len(rules) + 1
    BY <1>4, Positions DEF EndCommand
  <2> QED  BY <1>4, <2>1, <2>3, <2>4 DEF EndCommand, TypeOK, args, V!Place, V!NoReason, Decision
<1>5. CASE Return  BY <1>5 DEF Return, TypeOK, args
<1>6. CASE UNCHANGED vars  BY <1>6 DEF vars, TypeOK
<1> QED  BY <1>1, <1>2, <1>3, <1>4, <1>5, <1>6 DEF Next

\* Every state of the evaluation is well typed.
THEOREM TypeCorrect == Spec => []TypeOK
<1>1. Init => TypeOK  BY InitIInv DEF IInv
<1> QED  BY <1>1, TypeOKStep, PTL DEF Spec

--------------------------------------------------------------------------------
(* Every step keeps the invariant.                                              *)

\* A rule passed over, because it is for another tool, does not match or is
\* excepted, leaves the accumulators and moves the position past a place that did
\* not have to match.
LEMMA PassedOver ==
  ASSUME IInv, TypeOK', SkipOtherTool \/ Pass
  PROVE  IInv'
<1>1. /\ UNCHANGED args /\ InRules /\ ri' = ri + 1
      /\ UNCHANGED <<ci, dec, reason, overall, overallReason, returned, fired>>
  BY DEF SkipOtherTool, Pass
<1>2. ~V!MustFire([cmd |-> ci, rule |-> ri])
  <2>1. CASE SkipOtherTool
    BY <2>1 DEF SkipOtherTool, V!MustFire, V!Applies
  <2>2. CASE Pass
    <3>1. PICK o \in evalRule(rules[ri], cmds[ci]) : o # "matched"  BY <2>2 DEF Pass
    <3>2. o \in {"noMatch", "excepted"}  BY <3>1 DEF evalRule, Outcome
    <3> QED  BY <3>1, <3>2 DEF V!MustFire
  <2> QED  BY <2>1, <2>2
<1>3. FiredOK'  BY <1>1, ArgumentsFixed, Positions DEF IInv, FiredOK, Passed, args, TypeOK, V!Place
<1>4. NothingMissed'
  BY <1>1, <1>2, ArgumentsFixed, Positions DEF IInv, NothingMissed, Passed, args
<1>5. InnerOK'  BY <1>1, ArgumentsFixed DEF IInv, InnerOK
<1>6. OuterOK'  BY <1>1, ArgumentsFixed DEF IInv, OuterOK
<1>7. ReturnedOK'  BY <1>1 DEF IInv, ReturnedOK, args
<1> QED  BY <1>3, <1>4, <1>5, <1>6, <1>7 DEF IInv

\* A rule that matches joins the places of the current command, after all of them.
LEMMA Matched ==
  ASSUME IInv, TypeOK', Match
  PROVE  IInv'
<1>0. PICK here : here = [cmd |-> ci, rule |-> ri]  OBVIOUS
<1> DEFINE F == {p \in fired : p.cmd = ci}
           act == rules[ri].action
<1>1. /\ UNCHANGED args /\ InRules /\ ri' = ri + 1 /\ fired' = fired \cup {here}
      /\ UNCHANGED <<ci, overall, overallReason, returned>>
  BY <1>0 DEF Match
<1>2. /\ here \in V!Place /\ act \in Decision /\ F \in SUBSET V!Place
      /\ dec \in Decision /\ reason \in V!Place
      /\ here.cmd = ci /\ here.rule = ri
  BY <1>0, <1>1, Positions DEF IInv, TypeOK
<1>3. V!MayFire(here)
  <2>1. appliesTo(rules[ri], tool) /\ "matched" \in evalRule(rules[ri], cmds[ci])
    BY DEF Match
  <2>2. ci \in DOMAIN cmds /\ ri \in DOMAIN rules
    BY <1>1, Positions DEF InRules, IInv
  <2> QED  BY <1>0, <1>2, <2>1, <2>2 DEF V!MayFire, V!Applies
<1>4. FiredOK'
  <2>1. \A p \in fired : Passed(p)' /\ p.cmd \in DOMAIN cmds' /\ p.rule \in DOMAIN rules' /\ V!MayFire(p)'
    <3> SUFFICES ASSUME NEW p \in fired
                 PROVE  Passed(p)' /\ p.cmd \in DOMAIN cmds' /\ p.rule \in DOMAIN rules' /\ V!MayFire(p)'
      OBVIOUS
    <3>1. Passed(p) /\ p.cmd \in DOMAIN cmds /\ p.rule \in DOMAIN rules /\ V!MayFire(p)
      BY DEF IInv, FiredOK
    <3>2. V!MayFire(p)'  BY <1>1, <3>1, ArgumentsFixed
    <3>3. p.cmd \in Nat /\ p.rule \in Nat  BY DEF IInv, TypeOK, V!Place
    <3>4. Passed(p)'  BY <1>1, <3>1, <3>3, Positions DEF IInv, Passed
    <3> QED  BY <1>1, <3>1, <3>2, <3>4 DEF args
  <2>2. Passed(here)' /\ here.cmd \in DOMAIN cmds' /\ here.rule \in DOMAIN rules' /\ V!MayFire(here)'
    BY <1>1, <1>2, <1>3, ArgumentsFixed, Positions DEF IInv, Passed, args, InRules
  <2> QED  BY <1>1, <2>1, <2>2 DEF FiredOK
<1>5. NothingMissed'
  BY <1>0, <1>1, ArgumentsFixed, Positions DEF IInv, NothingMissed, Passed, args
<1>6. InnerOK'
  <2>1. \A p \in F, q \in {here} : V!before(p, q)
    BY <1>2 DEF IInv, FiredOK, Passed, V!before
  <2>2. V!strength(here) = rank(act)
    BY <1>0, <1>1, <1>2, Positions DEF V!strength, InRules, IInv, rank, V!rank
  <2> DEFINE why == IF act = "allow" THEN V!NoReason ELSE here
  <2>3. V!IsVerdict({here}, act, why) /\ why \in V!Place
    BY <1>2, <2>2, VerdictOfOne DEF Place, V!Place, V!NoReason
  <2>4. V!IsVerdict(F, dec, reason)  BY DEF IInv, InnerOK
  <2>5. V!IsVerdict(F \cup {here}, IF stricter(act, dec) THEN act ELSE dec,
                                   IF stricter(act, dec) THEN why ELSE reason)
    <3> HIDE DEF F, act, why
    <3> QED  BY <1>2, <2>1, <2>3, <2>4, VerdictsCombine DEF Place
  <2>6. stricter(act, dec) => why = here  BY <1>2 DEF stricter, rank, Decision
  <2>7. V!IsVerdict(F \cup {here}, dec', reason')
    <3>1. dec' = (IF stricter(act, dec) THEN act ELSE dec)
          /\ reason' = (IF stricter(act, dec) THEN why ELSE reason)
      BY <1>0, <2>6 DEF Match
    <3> QED  BY <2>5, <3>1
  <2>8. {p \in fired' : p.cmd = ci'} = F \cup {here}  BY <1>1, <1>2
  <2> QED  BY <1>1, <2>7, <2>8, ArgumentsFixed DEF InnerOK
<1>7. OuterOK'
  <2>1. {p \in fired' \cup Inspections' : p.cmd < ci'} = {p \in fired \cup Inspections : p.cmd < ci}
    BY <1>1, <1>2, ArgumentsFixed DEF IInv, TypeOK
  <2> QED  BY <1>1, <2>1, ArgumentsFixed DEF IInv, OuterOK
<1>8. ReturnedOK'  BY <1>1 DEF IInv, ReturnedOK, args
<1> QED  BY <1>4, <1>5, <1>6, <1>7, <1>8 DEF IInv

\* The end of a command: what the failed inspection asks for joins the places of
\* the command after its rules, and the command joins the ones behind.
LEMMA CommandEnded ==
  ASSUME IInv, TypeOK', EndCommand
  PROVE  IInv'
<1> DEFINE A == {p \in fired \cup Inspections : p.cmd < ci}
           B == {p \in fired : p.cmd = ci}
           C == {p \in Inspections : p.cmd = ci}
           insp == [cmd |-> ci, rule |-> Len(rules) + 1]
<1>1. /\ UNCHANGED args /\ UNCHANGED <<returned, fired>>
      /\ ci \in DOMAIN cmds /\ ri = Len(rules) + 1 /\ ci' = ci + 1 /\ ri' = 1
      /\ dec' = "allow" /\ reason' = V!NoReason
  BY Positions DEF EndCommand, IInv
<1>2. Inspections \in SUBSET V!Place
  BY Positions DEF Inspections, V!Place, IInv
<1>3. /\ A \in SUBSET V!Place /\ B \in SUBSET V!Place /\ C \in SUBSET V!Place
      /\ dec \in Decision /\ reason \in V!Place
      /\ overall \in Decision /\ overallReason \in V!Place /\ insp \in V!Place
      /\ ci \in Nat /\ Len(rules) \in Nat
  BY <1>1, <1>2, Positions DEF IInv, TypeOK
<1>0. \A p \in fired : p.cmd \in Nat /\ p.rule \in Nat /\ (p.cmd < ci \/ (p.cmd = ci /\ p.rule < ri))
  BY DEF IInv, TypeOK, FiredOK, Passed, V!Place
<1>4. cmdDecision \in Decision /\ cmdReason \in V!Place
  BY <1>1, <1>3 DEF cmdDecision, cmdReason, Decision, V!Place
<1>5. V!IsVerdict(B \cup C, cmdDecision, cmdReason)
  <2>1. V!IsVerdict(B, dec, reason)  BY DEF IInv, InnerOK
  <2>2. CASE ~cmds[ci].inspectionFailed
    <3>1. C = {}  BY <2>2 DEF Inspections, V!IsInspection
    <3>2. cmdDecision = dec /\ cmdReason = reason
      BY <2>2 DEF cmdDecision, cmdReason, Forced
    <3>3. B \cup C = B  BY <3>1
    <3> QED  BY <2>1, <3>2, <3>3
  <2>3. CASE cmds[ci].inspectionFailed
    <3>1. C = {insp}
      BY <1>1, <2>3 DEF Inspections, V!IsInspection
    <3>2. \A p \in B, q \in {insp} : V!before(p, q)
      BY <1>0, <1>1, <1>3 DEF V!before
    <3>3. V!strength(insp) = rank("ask")
      BY <1>3, Positions DEF V!strength, rank, V!rank, IInv
    <3>4. V!IsVerdict({insp}, "ask", insp)
      BY <3>3, <1>3, VerdictOfOne DEF Decision, Place
    <3>5. V!IsVerdict(B \cup {insp}, IF stricter("ask", dec) THEN "ask" ELSE dec,
                                     IF stricter("ask", dec) THEN insp ELSE reason)
      <4> HIDE DEF B, insp
      <4> QED  BY <1>3, <2>1, <3>2, <3>4, VerdictsCombine DEF Place, Decision
    <3>6. Forced <=> stricter("ask", dec)
      BY <1>3, <2>3 DEF Forced, stricter, rank, Decision
    <3> QED  BY <1>1, <3>1, <3>5, <3>6 DEF cmdDecision, cmdReason
  <2> QED  BY <2>2, <2>3
<1>6. V!IsVerdict(A \cup (B \cup C), overall', overallReason')
  <2>1. \A p \in A, q \in B \cup C : V!before(p, q)  BY DEF V!before
  <2>2. V!IsVerdict(A, overall, overallReason)  BY DEF IInv, OuterOK
  <2>3. V!IsVerdict(A \cup (B \cup C),
          IF stricter(cmdDecision, overall) THEN cmdDecision ELSE overall,
          IF stricter(cmdDecision, overall) THEN cmdReason ELSE overallReason)
    <3> DEFINE G == B \cup C
    <3>1. G \in SUBSET V!Place  BY <1>3
    <3>2. V!IsVerdict(G, cmdDecision, cmdReason) /\ \A p \in A, q \in G : V!before(p, q)
      BY <1>5, <2>1
    <3> HIDE DEF A, G
    <3> QED
      <4>1. V!IsVerdict(A \cup G,
              IF stricter(cmdDecision, overall) THEN cmdDecision ELSE overall,
              IF stricter(cmdDecision, overall) THEN cmdReason ELSE overallReason)
        BY <1>3, <1>4, <2>2, <3>1, <3>2, VerdictsCombine DEF Place
      <4> QED  BY <4>1 DEF G
  <2>4. /\ overall' = (IF stricter(cmdDecision, overall) THEN cmdDecision ELSE overall)
        /\ overallReason' = (IF stricter(cmdDecision, overall) THEN cmdReason ELSE overallReason)
    BY DEF EndCommand
  <2> QED  BY <2>3, <2>4
<1>7. OuterOK'
  <2>1. {p \in fired' \cup Inspections' : p.cmd < ci'} = A \cup (B \cup C)
    <3>1. \A p \in fired \cup Inspections : p.cmd \in Nat
      BY <1>2 DEF IInv, TypeOK, V!Place
    <3>2. \A p \in fired \cup Inspections : p.cmd < ci + 1 <=> p.cmd < ci \/ p.cmd = ci
      BY <1>3, <3>1
    <3> QED  BY <1>1, <3>2, ArgumentsFixed
  <2> QED  BY <1>1, <1>6, <2>1, ArgumentsFixed DEF OuterOK
<1>8. InnerOK'
  <2>1. {p \in fired' : p.cmd = ci'} = {}
    BY <1>0, <1>1, <1>3
  <2> QED  BY <1>1, <2>1 DEF InnerOK, V!IsVerdict
<1>9. FiredOK'
  <2>1. \A p \in fired : Passed(p)'
    BY <1>0, <1>1, <1>3 DEF Passed
  <2> QED  BY <1>1, <2>1, ArgumentsFixed DEF IInv, FiredOK, args
<1>10. NothingMissed'
  <2>1. \A c \in DOMAIN cmds, r \in DOMAIN rules :
          Passed([cmd |-> c, rule |-> r])' => Passed([cmd |-> c, rule |-> r])
    BY <1>1, <1>3, Positions DEF Passed, IInv
  <2> QED  BY <1>1, <2>1, ArgumentsFixed DEF IInv, NothingMissed, args
<1>11. ReturnedOK'
  <2>1. ci <= Len(cmds) /\ Len(cmds) \in Nat  BY Positions DEF EndCommand, IInv
  <2>2. ~returned  BY <1>3, <2>1 DEF IInv, ReturnedOK
  <2>3. returned' = FALSE  BY <1>1, <2>2 DEF IInv, TypeOK
  <2> QED  BY <2>3 DEF ReturnedOK
<1> QED  BY <1>7, <1>8, <1>9, <1>10, <1>11 DEF IInv

LEMMA Returning ==
  ASSUME IInv, TypeOK', Return \/ UNCHANGED vars
  PROVE  IInv'
<1>1. UNCHANGED <<args, ci, ri, dec, reason, overall, overallReason, fired>>
  BY DEF Return, vars, args
<1>2. ReturnedOK'
  <2>1. CASE Return
    <3>1. ci = Len(cmds) + 1  BY <2>1, Positions DEF Return, IInv, TypeOK
    <3> QED  BY <1>1, <3>1 DEF ReturnedOK, args
  <2>2. CASE UNCHANGED vars
    BY <2>2 DEF vars, IInv, ReturnedOK
  <2> QED  BY <2>1, <2>2
<1>3. FiredOK'  BY <1>1, ArgumentsFixed DEF IInv, FiredOK, Passed, args
<1>4. NothingMissed'  BY <1>1, ArgumentsFixed DEF IInv, NothingMissed, Passed, args
<1>5. InnerOK' /\ OuterOK'  BY <1>1, ArgumentsFixed DEF IInv, InnerOK, OuterOK
<1> QED  BY <1>2, <1>3, <1>4, <1>5 DEF IInv

\* IInv is inductive.
LEMMA IInvStep == IInv /\ [Next]_vars => IInv'
<1> SUFFICES ASSUME IInv, [Next]_vars PROVE IInv'  OBVIOUS
<1>1. TypeOK'  BY TypeOKStep DEF IInv
<1>2. CASE SkipOtherTool \/ Pass  BY <1>1, <1>2, PassedOver
<1>3. CASE Match  BY <1>1, <1>3, Matched
<1>4. CASE EndCommand  BY <1>1, <1>4, CommandEnded
<1>5. CASE Return \/ UNCHANGED vars  BY <1>1, <1>5, Returning
<1> QED  BY <1>2, <1>3, <1>4, <1>5 DEF Next

LEMMA IInvAlways == Spec => []IInv
BY InitIInv, IInvStep, PTL DEF Spec

--------------------------------------------------------------------------------
\* At the return the places met are those of the whole evaluation.
LEMMA AtReturn ==
  ASSUME IInv, ci = Len(cmds) + 1
  PROVE  V!IsVerdict(fired \cup Inspections, overall, overallReason)
<1>1. \A p \in fired \cup Inspections : p.cmd \in DOMAIN cmds
  BY DEF IInv, FiredOK, Inspections
<1>2. {p \in fired \cup Inspections : p.cmd < ci} = fired \cup Inspections
  BY <1>1, Positions DEF IInv
<1> QED  BY <1>2 DEF IInv, OuterOK

\* The answer of Evaluate is the strictest of what matched and of the failed
\* inspections, and its reason is the first as strict, for every config, tool and
\* list of commands.
THEOREM AnswerIsStrictest == Spec => []VerdictIsStrictest
<1>1. IInv => VerdictIsStrictest
  BY AtReturn DEF IInv, ReturnedOK, VerdictIsStrictest
<1> QED  BY <1>1, IInvAlways, PTL

\* Commands that could not be inspected, and rules that deny, are never answered
\* with less than ask, and than deny (evaluate.go:14-16).
FailClosed ==
  returned =>
    /\ (\E c \in DOMAIN cmds : cmds[c].inspectionFailed) => overall # "allow"
    /\ (\E p \in fired : rules[p.rule].action = "deny") => overall = "deny"
    /\ overall = "allow" <=> overallReason = V!NoReason

THEOREM EvaluationFailsClosed == Spec => []FailClosed
<1>1. IInv => FailClosed
  <2> SUFFICES ASSUME IInv, returned PROVE FailClosed  BY DEF FailClosed
  <2>1. V!IsVerdict(fired \cup Inspections, overall, overallReason)
    BY AtReturn DEF IInv, ReturnedOK
  <2>2. \A p \in fired \cup Inspections : V!strength(p) <= V!rank(overall)
    BY <2>1 DEF V!IsVerdict, V!rank
  <2>3. ASSUME NEW c \in DOMAIN cmds, cmds[c].inspectionFailed
        PROVE  overall # "allow"
    <3> DEFINE p == [cmd |-> c, rule |-> Len(rules) + 1]
    <3>1. p \in Inspections  BY <2>3 DEF Inspections, V!IsInspection
    <3>2. V!strength(p) = 2
      BY Positions DEF V!strength, V!rank, IInv
    <3> QED  BY <2>2, <3>1, <3>2 DEF V!rank
  <2>4. ASSUME NEW p \in fired, rules[p.rule].action = "deny"
        PROVE  overall = "deny"
    BY <2>2, <2>4 DEF IInv, FiredOK, V!strength, V!rank
  <2>5. overall = "allow" <=> overallReason = V!NoReason
    <3>1. \A p \in fired \cup Inspections : p # V!NoReason
      BY Positions DEF IInv, FiredOK, Inspections, V!NoReason
    <3> QED  BY <2>1, <3>1 DEF V!IsVerdict
  <2> QED  BY <2>3, <2>4, <2>5 DEF FailClosed
<1> QED  BY <1>1, IInvAlways, PTL

--------------------------------------------------------------------------------
\* Only the return gives the abstract answer its value.
LEMMA ReturnAnswers ==
  ASSUME IInv, Return
  PROVE  V!Answer
<1> DEFINE F == fired \cup Inspections
           All == {[cmd |-> pr[1], rule |-> pr[2]] : pr \in V!Places}
<1>1. /\ ci = Len(cmds) + 1 /\ ~returned /\ returned' = TRUE
      /\ UNCHANGED <<rules, tool, cmds, overall, overallReason>>
  BY Positions DEF Return, args, IInv, TypeOK
<1>2. V!IsVerdict(F, overall, overallReason)  BY <1>1, AtReturn
<1>3. \A p \in F : p \in V!Place /\ p.cmd \in DOMAIN cmds /\ p.rule \in 1 .. Len(rules) + 1
  <2>1. Len(cmds) \in Nat /\ Len(rules) \in Nat
        /\ DOMAIN cmds = 1 .. Len(cmds) /\ DOMAIN rules = 1 .. Len(rules)
    BY DEF IInv, TypeOK
  <2>2. ASSUME NEW p \in fired
        PROVE  p \in V!Place /\ p.cmd \in DOMAIN cmds /\ p.rule \in 1 .. Len(rules) + 1
    BY <2>1 DEF IInv, TypeOK, FiredOK
  <2>3. ASSUME NEW p \in Inspections
        PROVE  p \in V!Place /\ p.cmd \in DOMAIN cmds /\ p.rule \in 1 .. Len(rules) + 1
    BY <2>1 DEF Inspections, V!Place
  <2> QED  BY <2>2, <2>3
<1>4. F \in SUBSET All
  <2>1. ASSUME NEW p \in F  PROVE p \in All
    <3>1. p = [cmd |-> p.cmd, rule |-> p.rule]  BY <1>3, <2>1 DEF V!Place
    <3>2. <<p.cmd, p.rule>> \in V!Places  BY <1>3, <2>1 DEF V!Places
    <3> QED  BY <3>1, <3>2
  <2> QED  BY <2>1
<1>5. V!Admissible(F)
  <2>1. \A p \in F : V!IsInspection(p) \/ V!MayFire(p)
    BY DEF IInv, FiredOK, Inspections
  <2>2. ASSUME NEW c \in DOMAIN cmds, NEW r \in 1 .. Len(rules) + 1,
               V!IsInspection([cmd |-> c, rule |-> r]) \/ V!MustFire([cmd |-> c, rule |-> r])
        PROVE  [cmd |-> c, rule |-> r] \in F
    <3>1. CASE V!IsInspection([cmd |-> c, rule |-> r])
      BY <3>1 DEF Inspections, V!IsInspection
    <3>2. CASE V!MustFire([cmd |-> c, rule |-> r])
      <4>1. r \in DOMAIN rules  BY <3>2 DEF V!MustFire, V!Applies
      <4>2. Passed([cmd |-> c, rule |-> r])  BY <1>1, Positions DEF Passed, IInv
      <4> QED  BY <3>2, <4>1, <4>2 DEF IInv, NothingMissed
    <3> QED  BY <2>2, <3>1, <3>2
  <2>3. \A pr \in V!Places : pr[1] \in DOMAIN cmds /\ pr[2] \in 1 .. Len(rules) + 1
    BY DEF V!Places
  <2> QED  BY <2>1, <2>2, <2>3 DEF V!Admissible
<1> DEFINE before == [dec |-> "none", reason |-> V!NoReason]
           after == [dec |-> overall, reason |-> overallReason]
<1>6. after \in [dec : Decision, reason : V!Place]  BY DEF IInv, TypeOK
<1>7. after.dec = overall /\ after.reason = overallReason  OBVIOUS
<1>8. \E S \in SUBSET All : V!Admissible(S) /\ V!IsVerdict(S, after.dec, after.reason)
  BY <1>2, <1>4, <1>5, <1>7
<1> QED
  BY <1>1, <1>6, <1>8 DEF V!Answer, V!NoAnswer, V!NoReason, V!Decision, Decision, V!Place

\* The two loops implement the one-step promise: a caller of Evaluate need not know
\* in which order rules and commands were visited.
THEOREM EvaluateImplementsVerdict == Spec => ImplementsVerdict
<1>1. Init => V!Init
  BY DEF Init, V!Init, V!NoAnswer, V!NoReason
<1> DEFINE absVars == <<rules, tool, cmds,
             IF returned THEN [dec |-> overall, reason |-> overallReason]
                         ELSE [dec |-> "none", reason |-> [cmd |-> 0, rule |-> 0]]>>
<1>2. IInv /\ [Next]_vars => V!Answer \/ UNCHANGED absVars
  <2> SUFFICES ASSUME IInv, [Next]_vars PROVE V!Answer \/ UNCHANGED absVars  OBVIOUS
  <2>1. CASE Return  BY <2>1, ReturnAnswers
  <2>2. CASE SkipOtherTool \/ Pass \/ Match \/ EndCommand
    <3>1. ~returned /\ ~returned' /\ UNCHANGED <<rules, tool, cmds>>
      BY <2>2, Positions DEF SkipOtherTool, Pass, Match, EndCommand, InRules, args, IInv, ReturnedOK
    <3> QED  BY <3>1
  <2>3. CASE UNCHANGED vars  BY <2>3 DEF vars
  <2> QED  BY <2>1, <2>2, <2>3 DEF Next
<1> QED  BY <1>1, <1>2, IInvAlways, PTL DEF Spec, V!Spec, ImplementsVerdict

--------------------------------------------------------------------------------
\* A set of places has one verdict: the strictest decision and the first place of it.
LEMMA VerdictIsUnique ==
  ASSUME NEW F \in SUBSET Place,
         NEW d \in Decision, NEW w, NEW e \in Decision, NEW v,
         V!IsVerdict(F, d, w), V!IsVerdict(F, e, v)
  PROVE  d = e /\ w = v
<1>1. \A p \in Place : V!strength(p) \in Int  BY DEF V!strength, V!rank
<1>2. d = e
  BY <1>1 DEF V!IsVerdict, V!rank, Decision
<1>3. CASE d = "allow"  BY <1>2, <1>3 DEF V!IsVerdict
<1>4. CASE d # "allow"
  <2>1. w \in F /\ v \in F /\ ~V!before(v, w) /\ ~V!before(w, v)
    BY <1>2, <1>4 DEF V!IsVerdict
  <2>2. w \in Place /\ v \in Place  BY <2>1
  <2>3. w.cmd = v.cmd /\ w.rule = v.rule
    BY <2>1, <2>2 DEF V!before, Place, V!Place
  <2> QED  BY <1>2, <2>2, <2>3 DEF Place, V!Place
<1> QED  BY <1>3, <1>4

\* What matched and what could not be inspected leave no choice: Evaluate and
\* EvaluateTrace, on the same outcomes, give the same answer with the same reason
\* (trace.go:43-46, "matches Evaluate").
AnswerIsDetermined ==
  returned =>
    \A d \in Decision, w \in V!Place :
      V!IsVerdict(fired \cup Inspections, d, w) => d = overall /\ w = overallReason

THEOREM OutcomesDecide == Spec => []AnswerIsDetermined
<1>1. IInv => AnswerIsDetermined
  <2> SUFFICES ASSUME IInv, returned, NEW d \in Decision, NEW w \in V!Place,
                      V!IsVerdict(fired \cup Inspections, d, w)
               PROVE  d = overall /\ w = overallReason
    BY DEF AnswerIsDetermined
  <2>1. V!IsVerdict(fired \cup Inspections, overall, overallReason)
    BY AtReturn DEF IInv, ReturnedOK
  <2>2. fired \cup Inspections \in SUBSET Place
    BY Positions DEF Inspections, Place, V!Place, IInv, TypeOK
  <2>3. overall \in Decision  BY DEF IInv, TypeOK
  <2> QED  BY <2>1, <2>2, <2>3, VerdictIsUnique
<1> QED  BY <1>1, IInvAlways, PTL

--------------------------------------------------------------------------------
(* The trace. *)

\* The entries are those of command c up to rule upTo: the applicable rules, each once
\* and in the order of the config, marked as matched where they are recorded to be.
Explains(entries, c, upTo) ==
  /\ \A i \in DOMAIN entries :
       /\ entries[i].rule \in DOMAIN rules /\ entries[i].rule < upTo
       /\ appliesTo(rules[entries[i].rule], tool)
       /\ entries[i].outcome = "matched" <=> [cmd |-> c, rule |-> entries[i].rule] \in fired
  /\ \A r \in DOMAIN rules :
       r < upTo /\ appliesTo(rules[r], tool) => \E i \in DOMAIN entries : entries[i].rule = r
  /\ \A i, j \in DOMAIN entries : i < j => entries[i].rule < entries[j].rule

TraceOK ==
  tracing =>
    /\ Len(trace) = ci - 1
    /\ Explains(sink, ci, ri)
    /\ \A c \in DOMAIN trace :
         /\ Explains(trace[c].rules, c, Len(rules) + 1)
         /\ trace[c].inspectionFailed = cmds[c].inspectionFailed

TInv == IInv /\ TraceOK

\* What has been recorded of other commands or earlier rules does not change.
LEMMA ExplainsKept ==
  ASSUME NEW entries, NEW c, NEW n, UNCHANGED args, Explains(entries, c, n),
         \A r \in DOMAIN rules : r < n =>
           ([cmd |-> c, rule |-> r] \in fired' <=> [cmd |-> c, rule |-> r] \in fired)
  PROVE  Explains(entries, c, n)'
BY DEF Explains, args

LEMMA TraceInit == Init => TraceOK
<1> SUFFICES ASSUME Init PROVE TraceOK  OBVIOUS
<1>1. sink = << >> /\ trace = << >> /\ ci = 1 /\ ri = 1  BY DEF Init
<1>2. DOMAIN sink = {} /\ DOMAIN trace = {} /\ Len(trace) = 0  BY <1>1
<1>3. IInv  BY InitIInv
<1>4. \A r \in DOMAIN rules : ~(r < ri)  BY <1>1, <1>3, Positions DEF IInv
<1> QED  BY <1>1, <1>2, <1>4 DEF TraceOK, Explains

\* A rule for another tool has no entry.
LEMMA SkipTraced ==
  ASSUME TInv, SkipOtherTool
  PROVE  TraceOK'
<1> SUFFICES ASSUME tracing PROVE TraceOK'  BY DEF TraceOK, SkipOtherTool, args
<1>1. UNCHANGED args /\ UNCHANGED <<ci, sink, trace, fired>> /\ ri' = ri + 1 /\ InRules
      /\ ~appliesTo(rules[ri], tool)
  BY DEF SkipOtherTool
<1>2. \A r \in DOMAIN rules : r < ri + 1 <=> r < ri \/ r = ri
  BY Positions DEF TInv, IInv
<1>3. Explains(sink, ci, ri)'
  BY <1>1, <1>2 DEF TInv, TraceOK, Explains, args
<1> QED  BY <1>1, <1>3, ExplainsKept DEF TInv, TraceOK, args

\* An entry is appended for the rule at hand.
LEMMA EntryAppended ==
  ASSUME TInv, tracing, InRules, appliesTo(rules[ri], tool), NEW o, Record(o),
         UNCHANGED args, ci' = ci, ri' = ri + 1,
         \A p \in Place : p # [cmd |-> ci, rule |-> ri] => (p \in fired' <=> p \in fired),
         o = "matched" <=> [cmd |-> ci, rule |-> ri] \in fired'
  PROVE  Explains(sink, ci, ri)'
<1> DEFINE e == [rule |-> ri, action |-> rules[ri].action, outcome |-> o]
           n == Len(sink)
<1>1. sink \in Seq(TraceEntry) /\ n \in Nat /\ DOMAIN sink = 1 .. n
  BY DEF TInv, IInv, TypeOK
<1>2. sink' = Append(sink, e)  BY DEF Record
<1>3. DOMAIN sink' = 1 .. n + 1 /\ sink'[n + 1] = e /\ \A i \in 1 .. n : sink'[i] = sink[i]
  BY <1>1, <1>2
<1>4. ri \in DOMAIN rules /\ ri \in Nat /\ ci \in Nat /\ DOMAIN rules \subseteq Nat
  BY Positions DEF TInv, IInv, InRules
<1>5. Explains(sink, ci, ri)  BY DEF TInv, TraceOK
<1>6. \A i \in 1 .. n : sink[i].rule \in DOMAIN rules /\ sink[i].rule < ri
  BY <1>1, <1>5 DEF Explains
<1>7. e.rule = ri /\ e.outcome = o  OBVIOUS
<1>8. ASSUME NEW i \in DOMAIN sink'
      PROVE  /\ sink'[i].rule \in DOMAIN rules /\ sink'[i].rule < ri + 1
             /\ appliesTo(rules[sink'[i].rule], tool)
             /\ sink'[i].outcome = "matched" <=> [cmd |-> ci, rule |-> sink'[i].rule] \in fired'
  <2>1. CASE i = n + 1  BY <1>3, <1>4, <1>7, <2>1
  <2>2. CASE i # n + 1
    <3>1. i \in 1 .. n /\ sink'[i] = sink[i]  BY <1>1, <1>3, <1>8, <2>2
    <3> DEFINE p == [cmd |-> ci, rule |-> sink[i].rule]
    <3>2. sink[i].rule \in Nat /\ sink[i].rule < ri  BY <1>4, <1>6, <3>1
    <3>3. p \in Place /\ p # [cmd |-> ci, rule |-> ri]  BY <1>4, <3>2 DEF Place, V!Place
    <3>4. p \in fired' <=> p \in fired  BY <3>3
    <3> QED  BY <1>1, <1>4, <1>5, <3>1, <3>2, <3>4 DEF Explains
  <2> QED  BY <2>1, <2>2
<1>9. ASSUME NEW r \in DOMAIN rules, r < ri + 1, appliesTo(rules[r], tool)
      PROVE  \E i \in DOMAIN sink' : sink'[i].rule = r
  <2>1. CASE r = ri  BY <1>1, <1>3, <1>7, <2>1
  <2>2. CASE r < ri
    <3>1. PICK i \in DOMAIN sink : sink[i].rule = r  BY <1>5, <1>9, <2>2 DEF Explains
    <3> QED  BY <1>1, <1>3, <3>1
  <2> QED  BY <1>4, <1>9, <2>1, <2>2
<1>10. ASSUME NEW i \in DOMAIN sink', NEW j \in DOMAIN sink', i < j
       PROVE  sink'[i].rule < sink'[j].rule
  BY <1>1, <1>3, <1>5, <1>6, <1>7, <1>10 DEF Explains
<1> QED  BY <1>8, <1>9, <1>10 DEF Explains, args

LEMMA RecordTraced ==
  ASSUME TInv, Pass \/ Match
  PROVE  TraceOK'
<1> SUFFICES ASSUME tracing PROVE TraceOK'  BY DEF TraceOK, Pass, Match, args
<1> DEFINE here == [cmd |-> ci, rule |-> ri]
<1>1. UNCHANGED args /\ UNCHANGED <<ci, trace>> /\ ri' = ri + 1 /\ InRules
      /\ appliesTo(rules[ri], tool)
  BY DEF Pass, Match
<1>2. here \notin fired
  BY Positions DEF TInv, IInv, FiredOK, Passed
<1>3. fired' \in {fired, fired \cup {here}}  BY DEF Pass, Match
<1>4. Explains(sink, ci, ri)'
  <2>1. CASE Pass
    <3>1. PICK o : o # "matched" /\ Record(o)  BY <2>1 DEF Pass
    <3>2. fired' = fired  BY <2>1 DEF Pass
    <3> QED  BY <1>1, <1>2, <3>1, <3>2, EntryAppended
  <2>2. CASE Match
    <3>1. Record("matched") /\ fired' = fired \cup {here}  BY <2>2 DEF Match
    <3> QED  BY <1>1, <3>1, EntryAppended
  <2> QED  BY <2>1, <2>2
<1>5. ASSUME NEW c \in DOMAIN trace
      PROVE  Explains(trace[c].rules, c, Len(rules) + 1)'
  <2>1. c # ci  BY <1>5, Positions DEF TInv, IInv, TypeOK, TraceOK
  <2>2. \A r \in DOMAIN rules : [cmd |-> c, rule |-> r] # here  BY <2>1
  <2>3. Explains(trace[c].rules, c, Len(rules) + 1)  BY <1>5 DEF TInv, TraceOK
  <2>4. Explains(trace[c].rules, c, Len(rules) + 1)' = Explains(trace[c].rules, c, Len(rules) + 1)
    BY <1>1, <1>3, <2>2 DEF Explains, args
  <2> QED  BY <2>3, <2>4
<1> QED  BY <1>1, <1>4, <1>5 DEF TInv, TraceOK, args

\* The sink becomes the entry of the command, all rules of which have been passed.
LEMMA CommandTraced ==
  ASSUME TInv, EndCommand
  PROVE  TraceOK'
<1> SUFFICES ASSUME tracing PROVE TraceOK'  BY DEF TraceOK, EndCommand, args
<1> DEFINE n == Len(trace)
           e == [rules |-> sink, inspectionFailed |-> cmds[ci].inspectionFailed]
<1>1. UNCHANGED args /\ fired' = fired /\ ri = Len(rules) + 1 /\ ci' = ci + 1 /\ ri' = 1
      /\ sink' = << >> /\ trace' = Append(trace, e)
  BY DEF EndCommand, args
<1>2. trace \in Seq(CommandTrace) /\ n \in Nat /\ DOMAIN trace = 1 .. n /\ n + 1 = ci
  BY Positions DEF TInv, IInv, TypeOK, TraceOK
<1>3. /\ DOMAIN trace' = 1 .. n + 1 /\ Len(trace') = n + 1
      /\ trace'[n + 1] = e /\ \A c \in 1 .. n : trace'[c] = trace[c]
  BY <1>1, <1>2
<1>4. \A r \in DOMAIN rules : ~(r < 1)  BY Positions DEF TInv, IInv
<1>5. Explains(sink, ci, ri)'  BY <1>1, <1>4 DEF Explains, args
<1>6. ASSUME NEW c \in DOMAIN trace'
      PROVE  Explains(trace[c].rules, c, Len(rules) + 1)'
             /\ trace'[c].inspectionFailed = cmds[c].inspectionFailed
  <2>1. CASE c = n + 1
    <3>1. trace'[c].rules = sink /\ trace'[c].inspectionFailed = cmds[c].inspectionFailed
      BY <1>2, <1>3, <2>1
    <3>2. Explains(sink, c, Len(rules) + 1)  BY <1>1, <1>2, <2>1 DEF TInv, TraceOK
    <3> QED  BY <1>1, <3>1, <3>2 DEF Explains, args
  <2>2. CASE c \in 1 .. n
    <3>1. trace'[c] = trace[c]  BY <1>3, <2>2
    <3>2. Explains(trace[c].rules, c, Len(rules) + 1)
          /\ trace[c].inspectionFailed = cmds[c].inspectionFailed
      BY <1>2, <2>2 DEF TInv, TraceOK
    <3> QED  BY <1>1, <3>1, <3>2 DEF Explains, args
  <2> QED  BY <1>2, <1>3, <1>6, <2>1, <2>2
<1> QED  BY <1>1, <1>2, <1>3, <1>5, <1>6 DEF TraceOK, args

LEMMA TInvStep == TInv /\ [Next]_vars => TInv'
<1> SUFFICES ASSUME TInv, [Next]_vars PROVE TInv'  OBVIOUS
<1>1. IInv'  BY IInvStep DEF TInv
<1>2. CASE SkipOtherTool  BY <1>1, <1>2, SkipTraced DEF TInv
<1>3. CASE Pass \/ Match  BY <1>1, <1>3, RecordTraced DEF TInv
<1>4. CASE EndCommand     BY <1>1, <1>4, CommandTraced DEF TInv
<1>5. CASE Return \/ UNCHANGED vars
  <2>1. UNCHANGED args /\ UNCHANGED <<ci, ri, sink, trace, fired>>
    BY <1>5 DEF Return, vars, args
  <2> QED  BY <1>1, <2>1 DEF TInv, TraceOK, Explains, args
<1> QED  BY <1>2, <1>3, <1>4, <1>5 DEF Next

\* The places worked out from a complete trace are those that were met.
LEMMA TraceTellsFired ==
  ASSUME TInv, tracing, ci = Len(cmds) + 1
  PROVE  TraceExplainsVerdict
<1> DEFINE matched == UNION {{[cmd |-> c, rule |-> e.rule] :
                                e \in {e \in Elems(trace[c].rules) : e.outcome = "matched"}} :
                              c \in DOMAIN trace}
           failed == {[cmd |-> c, rule |-> Len(rules) + 1] :
                        c \in {c \in DOMAIN trace : trace[c].inspectionFailed}}
<1>1. Len(trace) = Len(cmds) /\ DOMAIN trace = DOMAIN cmds
  BY Positions DEF TInv, IInv, TypeOK, TraceOK
<1>2. \A c \in DOMAIN trace : Explains(trace[c].rules, c, Len(rules) + 1)
                              /\ trace[c].inspectionFailed = cmds[c].inspectionFailed
  BY DEF TInv, TraceOK
<1>3. \A r \in DOMAIN rules : r < Len(rules) + 1  BY Positions DEF TInv, IInv
<1>4. failed = Inspections
  <2>1. \A c \in DOMAIN cmds : V!IsInspection([cmd |-> c, rule |-> Len(rules) + 1])
                                 <=> cmds[c].inspectionFailed
    BY DEF V!IsInspection
  <2> QED  BY <1>1, <1>2, <2>1 DEF Inspections
<1>5. matched = fired
  <2>1. ASSUME NEW c \in DOMAIN trace, NEW i \in DOMAIN trace[c].rules,
               trace[c].rules[i].outcome = "matched"
        PROVE  [cmd |-> c, rule |-> trace[c].rules[i].rule] \in fired
    BY <1>2, <2>1 DEF Explains
  <2>2. matched \subseteq fired  BY <2>1 DEF Elems
  <2>3. ASSUME NEW p \in fired  PROVE p \in matched
    <3>1. p \in Place /\ p.cmd \in DOMAIN cmds /\ p.rule \in DOMAIN rules
          /\ appliesTo(rules[p.rule], tool)
      BY DEF TInv, IInv, TypeOK, FiredOK, V!MayFire, V!Applies, Place
    <3>2. p = [cmd |-> p.cmd, rule |-> p.rule]  BY <3>1 DEF Place, V!Place
    <3>3. PICK i \in DOMAIN trace[p.cmd].rules : trace[p.cmd].rules[i].rule = p.rule
      BY <1>1, <1>2, <1>3, <3>1 DEF Explains
    <3>4. trace[p.cmd].rules[i].outcome = "matched"
      BY <1>1, <1>2, <3>1, <3>2, <3>3 DEF Explains
    <3>5. trace[p.cmd].rules[i] \in Elems(trace[p.cmd].rules)  BY DEF Elems
    <3> QED  BY <1>1, <3>1, <3>2, <3>3, <3>4, <3>5
  <2> QED  BY <2>2, <2>3
<1>6. V!IsVerdict(matched \cup failed, overall, overallReason)
  BY <1>4, <1>5, AtReturn DEF TInv
<1>7. ASSUME NEW c \in DOMAIN trace
      PROVE  /\ {trace[c].rules[i].rule : i \in DOMAIN trace[c].rules}
                  = {r \in DOMAIN rules : appliesTo(rules[r], tool)}
             /\ \A i, j \in DOMAIN trace[c].rules :
                  i < j => trace[c].rules[i].rule < trace[c].rules[j].rule
  BY <1>2, <1>3 DEF Explains
<1> HIDE DEF matched, failed
<1> QED  BY <1>1, <1>6, <1>7 DEF TraceExplainsVerdict, matched, failed

\* EvaluateTrace's trace by itself gives its verdict, for every config and every list of
\* commands (trace.go:43-46).
THEOREM TraceIsComplete == Spec => []TraceExplainsVerdict
<1>1. TInv => TraceExplainsVerdict
  BY TraceTellsFired DEF TInv, IInv, ReturnedOK, TraceExplainsVerdict
<1>2. Init => TInv  BY InitIInv, TraceInit DEF TInv
<1> QED  BY <1>1, <1>2, TInvStep, PTL DEF Spec

--------------------------------------------------------------------------------
(* Except clauses. *)

\* There is always a reverse table to consult, and what it gives is TRUE or FALSE.
LEMMA SomeResult ==
  ASSUME NEW s, NEW d
  PROVE  matchSpec(s, d) # {} /\ matchSpec(s, d) \subseteq BOOLEAN
<1> DEFINE aliases == s.flagAliases
           alts == UNION {aliases[c] : c \in DOMAIN aliases}
           rev == [a \in alts |-> CHOOSE c \in DOMAIN aliases : a \in aliases[c]]
<1>1. \A a \in alts : rev[a] \in DOMAIN aliases /\ a \in aliases[rev[a]]  OBVIOUS
<1>2. rev \in buildReverseAliases(aliases)  BY <1>1 DEF buildReverseAliases
<1> HIDE DEF rev
<1>3. matchSpecWith(s, d, rev, rev) \in matchSpec(s, d)  BY <1>2 DEF matchSpec
<1>4. \A f, v : matchSpecWith(s, d, f, v) \in BOOLEAN  BY DEF matchSpecWith
<1> QED  BY <1>3, <1>4 DEF matchSpec

\* A clause about positional arguments does not match a command without any.
LEMMA NothingToMatch ==
  ASSUME NEW s, NEW d, d.args = << >>, s.glob.mode # "nil" \/ s.regex.mode # "nil"
  PROVE  matchSpec(s, d) = {FALSE}
<1>1. Elems(d.args) = {}  BY DEF Elems
<1>2. \A g : g.mode # "nil" => ~evalGlobMatch(g, {})  BY DEF evalGlobMatch
<1>3. ASSUME NEW f, NEW v PROVE ~matchSpecWith(s, d, f, v)
  BY <1>1, <1>2 DEF matchSpecWith, matchRegex
<1>4. TRUE \notin matchSpec(s, d)
  <2>1. \A x : x \in matchSpec(s, d) =>
          \E f \in buildReverseAliases(s.flagAliases), v \in buildReverseAliases(s.flagAliases) :
             x = matchSpecWith(s, d, f, v)
    BY DEF matchSpec
  <2> QED  BY <1>3, <2>1
<1> QED  BY <1>4, SomeResult

LEMMA ExceptionNeedsArguments ==
  ASSUME NEW r, NEW d, d.args = << >>, matchSpec(r.match, d) = {TRUE},
         \A e \in r.except : e.glob.mode # "nil" \/ e.regex.mode # "nil"
  PROVE  evalRule(r, d) = {"matched"}
<1>1. exceptResults(r, d) = {FALSE}
  <2>1. \A e \in r.except : matchSpec(e, d) = {FALSE}  BY NothingToMatch
  <2> QED  BY <2>1 DEF exceptResults
<1> QED  BY <1>1 DEF evalRule, Outcome

\* Whatever the rules and the commands, a rule that matches a command without arguments
\* takes effect, unless its except clause asks nothing of the arguments
\* (evaluate.go:77-109, match.go:193-195).
THEOREM ExceptionsNeedArguments == Spec => []NoVacuousException
<1>1. IInv => NoVacuousException
  <2>1. SUFFICES ASSUME IInv, NEW c \in 1 .. ci - 1, NEW r \in DOMAIN rules,
                        appliesTo(rules[r], tool), cmds[c].args = << >>,
                        matchSpec(rules[r].match, cmds[c]) = {TRUE},
                        \A e \in rules[r].except : e.glob.mode # "nil" \/ e.regex.mode # "nil"
                 PROVE  [cmd |-> c, rule |-> r] \in fired
    BY DEF NoVacuousException
  <2>2. c \in DOMAIN cmds /\ c < ci
    <3>1. ci \in 1 .. Len(cmds) + 1 /\ Len(cmds) \in Nat /\ DOMAIN cmds = 1 .. Len(cmds)
      BY <2>1, Positions DEF IInv, TypeOK
    <3> QED  BY <3>1
  <2>3. evalRule(rules[r], cmds[c]) = {"matched"}  BY <2>1, ExceptionNeedsArguments
  <2>4. PICK p : p = [cmd |-> c, rule |-> r]  OBVIOUS
  <2>5. p.cmd = c /\ p.rule = r  BY <2>4
  <2>6. V!MustFire(p)  BY <2>1, <2>2, <2>3, <2>5 DEF V!MustFire, V!Applies
  <2>7. Passed(p)  BY <2>2, <2>5 DEF Passed
  <2>8. \A k \in DOMAIN cmds, s \in DOMAIN rules :
          LET q == [cmd |-> k, rule |-> s] IN Passed(q) /\ V!MustFire(q) => q \in fired
    BY <2>1 DEF IInv, NothingMissed
  <2> QED  BY <2>2, <2>4, <2>6, <2>7, <2>8
<1> QED  BY <1>1, IInvAlways, PTL
================================================================================
