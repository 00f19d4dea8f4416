---------------------------- MODULE RuleLoadProofs -----------------------------
(* Proofs about RuleLoad: for every set of files, a config that loads says what  *)
(* its file says, and a load fails exactly when something in the file is wrong.  *)
EXTENDS RuleLoad, SequenceTheorems, TLAPS

--------------------------------------------------------------------------------
(* Lists *)

LEMMA Lists ==
  ASSUME NEW s, IsList(s)
  PROVE  /\ DOMAIN s = 1 .. Len(s) /\ Len(s) \in Nat
         /\ s = << >> <=> DOMAIN s = {}
         /\ s = << >> <=> Elems(s) = {}
BY DEF IsList, Elems

\* What becomes of each item in turn.
LEMMA Mapped ==
  ASSUME NEW s, IsList(s), NEW V, NEW t, t \in [DOMAIN s -> V]
  PROVE  t = << >> <=> s = << >>
<1>1. DOMAIN s = 1 .. Len(s) /\ Len(s) \in Nat
  BY Lists
<1>2. t \in Seq(V)
  BY <1>1
<1>3. t = << >> <=> Len(t) = 0
  BY <1>2
<1>4. Len(t) = Len(s)
  BY <1>1, <1>2
<1> QED
  BY <1>1, <1>3, <1>4, Lists

LEMMA Singleton ==
  ASSUME NEW v
  PROVE  <<v>> # << >> /\ Elems(<<v>>) = {v}
BY DEF Elems

--------------------------------------------------------------------------------
(* Paths *)

\* Decoding a node gives the paths that are written in it, in the shapes the file may
\* have, and the checks on the paths pass exactly when nothing is wrong with the node.
Decodable(n) == UnmarshalYAML(n).ok
Paths(n) == UnmarshalYAML(n).paths

Flat(n) == n.kind = "sequence" /\ \A i \in DOMAIN n.content : n.content[i].kind = "scalar"
Nested(n) ==
  /\ n.kind = "sequence"
  /\ \A i \in DOMAIN n.content :
       /\ n.content[i].kind = "sequence"
       /\ \A j \in DOMAIN n.content[i].content : n.content[i].content[j].kind = "scalar"

LEMMA NoNode ==
  /\ Absent.kind = "absent" /\ Absent.content = << >>
  /\ EmptyList.kind = "sequence" /\ EmptyList.content = << >>
BY DEF Absent, EmptyList

\* UnmarshalYAML by the three shapes it takes.
LEMMA Shapes ==
  ASSUME NEW n, IsNode(n)
  PROVE  /\ n.kind = "absent" => Decodable(n) /\ Paths(n) = << >> /\ n.content = << >>
         /\ Flat(n) => /\ Decodable(n)
                       /\ Paths(n) = [i \in DOMAIN n.content |-> <<n.content[i].value>>]
         /\ Nested(n) /\ ~Flat(n) =>
              /\ Decodable(n)
              /\ Paths(n) = [i \in DOMAIN n.content |->
                               [j \in DOMAIN n.content[i].content |-> n.content[i].content[j].value]]
         /\ n.kind # "absent" /\ ~Flat(n) /\ ~Nested(n) => ~Decodable(n)
<1> DEFINE values(m) == [j \in DOMAIN m.content |-> m.content[j].value]
<1>1. CASE n \in {Absent, EmptyList}
  <2>0. n.content = << >>
    BY <1>1, NoNode
  <2>1. n.content = << >> /\ DOMAIN n.content = {}
    BY <2>0
  <2>2. Decodable(n) /\ Paths(n) = << >>
    BY <1>1 DEF Decodable, Paths, UnmarshalYAML
  <2>3. \A e : [i \in DOMAIN n.content |-> <<n.content[i].value>>] = << >>
    BY <2>1
  <2>4. n.kind # "absent" => Flat(n)
    BY <1>1, <2>1, NoNode DEF Flat
  <2> QED
    BY <2>1, <2>2, <2>3, <2>4
<1>2. CASE n \notin {Absent, EmptyList}
  <2>1. n.kind # "absent"
    BY <1>2 DEF IsNode
  <2>2. CASE Flat(n)
    BY <1>2, <2>1, <2>2 DEF Flat, Nested, Decodable, Paths, UnmarshalYAML
  <2>3. CASE ~Flat(n) /\ Nested(n)
    BY <1>2, <2>1, <2>3 DEF Flat, Nested, Decodable, Paths, UnmarshalYAML, Elems
  <2>4. CASE ~Flat(n) /\ ~Nested(n)
    BY <1>2, <2>1, <2>4 DEF Flat, Nested, Decodable, Paths, UnmarshalYAML, Elems
  <2> QED
    BY <2>1, <2>2, <2>3, <2>4
<1> QED
  BY <1>1, <1>2

LEMMA PathsAsWritten ==
  ASSUME NEW n, IsNode(n), Decodable(n)
  PROVE  /\ Elems(Paths(n)) = PathsWritten(n)
         /\ Paths(n) # << >> <=> Elems(n.content) # {}
         /\ checkPaths(Paths(n)) <=> ~BrokenPaths(n)
<1>1. n.kind = "absent" \/ Flat(n) \/ (Nested(n) /\ ~Flat(n))
  BY Shapes
<1>2. DOMAIN n.content = 1 .. Len(n.content) /\ Len(n.content) \in Nat
  BY Lists DEF IsNode
<1>3. CASE n.kind = "absent"
  <2>1. Paths(n) = << >> /\ n.content = << >>
    BY <1>3, Shapes
  <2>2. Elems(Paths(n)) = {} /\ Elems(n.content) = {} /\ PathsWritten(n) = {}
    BY <2>1 DEF Elems, PathsWritten
  <2> QED
    BY <2>1, <2>2, <1>3 DEF checkPaths, BrokenPaths
<1>4. CASE Flat(n)
  <2>1. Paths(n) = [i \in DOMAIN n.content |-> <<n.content[i].value>>]
    BY <1>4, Shapes
  <2>2. Elems(Paths(n)) = {<<n.content[i].value>> : i \in DOMAIN n.content}
    BY <2>1 DEF Elems
  <2>3. PathsWritten(n) = {<<n.content[i].value>> : i \in DOMAIN n.content}
    BY <1>4 DEF Flat, PathsWritten, Elems
  <2>4. Paths(n) # << >> <=> Elems(n.content) # {}
    <3>1. Paths(n) \in [DOMAIN n.content -> {<<n.content[i].value>> : i \in DOMAIN n.content}]
      BY <2>1
    <3> QED
      BY <3>1, Mapped, Lists DEF IsNode
  <2>5. checkPaths(Paths(n)) <=> \A i \in DOMAIN n.content : n.content[i].value # ""
    BY <2>2, Singleton DEF checkPaths
  <2>6. "" \in UNION {Elems(p) : p \in PathsWritten(n)} <=> \E i \in DOMAIN n.content : n.content[i].value = ""
    <3>1. "" \in UNION {Elems(p) : p \in PathsWritten(n)} <=> \E p \in PathsWritten(n) : "" \in Elems(p)
      OBVIOUS
    <3>2. (\E p \in PathsWritten(n) : "" \in Elems(p))
            <=> \E i \in DOMAIN n.content : "" \in Elems(<<n.content[i].value>>)
      BY <2>3
    <3>3. \A i \in DOMAIN n.content : "" \in Elems(<<n.content[i].value>>) <=> n.content[i].value = ""
      <4> TAKE i \in DOMAIN n.content
      <4> DEFINE v == n.content[i].value
      <4>1. Elems(<<v>>) = {v}
        BY Singleton
      <4> QED
        BY <4>1
    <3> QED
      BY <3>1, <3>2, <3>3
  <2>7. ~\E m \in Elems(n.content) :
            \/ m.kind \notin {"scalar", "sequence"}
            \/ m.kind # n.content[1].kind
            \/ m.kind = "sequence" /\ (m.content = << >> \/ \E v \in Elems(m.content) : v.kind # "scalar")
    <3>1. \A i \in DOMAIN n.content : 1 \in DOMAIN n.content
      BY <1>2
    <3> QED
      BY <1>4, <3>1 DEF Flat, Elems
  <2>8. n.kind = "sequence"
    BY <1>4 DEF Flat
  <2>9. BrokenPaths(n) <=> "" \in UNION {Elems(p) : p \in PathsWritten(n)}
    BY <2>7, <2>8 DEF BrokenPaths
  <2> QED
    BY <2>2, <2>3, <2>4, <2>5, <2>6, <2>9
<1>5. CASE Nested(n) /\ ~Flat(n)
  <2> DEFINE values(m) == [j \in DOMAIN m.content |-> m.content[j].value]
  <2>1. Paths(n) = [i \in DOMAIN n.content |-> values(n.content[i])]
    BY <1>5, Shapes
  <2>2. Elems(Paths(n)) = {values(n.content[i]) : i \in DOMAIN n.content}
    BY <2>1 DEF Elems
  <2>3. PathsWritten(n) = {values(n.content[i]) : i \in DOMAIN n.content}
    BY <1>5 DEF Nested, PathsWritten, Elems
  <2>4. Paths(n) # << >> <=> Elems(n.content) # {}
    <3>1. Paths(n) \in [DOMAIN n.content -> {values(n.content[i]) : i \in DOMAIN n.content}]
      BY <2>1
    <3> QED
      BY <3>1, Mapped, Lists DEF IsNode
  <2>5. \A i \in DOMAIN n.content : values(n.content[i]) = << >> <=> n.content[i].content = << >>
    <3> TAKE i \in DOMAIN n.content
    <3>1. IsList(n.content[i].content)
      BY DEF IsNode
    <3>2. values(n.content[i]) \in [DOMAIN n.content[i].content -> {n.content[i].content[j].value : j \in DOMAIN n.content[i].content}]
      OBVIOUS
    <3> QED
      BY <3>1, <3>2, Mapped
  <2>6. checkPaths(Paths(n)) <=>
          /\ \A i \in DOMAIN n.content : n.content[i].content # << >>
          /\ ~("" \in UNION {Elems(p) : p \in PathsWritten(n)})
    BY <2>2, <2>3, <2>5 DEF checkPaths
  <2>7. (\E m \in Elems(n.content) :
            \/ m.kind \notin {"scalar", "sequence"}
            \/ m.kind # n.content[1].kind
            \/ m.kind = "sequence" /\ (m.content = << >> \/ \E v \in Elems(m.content) : v.kind # "scalar"))
        <=> \E i \in DOMAIN n.content : n.content[i].content = << >>
    <3>1. \A i \in DOMAIN n.content : 1 \in DOMAIN n.content
      BY <1>2
    <3>2. \A i \in DOMAIN n.content :
            /\ n.content[i].kind = "sequence" /\ n.content[1].kind = "sequence"
            /\ \A v \in Elems(n.content[i].content) : v.kind = "scalar"
      BY <1>5, <3>1 DEF Nested, Elems
    <3> QED
      BY <3>2 DEF Elems
  <2>8. n.kind = "sequence"
    BY <1>5 DEF Nested
  <2>9. BrokenPaths(n) <=> \/ \E i \in DOMAIN n.content : n.content[i].content = << >>
                           \/ "" \in UNION {Elems(p) : p \in PathsWritten(n)}
    BY <2>7, <2>8 DEF BrokenPaths
  <2> QED
    BY <2>2, <2>3, <2>4, <2>6, <2>9
<1> QED
  BY <1>1, <1>3, <1>4, <1>5

\* A node that cannot be decoded is a mistake in the file.
LEMMA UndecodableIsBroken ==
  ASSUME NEW n, IsNode(n), ~Decodable(n)
  PROVE  BrokenPaths(n)
<1>1. n.kind # "absent" /\ ~Flat(n) /\ ~Nested(n)
  BY Shapes
<1>2. CASE n.kind # "sequence"
  BY <1>1, <1>2 DEF BrokenPaths
<1>3. CASE n.kind = "sequence"
  <2>0. DOMAIN n.content = 1 .. Len(n.content) /\ Len(n.content) \in Nat
    BY Lists DEF IsNode
  <2>1. PICK i \in DOMAIN n.content : n.content[i].kind # "scalar"
    BY <1>1, <1>3 DEF Flat
  <2>2. PICK j \in DOMAIN n.content :
          \/ n.content[j].kind # "sequence"
          \/ \E k \in DOMAIN n.content[j].content : n.content[j].content[k].kind # "scalar"
    BY <1>1, <1>3 DEF Nested
  <2>3. n.content[i] \in Elems(n.content) /\ n.content[j] \in Elems(n.content)
    BY DEF Elems
  <2>4. SUFFICES ASSUME ~BrokenPaths(n) PROVE FALSE
    OBVIOUS
  <2>5. \A m \in Elems(n.content) : /\ m.kind \in {"scalar", "sequence"} /\ m.kind = n.content[1].kind
                                    /\ m.kind = "sequence" => \A v \in Elems(m.content) : v.kind = "scalar"
    BY <2>4 DEF BrokenPaths
  <2>6. n.content[j].kind = "sequence"
    BY <2>1, <2>3, <2>5
  <2> QED
    BY <2>2, <2>3, <2>5, <2>6 DEF Elems
<1> QED
  BY <1>2, <1>3

--------------------------------------------------------------------------------
(* Clauses *)

\* A clause after the decoder, and after the checks have compiled its regexes.
LEMMA Decoded ==
  ASSUME NEW c, DOMAIN c = ClauseFields
  PROVE  LET d == decodeClause(c)
         IN  /\ DOMAIN d = ClauseFields
             /\ d.command = c.command /\ d.flagsAll = c.flagsAll /\ d.flagsAny = c.flagsAny
             /\ d.flagAliases = c.flagAliases /\ d.flagValues = c.flagValues
             /\ d.glob = c.glob /\ d.regex = c.regex
             /\ d.subcommandsAny = Paths(c.subcommandsAny)
             /\ d.subcommandsAll = Paths(c.subcommandsAll)
BY DEF decodeClause, ClauseFields, Paths

LEMMA CompiledFields ==
  ASSUME NEW c, DOMAIN c = ClauseFields,
         \A i \in DOMAIN c.flagValues : DOMAIN c.flagValues[i] = {"name", "glob", "regex"}
  PROVE  LET d == compileClause(c)
         IN  /\ d.command = c.command /\ d.flagsAll = c.flagsAll /\ d.flagsAny = c.flagsAny
             /\ d.flagAliases = c.flagAliases
             /\ d.subcommandsAny = c.subcommandsAny /\ d.subcommandsAll = c.subcommandsAll
             /\ d.glob = c.glob /\ d.regex = Compiled(c.regex)
             /\ DOMAIN d.flagValues = DOMAIN c.flagValues
             /\ \A i \in DOMAIN c.flagValues :
                  /\ d.flagValues[i].name = c.flagValues[i].name
                  /\ d.flagValues[i].glob = c.flagValues[i].glob
                  /\ d.flagValues[i].regex = Compiled(c.flagValues[i].regex)
BY DEF compileClause, compileEntry, ClauseFields

LEMMA MatcherChecked ==
  ASSUME NEW m, NEW bad
  PROVE  validMatcher(m, bad) <=> ~BrokenMatcher(m, bad)
BY DEF validMatcher, BrokenMatcher

LEMMA EntryChecked ==
  ASSUME NEW e
  PROVE  validateFlagValueEntry(e) <=> ~BrokenEntry(e)
<1>1. {e.glob.mode, e.regex.mode} = {"nil"} <=> e.glob.mode = "nil" /\ e.regex.mode = "nil"
  OBVIOUS
<1> QED
  BY <1>1, MatcherChecked DEF validateFlagValueEntry, BrokenEntry

\* A glob that passes its checks, and a regex that passes and is compiled, accept what
\* their patterns accept.
LEMMA GlobAsWritten ==
  ASSUME NEW m, NEW bad, IsMatcher(m, bad), ~BrokenMatcher(m, bad)
  PROVE  globOf(m) = MatcherWritten(m)
<1>1. Elems(m.patterns) \subseteq DOMAIN Accepts
  <2>1. CASE m.mode = "nil"
    BY <2>1 DEF IsMatcher, Elems
  <2>2. CASE m.mode # "nil"
    BY <2>2 DEF IsMatcher, BrokenMatcher
  <2> QED
    BY <2>1, <2>2
<1>2. Elems(m.patterns) \cap DOMAIN Accepts = Elems(m.patterns)
  BY <1>1
<1> QED
  BY <1>2 DEF globOf, MatcherWritten

LEMMA RegexAsWritten ==
  ASSUME NEW m, NEW bad, IsMatcher(m, bad), ~BrokenMatcher(m, bad)
  PROVE  regexOf(Compiled(m)) = MatcherWritten(m)
<1>1. /\ Compiled(m).mode = m.mode /\ Compiled(m).patterns = m.patterns
      /\ Compiled(m).compiled <=> m.mode # "nil"
  BY DEF Compiled, IsMatcher
<1>2. CASE m.mode = "nil"
  <2>1. m.patterns = << >> /\ Elems(m.patterns) = {}
    BY <1>2 DEF IsMatcher, Elems
  <2>2. MatcherWritten(m) = [mode |-> "nil", accepts |-> {}]
    BY <1>2, <2>1 DEF MatcherWritten
  <2> QED
    BY <1>1, <1>2, <2>2 DEF regexOf
<1>3. CASE m.mode # "nil"
  <2>1. globOf(Compiled(m)) = globOf(m)
    BY <1>1 DEF globOf
  <2>2. globOf(m).accepts = MatcherWritten(m).accepts
    BY GlobAsWritten
  <2>3. regexOf(Compiled(m)) = [mode |-> m.mode, accepts |-> globOf(m).accepts]
    BY <1>1, <1>3, <2>1 DEF regexOf
  <2> QED
    BY <2>2, <2>3 DEF MatcherWritten
<1> QED
  BY <1>2, <1>3

\* When no flag has two canonical names, the names of two entries are found to be one
\* flag exactly when flag_aliases says they are.
LEMMA OneFlag ==
  ASSUME NEW aliases, Plain(aliases), NEW rev \in buildReverseAliases(aliases), NEW a, NEW b
  PROVE  canonicalName(a, rev) = canonicalName(b, rev) <=> SameFlag(a, b, aliases)
<1> DEFINE alts == UNION {aliases[c] : c \in DOMAIN aliases}
<1>1. rev \in [alts -> DOMAIN aliases] /\ \A x \in alts : x \in aliases[rev[x]]
  BY DEF buildReverseAliases
<1>2. \A c \in DOMAIN aliases : \A x \in spellings(c, aliases) : canonicalName(x, rev) = c
  <2> SUFFICES ASSUME NEW c \in DOMAIN aliases, NEW x \in spellings(c, aliases)
               PROVE  canonicalName(x, rev) = c
    OBVIOUS
  <2>1. CASE x \in aliases[c]
    <3>1. x \in alts /\ x \in DOMAIN rev
      BY <2>1, <1>1
    <3>2. rev[x] \in DOMAIN aliases /\ x \in aliases[rev[x]]
      BY <3>1, <1>1
    <3>3. rev[x] = c
      BY <3>2, <2>1 DEF Plain, Unambiguous
    <3> QED
      BY <3>1, <3>3 DEF canonicalName
  <2>2. CASE x \notin aliases[c]
    <3>1. x = c
      BY <2>2 DEF spellings
    <3>2. \A d \in DOMAIN aliases : x \notin aliases[d]
      BY <3>1, <2>2 DEF Plain
    <3> QED
      BY <3>1, <3>2, <1>1 DEF canonicalName
  <2> QED
    BY <2>1, <2>2
<1>3. \A x : x \in DOMAIN rev => canonicalName(x, rev) \in DOMAIN aliases
                                /\ x \in spellings(canonicalName(x, rev), aliases)
  BY <1>1 DEF canonicalName, spellings
<1>4. \A x : x \notin DOMAIN rev => canonicalName(x, rev) = x
  BY DEF canonicalName
<1>5. \A c : c \in spellings(c, aliases)
  BY DEF spellings
<1> QED
  BY <1>2, <1>3, <1>4, <1>5 DEF SameFlag

\* What the checks of a match or an except clause have seen to.
Sound(c) ==
  /\ ~BrokenMatcher(c.glob, BadGlobs) /\ ~BrokenMatcher(c.regex, BadRegexes)
  /\ \A e \in Elems(c.flagValues) : ~BrokenEntry(e)
  /\ Plain(c.flagAliases) => ~AskedTwice(c)

LEMMA ClauseChecked ==
  ASSUME NEW c, NEW ok \in validateMatchSpec(c)
  PROVE  /\ ok => Sound(c)
         /\ ~ok /\ Plain(c.flagAliases) => ~Sound(c)
<1>1. PICK rev \in buildReverseAliases(c.flagAliases) :
        ok = (/\ validMatcher(c.glob, BadGlobs) /\ validMatcher(c.regex, BadRegexes)
              /\ \A i \in DOMAIN c.flagValues : validateFlagValueEntry(c.flagValues[i])
              /\ ~Duplicates(c.flagValues, rev))
  BY DEF validateMatchSpec
<1>2. (\A i \in DOMAIN c.flagValues : validateFlagValueEntry(c.flagValues[i]))
        <=> \A e \in Elems(c.flagValues) : ~BrokenEntry(e)
  BY EntryChecked DEF Elems
<1>3. Plain(c.flagAliases) => (Duplicates(c.flagValues, rev) <=> AskedTwice(c))
  BY OneFlag DEF Duplicates, AskedTwice
<1> QED
  BY <1>1, <1>2, <1>3, MatcherChecked DEF Sound

\* A clause that has passed its checks, and whose verb paths were read, tests what is
\* written in the file.
LEMMA SpecAsWritten ==
  ASSUME NEW c, IsClause(c), Sound(c), Decodable(c.subcommandsAny), Decodable(c.subcommandsAll)
  PROVE  specOf(compileClause(decodeClause(c))) = Written(c)
<1> DEFINE d == decodeClause(c)
           k == compileClause(d)
           Value(e) == [name |-> e.name, glob |-> globOf(e.glob), regex |-> regexOf(e.regex)]
           Meant(e) == [name |-> e.name, glob |-> MatcherWritten(e.glob), regex |-> MatcherWritten(e.regex)]
<1>1. /\ DOMAIN d = ClauseFields
      /\ d.command = c.command /\ d.flagsAll = c.flagsAll /\ d.flagsAny = c.flagsAny
      /\ d.flagAliases = c.flagAliases /\ d.flagValues = c.flagValues
      /\ d.glob = c.glob /\ d.regex = c.regex
      /\ d.subcommandsAny = Paths(c.subcommandsAny) /\ d.subcommandsAll = Paths(c.subcommandsAll)
  BY Decoded DEF IsClause
<1>2. \A i \in DOMAIN c.flagValues :
        /\ c.flagValues[i] \in Elems(c.flagValues)
        /\ DOMAIN c.flagValues[i] = {"name", "glob", "regex"}
        /\ IsMatcher(c.flagValues[i].glob, BadGlobs) /\ IsMatcher(c.flagValues[i].regex, BadRegexes)
        /\ ~BrokenMatcher(c.flagValues[i].glob, BadGlobs)
        /\ ~BrokenMatcher(c.flagValues[i].regex, BadRegexes)
  BY DEF IsClause, Elems, Sound, BrokenEntry
<1>3. /\ k.command = c.command /\ k.flagsAll = c.flagsAll /\ k.flagsAny = c.flagsAny
      /\ k.flagAliases = c.flagAliases
      /\ k.subcommandsAny = Paths(c.subcommandsAny) /\ k.subcommandsAll = Paths(c.subcommandsAll)
      /\ k.glob = c.glob /\ k.regex = Compiled(c.regex)
      /\ DOMAIN k.flagValues = DOMAIN c.flagValues
      /\ \A i \in DOMAIN c.flagValues :
           /\ k.flagValues[i].name = c.flagValues[i].name
           /\ k.flagValues[i].glob = c.flagValues[i].glob
           /\ k.flagValues[i].regex = Compiled(c.flagValues[i].regex)
  <2> HIDE DEF d
  <2>1. \A i \in DOMAIN d.flagValues : DOMAIN d.flagValues[i] = {"name", "glob", "regex"}
    BY <1>1, <1>2
  <2> QED
    BY <1>1, <2>1, CompiledFields
<1>4. /\ Elems(k.subcommandsAny) = PathsWritten(c.subcommandsAny)
      /\ Elems(k.subcommandsAll) = PathsWritten(c.subcommandsAll)
  <2> HIDE DEF k
  <2> QED
    BY <1>3, PathsAsWritten DEF IsClause
<1>5. globOf(k.glob) = MatcherWritten(c.glob) /\ regexOf(k.regex) = MatcherWritten(c.regex)
  <2> HIDE DEF k
  <2> QED
    BY <1>3, GlobAsWritten, RegexAsWritten DEF IsClause, Sound
<1>6. {Value(e) : e \in Elems(k.flagValues)} = {Meant(e) : e \in Elems(c.flagValues)}
  <2> HIDE DEF k
  <2>1. \A i \in DOMAIN c.flagValues : Value(k.flagValues[i]) = Meant(c.flagValues[i])
    BY <1>2, <1>3, GlobAsWritten, RegexAsWritten
  <2>2. {Value(e) : e \in Elems(k.flagValues)} = {Value(k.flagValues[i]) : i \in DOMAIN k.flagValues}
    BY DEF Elems
  <2>3. {Meant(e) : e \in Elems(c.flagValues)} = {Meant(c.flagValues[i]) : i \in DOMAIN c.flagValues}
    BY DEF Elems
  <2>4. {Value(k.flagValues[i]) : i \in DOMAIN k.flagValues} = {Meant(c.flagValues[i]) : i \in DOMAIN c.flagValues}
    <3> HIDE DEF Value, Meant
    <3>1. DOMAIN k.flagValues = DOMAIN c.flagValues
      BY <1>3
    <3> QED
      BY <2>1, <3>1
  <2> QED
    BY <2>2, <2>3, <2>4
<1> SUFFICES specOf(k) = Written(c)
  OBVIOUS
<1> HIDE DEF k
<1> QED
  BY <1>3, <1>4, <1>5, <1>6 DEF specOf, Written

--------------------------------------------------------------------------------
(* Rules *)

RuleFields == {"name", "tool", "action", "match", "except"}

LEMMA RuleDecoded ==
  ASSUME NEW r, DOMAIN r = RuleFields
  PROVE  LET d == decodeRule(r)
         IN  /\ DOMAIN d = RuleFields
             /\ d.name = r.name /\ d.tool = r.tool /\ d.action = r.action
             /\ d.match = decodeClause(r.match)
             /\ d.except = {decodeClause(c) : c \in r.except}
BY DEF decodeRule, RuleFields

\* What the check of the verb paths has seen to.
Addressed(c, tool) ==
  /\ ~BrokenPaths(c.subcommandsAny) /\ ~BrokenPaths(c.subcommandsAll)
  /\ ~(tool # "Bash" /\ Elems(c.subcommandsAny.content) \cup Elems(c.subcommandsAll.content) # {})

\* The check of a rule's verb paths reads them in memory, where the compiled clauses
\* keep them as they were decoded.
LEMMA PathsChecked ==
  ASSUME NEW r, NEW w, IsRule(w), \A n \in Nodes(w) : Decodable(n),
         r.tool = w.tool, r.match = compileClause(decodeClause(w.match)),
         r.except = {compileClause(decodeClause(c)) : c \in w.except}
  PROVE  validateSubcommands(r) <=> \A c \in Clauses(w) : Addressed(c, w.tool)
<1> DEFINE k(c) == compileClause(decodeClause(c))
<1>1. \A c \in Clauses(w) : /\ IsClause(c) /\ IsNode(c.subcommandsAny) /\ IsNode(c.subcommandsAll)
                            /\ Decodable(c.subcommandsAny) /\ Decodable(c.subcommandsAll)
  BY DEF IsRule, IsClause, Clauses, Nodes
<1>2. \A c \in Clauses(w) : /\ k(c).subcommandsAny = Paths(c.subcommandsAny)
                            /\ k(c).subcommandsAll = Paths(c.subcommandsAll)
  <2> SUFFICES ASSUME NEW c \in Clauses(w)
               PROVE  /\ k(c).subcommandsAny = Paths(c.subcommandsAny)
                      /\ k(c).subcommandsAll = Paths(c.subcommandsAll)
    OBVIOUS
  <2> DEFINE d == decodeClause(c)
  <2>1. /\ DOMAIN d = ClauseFields /\ d.flagValues = c.flagValues
        /\ d.subcommandsAny = Paths(c.subcommandsAny) /\ d.subcommandsAll = Paths(c.subcommandsAll)
    BY <1>1, Decoded DEF IsClause
  <2>2. \A i \in DOMAIN c.flagValues : DOMAIN c.flagValues[i] = {"name", "glob", "regex"}
    BY <1>1 DEF IsClause, Elems
  <2> SUFFICES /\ compileClause(d).subcommandsAny = Paths(c.subcommandsAny)
               /\ compileClause(d).subcommandsAll = Paths(c.subcommandsAll)
    OBVIOUS
  <2> HIDE DEF d
  <2> QED
    BY <2>1, <2>2, CompiledFields
<1> HIDE DEF k
<1>3. {r.match} \cup r.except = {k(c) : c \in Clauses(w)}
  BY DEF Clauses, k
<1>4. hasSubcommand(r) <=>
        \E c \in Clauses(w) : Elems(c.subcommandsAny.content) \cup Elems(c.subcommandsAll.content) # {}
  <2>1. hasSubcommand(r) <=>
          \E c \in Clauses(w) : Paths(c.subcommandsAny) # << >> \/ Paths(c.subcommandsAll) # << >>
    BY <1>2, <1>3 DEF hasSubcommand
  <2>2. \A c \in Clauses(w) :
          /\ Paths(c.subcommandsAny) # << >> <=> Elems(c.subcommandsAny.content) # {}
          /\ Paths(c.subcommandsAll) # << >> <=> Elems(c.subcommandsAll.content) # {}
    BY <1>1, PathsAsWritten
  <2> QED
    BY <2>1, <2>2
<1>5. (\A c \in {r.match} \cup r.except : checkPaths(c.subcommandsAny) /\ checkPaths(c.subcommandsAll))
        <=> \A c \in Clauses(w) : ~BrokenPaths(c.subcommandsAny) /\ ~BrokenPaths(c.subcommandsAll)
  <2>1. \A c \in Clauses(w) :
          /\ checkPaths(Paths(c.subcommandsAny)) <=> ~BrokenPaths(c.subcommandsAny)
          /\ checkPaths(Paths(c.subcommandsAll)) <=> ~BrokenPaths(c.subcommandsAll)
    BY <1>1, PathsAsWritten
  <2> QED
    BY <1>2, <1>3, <2>1
<1> QED
  BY <1>4, <1>5 DEF validateSubcommands, Addressed

\* The mistakes of a clause, by the checks that find them.
LEMMA BrokenByCheck ==
  ASSUME NEW c, NEW tool, Plain(c.flagAliases)
  PROVE  BrokenClause(c, tool) \/ AskedTwice(c) <=> ~Sound(c) \/ ~Addressed(c, tool)
BY DEF BrokenClause, Sound, Addressed

--------------------------------------------------------------------------------
(* The load *)

InTheLoop == {"fields", "match", "except", "subcommands"}

MatchDone(i) == i < ri \/ (i = ri /\ step \in {"except", "subcommands"})
ExceptDone(i) == i < ri \/ (i = ri /\ step = "subcommands")

InMemory(c, done) == IF done THEN compileClause(decodeClause(c)) ELSE decodeClause(c)

\* The rule in memory is the rule of the file, as far as the load has come with it.
Holds(i) ==
  LET r == config[i]
      w == file.rules[i]
  IN  /\ DOMAIN r = RuleFields
      /\ r.name = w.name /\ r.tool = w.tool /\ r.action = w.action
      /\ r.match = InMemory(w.match, MatchDone(i))
      /\ r.except = {InMemory(c, ExceptDone(i)) : c \in w.except}

HeaderOk == file.version = 1 /\ file.maxDepth >= 0 /\ file.cliSpecsOk

Named(w) == w.name # "" /\ w.tool # "" /\ w.action \in {"allow", "deny", "ask"}

\* What the checks that have passed say of the i-th rule of the file.
Passed(i) ==
  LET w == file.rules[i]
  IN  /\ i < ri \/ (i = ri /\ step # "fields") => Named(w)
      /\ MatchDone(i) => Sound(w.match)
      /\ ExceptDone(i) => \A c \in w.except : Sound(c)
      /\ i < ri => \A c \in Clauses(w) : Addressed(c, w.tool)

PlainFile == \A r \in Elems(file.rules) : \A c \in Clauses(r) : Plain(c.flagAliases)

LoadTypes ==
  /\ file \in Files
  /\ step \in {"decode", "header", "loaded", "error"} \cup InTheLoop
  /\ ri \in Nat /\ ri >= 1
  /\ step \in {"decode", "header"} => ri = 1

Copied ==
  step \notin {"decode", "error"} =>
    /\ file.decodes
    /\ \A i \in DOMAIN file.rules : \A n \in Nodes(file.rules[i]) : Decodable(n)
    /\ config = [i \in DOMAIN file.rules |-> config[i]]
    /\ \A i \in DOMAIN file.rules : Holds(i)

Checked ==
  /\ step \in InTheLoop => ri \in DOMAIN file.rules
  /\ step = "loaded" => ri > Len(file.rules)
  /\ step \in InTheLoop \cup {"loaded"} => HeaderOk /\ \A i \in DOMAIN file.rules : Passed(i)

Blamed == step = "error" /\ PlainFile => Broken(file)

LoadInv == LoadTypes /\ Copied /\ Checked /\ Blamed

LEMMA SameLength ==
  ASSUME NEW s, IsList(s), NEW t, t = [i \in DOMAIN s |-> t[i]]
  PROVE  Len(t) = Len(s)
<1>1. DOMAIN s = 1 .. Len(s) /\ Len(s) \in Nat
  BY Lists
<1>2. t \in Seq({t[i] : i \in DOMAIN s}) /\ DOMAIN t = DOMAIN s
  BY <1>1
<1> QED
  BY <1>1, <1>2

LEMMA FileFacts ==
  ASSUME file \in Files
  PROVE  /\ file.decodes \in BOOLEAN /\ file.cliSpecsOk \in BOOLEAN /\ file.maxDepth \in Int
         /\ IsList(file.rules)
         /\ DOMAIN file.rules = 1 .. Len(file.rules) /\ Len(file.rules) \in Nat
         /\ \A i \in DOMAIN file.rules :
              /\ IsRule(file.rules[i]) /\ file.rules[i] \in Elems(file.rules)
<1>1. IsList(file.rules)
  BY FilesAssumption
<1> QED
  BY <1>1, Lists, FilesAssumption DEF Elems

\* A load that fails, wherever it is, has only to be the file's fault.
LEMMA Fails ==
  ASSUME LoadInv, file' = file, step' = "error", ri' \in Nat, ri' >= 1, PlainFile => Broken(file)
  PROVE  LoadInv'
BY DEF LoadInv, LoadTypes, Copied, Checked, Blamed, InTheLoop, PlainFile

\* A mistake in one rule is a mistake in the file.
LEMMA RuleBreaks ==
  ASSUME LoadInv, NEW i \in DOMAIN file.rules, PlainFile,
         \/ ~Named(file.rules[i])
         \/ \E c \in Clauses(file.rules[i]) : ~Sound(c) \/ ~Addressed(c, file.rules[i].tool)
  PROVE  Broken(file)
<1>1. file.rules[i] \in Elems(file.rules)
  BY DEF Elems
<1>2. CASE ~Named(file.rules[i])
  BY <1>1, <1>2 DEF Broken, Named
<1>3. CASE \E c \in Clauses(file.rules[i]) : ~Sound(c) \/ ~Addressed(c, file.rules[i].tool)
  <2>1. PICK c \in Clauses(file.rules[i]) : ~Sound(c) \/ ~Addressed(c, file.rules[i].tool)
    BY <1>3
  <2>2. BrokenClause(c, file.rules[i].tool) \/ AskedTwice(c)
    BY <1>1, <2>1, BrokenByCheck DEF PlainFile
  <2> QED
    BY <1>1, <2>2 DEF Broken
<1> QED
  BY <1>2, <1>3

LEMMA InitLoads == Init => LoadInv
BY DEF Init, LoadInv, LoadTypes, Copied, Checked, Blamed, InTheLoop

LEMMA DecodeKeeps == LoadInv /\ Decode => LoadInv'
<1> SUFFICES ASSUME LoadInv, Decode PROVE LoadInv'
  OBVIOUS
<1> USE DEF LoadInv
<1>1. step = "decode" /\ file' = file /\ ri' = ri /\ ri = 1 /\ file \in Files
  BY DEF Decode, Check, LoadTypes
<1>2. config' = [i \in DOMAIN file.rules |-> decodeRule(file.rules[i])]
  BY DEF Decode
<1>3. \/ step' = "header" /\ file.decodes
         /\ \A i \in DOMAIN file.rules : \A n \in Nodes(file.rules[i]) : Decodable(n)
      \/ step' = "error" /\ ~(file.decodes
         /\ \A i \in DOMAIN file.rules : \A n \in Nodes(file.rules[i]) : Decodable(n))
  BY DEF Decode, Check, Decodable
<1>4. CASE /\ step' = "header" /\ file.decodes
           /\ \A i \in DOMAIN file.rules : \A n \in Nodes(file.rules[i]) : Decodable(n)
  <2>1. LoadTypes' /\ Checked' /\ Blamed'
    BY <1>1, <1>4 DEF LoadTypes, Checked, Blamed, InTheLoop
  <2>2. \A i \in DOMAIN file.rules : Holds(i)'
    <3> SUFFICES ASSUME NEW i \in DOMAIN file.rules PROVE Holds(i)'
      OBVIOUS
    <3>1. ~(MatchDone(i))' /\ ~(ExceptDone(i))'
      <4>1. i >= 1 /\ i \in Nat
        BY <1>1, FileFacts
      <4> QED
        BY <1>1, <1>4, <4>1 DEF MatchDone, ExceptDone
    <3>2. config'[i] = decodeRule(file.rules[i])
      BY <1>2
    <3>3. DOMAIN file.rules[i] = RuleFields
      BY <1>1, FileFacts DEF IsRule, RuleFields
    <3> QED
      BY <1>1, <3>1, <3>2, <3>3, RuleDecoded DEF Holds, InMemory
  <2>3. config' = [i \in DOMAIN file'.rules |-> config'[i]]
    BY <1>1, <1>2
  <2>4. Copied'
    BY <1>1, <1>4, <2>2, <2>3 DEF Copied
  <2> QED
    BY <2>1, <2>4
<1>5. CASE /\ step' = "error"
           /\ ~(file.decodes
                /\ \A i \in DOMAIN file.rules : \A n \in Nodes(file.rules[i]) : Decodable(n))
  <2>1. PlainFile => Broken(file)
    <3> SUFFICES ASSUME PlainFile PROVE Broken(file)
      OBVIOUS
    <3>1. CASE ~file.decodes
      BY <3>1 DEF Broken
    <3>2. CASE file.decodes
      <4>1. PICK i \in DOMAIN file.rules : \E n \in Nodes(file.rules[i]) : ~Decodable(n)
        BY <1>5, <3>2
      <4>2. PICK c \in Clauses(file.rules[i]) : ~Decodable(c.subcommandsAny) \/ ~Decodable(c.subcommandsAll)
        BY <4>1 DEF Nodes, Clauses
      <4>3. IsNode(c.subcommandsAny) /\ IsNode(c.subcommandsAll)
        BY <1>1, FileFacts DEF IsRule, IsClause, Clauses
      <4>4. ~Addressed(c, file.rules[i].tool)
        BY <4>2, <4>3, UndecodableIsBroken DEF Addressed
      <4> QED
        BY <4>4, RuleBreaks
    <3> QED
      BY <3>1, <3>2
  <2> QED
    BY <1>1, <1>5, <2>1, Fails
<1> QED
  BY <1>3, <1>4, <1>5

\* The next rule, or the end of the load.
LEMMA NextRule ==
  ASSUME LoadInv, step \notin {"decode", "error"}, NEW i \in Nat, i >= 1
  PROVE  /\ i \in DOMAIN file.rules => AtRule(i) = "fields"
         /\ i \notin DOMAIN file.rules => AtRule(i) = "loaded" /\ i > Len(file.rules)
<1>1. file \in Files /\ config = [j \in DOMAIN file.rules |-> config[j]]
  BY DEF LoadInv, LoadTypes, Copied
<1>2. Len(config) = Len(file.rules)
  BY <1>1, FileFacts, SameLength
<1> QED
  BY <1>1, <1>2, FileFacts DEF AtRule

LEMMA HeaderKeeps == LoadInv /\ CheckHeader => LoadInv'
<1> SUFFICES ASSUME LoadInv, CheckHeader PROVE LoadInv'
  OBVIOUS
<1> USE DEF LoadInv
<1>1. step = "header" /\ file' = file /\ config' = config /\ ri' = ri /\ ri = 1 /\ file \in Files
  BY DEF CheckHeader, Check, LoadTypes
<1>2. (step' = AtRule(1) /\ HeaderOk) \/ (step' = "error" /\ ~HeaderOk)
  BY DEF CheckHeader, Check, HeaderOk
<1>3. CASE step' = AtRule(1) /\ HeaderOk
  <2>1. \/ step' = "fields" /\ 1 \in DOMAIN file.rules
        \/ step' = "loaded" /\ 1 \notin DOMAIN file.rules /\ 1 > Len(file.rules)
    BY <1>1, <1>3, NextRule
  <2>2. \A i \in DOMAIN file.rules : i \in Nat /\ i >= 1
    BY <1>1, FileFacts
  <2>3. LoadTypes' /\ Blamed'
    BY <1>1, <2>1 DEF LoadTypes, Blamed, InTheLoop
  <2>4. \A i \in DOMAIN file.rules : /\ (MatchDone(i))' = MatchDone(i)
                                     /\ (ExceptDone(i))' = ExceptDone(i)
    BY <1>1, <2>1 DEF MatchDone, ExceptDone
  <2>5. Copied'
    BY <1>1, <2>1, <2>4 DEF Copied, Holds
  <2>6. Checked'
    BY <1>1, <1>3, <2>1, <2>2 DEF Checked, InTheLoop, HeaderOk, Passed, MatchDone, ExceptDone
  <2> QED
    BY <2>3, <2>5, <2>6
<1>4. CASE step' = "error" /\ ~HeaderOk
  <2>1. file.maxDepth \in Int
    BY <1>1, FileFacts
  <2>2. file.version # 1 \/ file.maxDepth < 0 \/ ~file.cliSpecsOk
    BY <1>4, <2>1 DEF HeaderOk
  <2>3. Broken(file)
    BY <2>2 DEF Broken
  <2> QED
    BY <1>1, <1>4, <2>3, Fails
<1> QED
  BY <1>2, <1>3, <1>4

\* Where the loop is, and what is in memory there.
LEMMA AtRi ==
  ASSUME LoadInv, step \in InTheLoop
  PROVE  /\ file \in Files /\ ri \in DOMAIN file.rules /\ ri \in Nat /\ ri >= 1
         /\ ri \in DOMAIN config /\ IsRule(file.rules[ri])
         /\ \A n \in Nodes(file.rules[ri]) : Decodable(n)
         /\ Holds(ri) /\ Passed(ri)
         /\ \A i \in DOMAIN file.rules : Holds(i) /\ Passed(i) /\ i \in Nat
<1>1. file \in Files /\ ri \in DOMAIN file.rules /\ ri \in Nat /\ ri >= 1
  BY DEF LoadInv, LoadTypes, Checked
<1>2. config = [i \in DOMAIN file.rules |-> config[i]]
  BY DEF LoadInv, Copied, InTheLoop
<1> QED
  BY <1>1, <1>2, FileFacts DEF LoadInv, Copied, Checked, InTheLoop

LEMMA FieldsKeep == LoadInv /\ CheckFields => LoadInv'
<1> SUFFICES ASSUME LoadInv, CheckFields PROVE LoadInv'
  OBVIOUS
<1>1. step = "fields" /\ file' = file /\ config' = config /\ ri' = ri
  BY DEF CheckFields, Check
<1>2. /\ file \in Files /\ ri \in DOMAIN file.rules /\ ri \in Nat /\ ri >= 1
      /\ \A i \in DOMAIN file.rules : Holds(i) /\ Passed(i) /\ i \in Nat
  BY <1>1, AtRi DEF InTheLoop
<1>3. (step' = "match" /\ Named(config[ri])) \/ (step' = "error" /\ ~Named(config[ri]))
  BY DEF CheckFields, Check, Named
<1>4. Named(config[ri]) <=> Named(file.rules[ri])
  BY <1>2 DEF Holds, Named
<1>5. CASE step' = "match" /\ Named(config[ri])
  <2>1. LoadTypes' /\ Blamed'
    BY <1>1, <1>2, <1>5 DEF LoadInv, LoadTypes, Blamed, InTheLoop
  <2>2. \A i \in DOMAIN file.rules : (MatchDone(i))' = MatchDone(i) /\ (ExceptDone(i))' = ExceptDone(i)
    BY <1>1, <1>5 DEF MatchDone, ExceptDone
  <2>3. Copied'
    BY <1>1, <1>5, <2>2 DEF LoadInv, Copied, Holds
  <2>4. \A i \in DOMAIN file.rules : (Passed(i))'
    BY <1>1, <1>2, <1>4, <1>5, <2>2 DEF Passed
  <2>5. Checked'
    BY <1>1, <1>2, <1>5, <2>4 DEF LoadInv, Checked, InTheLoop, HeaderOk
  <2> QED
    BY <2>1, <2>3, <2>5 DEF LoadInv
<1>6. CASE step' = "error" /\ ~Named(config[ri])
  BY <1>1, <1>2, <1>4, <1>6, RuleBreaks, Fails
<1> QED
  BY <1>3, <1>5, <1>6

LEMMA MatchKeeps == LoadInv /\ CheckMatch => LoadInv'
<1> SUFFICES ASSUME LoadInv, CheckMatch PROVE LoadInv'
  OBVIOUS
<1>1. /\ step = "match" /\ file' = file /\ ri' = ri
      /\ config' = [config EXCEPT ![ri].match = compileClause(@)]
  BY DEF CheckMatch, Check
<1>2. /\ file \in Files /\ ri \in DOMAIN file.rules /\ ri \in Nat /\ ri >= 1
      /\ ri \in DOMAIN config /\ Holds(ri)
      /\ \A i \in DOMAIN file.rules : Holds(i) /\ Passed(i) /\ i \in Nat
  BY <1>1, AtRi DEF InTheLoop
<1> DEFINE w == file.rules[ri]
<1>3. /\ ~MatchDone(ri) /\ ~ExceptDone(ri)
      /\ config[ri].match = decodeClause(w.match)
  BY <1>1, <1>2 DEF MatchDone, ExceptDone, Holds, InMemory
<1>4. PICK ok \in validateMatchSpec(decodeClause(w.match)) : step' = IF ok THEN "except" ELSE "error"
  BY <1>3 DEF CheckMatch, Check
<1>5. /\ Sound(decodeClause(w.match)) <=> Sound(w.match)
      /\ decodeClause(w.match).flagAliases = w.match.flagAliases
  <2>1. IsClause(w.match)
    BY <1>2, FileFacts DEF IsRule
  <2> DEFINE c == w.match
             d == decodeClause(c)
  <2>2. d.flagAliases = c.flagAliases /\ d.flagValues = c.flagValues /\ d.glob = c.glob /\ d.regex = c.regex
    BY <2>1, Decoded DEF IsClause
  <2> HIDE DEF d
  <2>3. Sound(d) <=> Sound(c)
    BY <2>2 DEF Sound, AskedTwice
  <2> QED
    BY <2>2, <2>3 DEF d
<1>6. CASE ok
  <2>1. step' = "except" /\ Sound(w.match)
    BY <1>4, <1>5, <1>6, ClauseChecked
  <2>2. LoadTypes' /\ Blamed'
    BY <1>1, <1>2, <2>1 DEF LoadInv, LoadTypes, Blamed, InTheLoop
  <2>3. \A i \in DOMAIN file.rules : /\ (MatchDone(i))' <=> (MatchDone(i) \/ i = ri)
                                     /\ (ExceptDone(i))' <=> ExceptDone(i)
    BY <1>1, <2>1 DEF MatchDone, ExceptDone
  <2>4. config' = [i \in DOMAIN file.rules |-> config'[i]]
    BY <1>1 DEF LoadInv, Copied
  <2>5. \A i \in DOMAIN file.rules : (Holds(i))'
    <3> SUFFICES ASSUME NEW i \in DOMAIN file.rules PROVE (Holds(i))'
      OBVIOUS
    <3>1. CASE i = ri
      <4>1. DOMAIN config[ri] = RuleFields
        BY <1>2 DEF Holds
      <4>2. /\ DOMAIN config'[ri] = RuleFields
            /\ config'[ri].name = config[ri].name /\ config'[ri].tool = config[ri].tool
            /\ config'[ri].action = config[ri].action /\ config'[ri].except = config[ri].except
            /\ config'[ri].match = compileClause(config[ri].match)
        BY <1>1, <1>2, <4>1 DEF RuleFields
      <4>3. (MatchDone(ri))' /\ ~(ExceptDone(ri))'
        BY <1>1, <1>2, <2>1 DEF MatchDone, ExceptDone
      <4> QED
        BY <1>1, <1>2, <1>3, <3>1, <4>2, <4>3 DEF Holds, InMemory
    <3>2. CASE i # ri
      <4>1. config'[i] = config[i]
        BY <1>1, <1>2, <2>4, <3>2
      <4>2. Holds(i)
        BY <1>2
      <4>3. ((MatchDone(i))' <=> MatchDone(i)) /\ ((ExceptDone(i))' <=> ExceptDone(i))
        BY <2>3, <3>2
      <4> QED
        BY <1>1, <4>1, <4>2, <4>3 DEF Holds, InMemory
    <3> QED
      BY <3>1, <3>2
  <2>6. Copied'
    BY <1>1, <2>1, <2>4, <2>5 DEF LoadInv, Copied
  <2>7. \A i \in DOMAIN file.rules : (Passed(i))'
    BY <1>1, <1>2, <2>1, <2>3 DEF Passed
  <2>8. Checked'
    BY <1>1, <1>2, <2>1, <2>7 DEF LoadInv, Checked, InTheLoop, HeaderOk
  <2> QED
    BY <2>2, <2>6, <2>8 DEF LoadInv
<1>7. CASE ~ok
  <2>1. step' = "error" /\ (Plain(w.match.flagAliases) => ~Sound(w.match))
    BY <1>4, <1>5, <1>7, ClauseChecked
  <2>2. w.match \in Clauses(w) /\ w \in Elems(file.rules)
    BY <1>2 DEF Clauses, Elems
  <2>3. PlainFile => Broken(file)
    BY <1>2, <2>1, <2>2, RuleBreaks DEF PlainFile
  <2> QED
    BY <1>1, <1>2, <2>1, <2>3, Fails
<1> QED
  BY <1>6, <1>7

LEMMA ExceptKeeps == LoadInv /\ CheckExcept => LoadInv'
<1> SUFFICES ASSUME LoadInv, CheckExcept PROVE LoadInv'
  OBVIOUS
<1>1. /\ step = "except" /\ file' = file /\ ri' = ri
      /\ config' = [config EXCEPT ![ri].except = {compileClause(c) : c \in @}]
  BY DEF CheckExcept, Check
<1>2. /\ file \in Files /\ ri \in DOMAIN file.rules /\ ri \in Nat /\ ri >= 1
      /\ ri \in DOMAIN config /\ Holds(ri) /\ IsRule(file.rules[ri])
      /\ \A i \in DOMAIN file.rules : Holds(i) /\ Passed(i) /\ i \in Nat
  BY <1>1, AtRi DEF InTheLoop
<1> DEFINE w == file.rules[ri]
<1>3. /\ MatchDone(ri) /\ ~ExceptDone(ri)
      /\ config[ri].except = {decodeClause(c) : c \in w.except}
  BY <1>1, <1>2 DEF MatchDone, ExceptDone, Holds, InMemory
<1>4. PICK ok \in exceptResultsOf(config[ri]) : step' = IF ok THEN "subcommands" ELSE "error"
  BY DEF CheckExcept, Check
<1>5. \A c \in w.except : /\ Sound(decodeClause(c)) <=> Sound(c)
                          /\ decodeClause(c).flagAliases = c.flagAliases
  <2> SUFFICES ASSUME NEW c \in w.except
               PROVE  /\ Sound(decodeClause(c)) <=> Sound(c)
                      /\ decodeClause(c).flagAliases = c.flagAliases
    OBVIOUS
  <2>1. IsClause(c)
    BY <1>2 DEF IsRule
  <2> DEFINE d == decodeClause(c)
  <2>2. d.flagAliases = c.flagAliases /\ d.flagValues = c.flagValues /\ d.glob = c.glob /\ d.regex = c.regex
    BY <2>1, Decoded DEF IsClause
  <2> HIDE DEF d
  <2>3. Sound(d) <=> Sound(c)
    BY <2>2 DEF Sound, AskedTwice
  <2> QED
    BY <2>2, <2>3 DEF d
<1>6. /\ w.except = {} => ok = TRUE
      /\ w.except # {} => \E c \in w.except : w.except = {c} /\ ok \in validateMatchSpec(decodeClause(c))
  <2>1. CASE w.except = {}
    <3>1. config[ri].except = {}
      BY <1>3, <2>1
    <3> QED
      BY <1>4, <2>1, <3>1 DEF exceptResultsOf
  <2>2. CASE w.except # {}
    <3>1. config[ri].except # {}
      BY <1>3, <2>2
    <3>2. PICK d \in config[ri].except : ok \in validateMatchSpec(d)
      BY <1>4, <3>1 DEF exceptResultsOf
    <3>3. PICK c \in w.except : d = decodeClause(c)
      BY <1>3
    <3>4. w.except = {c}
      BY <1>2 DEF IsRule
    <3> QED
      BY <2>2, <3>2, <3>3, <3>4
  <2> QED
    BY <2>1, <2>2
<1>7. CASE ok
  <2>1. step' = "subcommands"
    BY <1>4, <1>7
  <2>2. \A c \in w.except : Sound(c)
    BY <1>5, <1>6, <1>7, ClauseChecked
  <2>3. LoadTypes' /\ Blamed'
    BY <1>1, <1>2, <2>1 DEF LoadInv, LoadTypes, Blamed, InTheLoop
  <2>4. \A i \in DOMAIN file.rules : /\ (MatchDone(i))' <=> MatchDone(i)
                                     /\ (ExceptDone(i))' <=> (ExceptDone(i) \/ i = ri)
    BY <1>1, <2>1 DEF MatchDone, ExceptDone
  <2>5. config' = [i \in DOMAIN file.rules |-> config'[i]]
    BY <1>1 DEF LoadInv, Copied
  <2>6. \A i \in DOMAIN file.rules : (Holds(i))'
    <3> SUFFICES ASSUME NEW i \in DOMAIN file.rules PROVE (Holds(i))'
      OBVIOUS
    <3>1. CASE i = ri
      <4>1. DOMAIN config[ri] = RuleFields
        BY <1>2 DEF Holds
      <4>2. /\ DOMAIN config'[ri] = RuleFields
            /\ config'[ri].name = config[ri].name /\ config'[ri].tool = config[ri].tool
            /\ config'[ri].action = config[ri].action /\ config'[ri].match = config[ri].match
            /\ config'[ri].except = {compileClause(c) : c \in config[ri].except}
        BY <1>1, <1>2, <4>1 DEF RuleFields
      <4>3. config'[ri].except = {compileClause(decodeClause(c)) : c \in w.except}
        BY <1>3, <4>2
      <4>4. (MatchDone(ri))' /\ (ExceptDone(ri))'
        BY <1>1, <1>2, <2>1 DEF MatchDone, ExceptDone
      <4> QED
        BY <1>1, <1>2, <1>3, <3>1, <4>2, <4>3, <4>4 DEF Holds, InMemory
    <3>2. CASE i # ri
      <4>1. config'[i] = config[i]
        BY <1>1, <1>2, <2>5, <3>2
      <4>2. Holds(i)
        BY <1>2
      <4>3. ((MatchDone(i))' <=> MatchDone(i)) /\ ((ExceptDone(i))' <=> ExceptDone(i))
        BY <2>4, <3>2
      <4> QED
        BY <1>1, <4>1, <4>2, <4>3 DEF Holds, InMemory
    <3> QED
      BY <3>1, <3>2
  <2>7. Copied'
    BY <1>1, <2>1, <2>5, <2>6 DEF LoadInv, Copied
  <2>8. \A i \in DOMAIN file.rules : (Passed(i))'
    BY <1>1, <1>2, <2>1, <2>2, <2>4 DEF Passed
  <2>9. Checked'
    BY <1>1, <1>2, <2>1, <2>8 DEF LoadInv, Checked, InTheLoop, HeaderOk
  <2> QED
    BY <2>3, <2>7, <2>9 DEF LoadInv
<1>8. CASE ~ok
  <2>1. step' = "error"
    BY <1>4, <1>8
  <2>2. PICK c \in w.except : ok \in validateMatchSpec(decodeClause(c))
    BY <1>6, <1>8
  <2>3. Plain(c.flagAliases) => ~Sound(c)
    BY <1>5, <1>8, <2>2, ClauseChecked
  <2>4. c \in Clauses(w) /\ w \in Elems(file.rules)
    BY <1>2 DEF Clauses, Elems
  <2>5. PlainFile => Broken(file)
    BY <1>2, <2>3, <2>4, RuleBreaks DEF PlainFile
  <2> QED
    BY <1>1, <1>2, <2>1, <2>5, Fails
<1> QED
  BY <1>7, <1>8

LEMMA SubcommandsKeep == LoadInv /\ CheckSubcommands => LoadInv'
<1> SUFFICES ASSUME LoadInv, CheckSubcommands PROVE LoadInv'
  OBVIOUS
<1>1. step = "subcommands" /\ file' = file /\ config' = config /\ ri' = ri + 1
  BY DEF CheckSubcommands, Check
<1>2. /\ file \in Files /\ ri \in DOMAIN file.rules /\ ri \in Nat /\ ri >= 1
      /\ Holds(ri) /\ Passed(ri) /\ IsRule(file.rules[ri])
      /\ \A n \in Nodes(file.rules[ri]) : Decodable(n)
      /\ \A i \in DOMAIN file.rules : Holds(i) /\ Passed(i) /\ i \in Nat
  BY <1>1, AtRi DEF InTheLoop
<1> DEFINE w == file.rules[ri]
<1>3. /\ MatchDone(ri) /\ ExceptDone(ri)
      /\ config[ri].tool = w.tool
      /\ config[ri].match = compileClause(decodeClause(w.match))
      /\ config[ri].except = {compileClause(decodeClause(c)) : c \in w.except}
  BY <1>1, <1>2 DEF MatchDone, ExceptDone, Holds, InMemory
<1>4. \/ step' = AtRule(ri + 1) /\ validateSubcommands(config[ri])
      \/ step' = "error" /\ ~validateSubcommands(config[ri])
  BY DEF CheckSubcommands, Check
<1>5. validateSubcommands(config[ri]) <=> \A c \in Clauses(w) : Addressed(c, w.tool)
  BY <1>2, <1>3, PathsChecked
<1>6. CASE step' = AtRule(ri + 1) /\ validateSubcommands(config[ri])
  <2>1. \/ step' = "fields" /\ ri' \in DOMAIN file.rules
        \/ step' = "loaded" /\ ri' \notin DOMAIN file.rules /\ ri' > Len(file.rules)
    BY <1>1, <1>2, <1>6, NextRule
  <2>2. LoadTypes' /\ Blamed'
    BY <1>1, <1>2, <2>1 DEF LoadInv, LoadTypes, Blamed, InTheLoop
  <2>3. \A i \in DOMAIN file.rules : /\ (MatchDone(i))' <=> MatchDone(i)
                                     /\ (ExceptDone(i))' <=> ExceptDone(i)
                                     /\ i < ri' <=> (i < ri \/ i = ri)
    BY <1>1, <1>2, <2>1 DEF MatchDone, ExceptDone
  <2>4. \A i \in DOMAIN file.rules : (Holds(i))'
    <3> SUFFICES ASSUME NEW i \in DOMAIN file.rules PROVE (Holds(i))'
      OBVIOUS
    <3> QED
      BY <1>1, <1>2, <2>3 DEF Holds, InMemory
  <2>5. Copied'
    BY <1>1, <2>1, <2>4 DEF LoadInv, Copied
  <2>6. \A i \in DOMAIN file.rules : (Passed(i))'
    <3> SUFFICES ASSUME NEW i \in DOMAIN file.rules PROVE (Passed(i))'
      OBVIOUS
    <3>1. Passed(i)
      BY <1>2
    <3>2. i < ri' => Named(file.rules[i])
      BY <1>1, <2>3, <3>1 DEF Passed
    <3>3. i < ri' => \A c \in Clauses(file.rules[i]) : Addressed(c, file.rules[i].tool)
      BY <1>5, <1>6, <2>3, <3>1 DEF Passed
    <3>4. i = ri' /\ step' # "fields" => Named(file.rules[i])
      BY <2>1
    <3> QED
      BY <1>1, <2>3, <3>1, <3>2, <3>3, <3>4 DEF Passed
  <2>7. Checked'
    BY <1>1, <2>1, <2>6 DEF LoadInv, Checked, InTheLoop, HeaderOk
  <2> QED
    BY <2>2, <2>5, <2>7 DEF LoadInv
<1>7. CASE step' = "error" /\ ~validateSubcommands(config[ri])
  <2>1. ri' \in Nat /\ ri' >= 1
    BY <1>1, <1>2
  <2> QED
    BY <1>1, <1>2, <1>5, <1>7, <2>1, RuleBreaks, Fails
<1> QED
  BY <1>4, <1>6, <1>7

LEMMA LoadsInv == Spec => []LoadInv
<1>1. LoadInv /\ [Next]_vars => LoadInv'
  <2>1. ASSUME LoadInv, UNCHANGED vars PROVE LoadInv'
    BY <2>1 DEF vars, LoadInv, LoadTypes, Copied, Checked, Blamed, Holds, Passed, MatchDone,
                ExceptDone, HeaderOk, PlainFile
  <2> QED
    BY <2>1, DecodeKeeps, HeaderKeeps, FieldsKeep, MatchKeeps, ExceptKeeps, SubcommandsKeep DEF Next
<1> QED
  BY <1>1, InitLoads, PTL DEF Spec

--------------------------------------------------------------------------------
(* What a load comes to *)

\* When Load returns a config, every rule has been through every check.
LEMMA AllDone ==
  ASSUME LoadInv, step = "loaded"
  PROVE  /\ file \in Files /\ file.decodes /\ HeaderOk
         /\ \A i \in DOMAIN file.rules :
              /\ IsRule(file.rules[i]) /\ Named(file.rules[i])
              /\ \A n \in Nodes(file.rules[i]) : Decodable(n)
              /\ config[i].match = compileClause(decodeClause(file.rules[i].match))
              /\ config[i].except = {compileClause(decodeClause(c)) : c \in file.rules[i].except}
              /\ \A c \in Clauses(file.rules[i]) : /\ IsClause(c) /\ Sound(c)
                                                   /\ Addressed(c, file.rules[i].tool)
<1>1. file \in Files /\ ri \in Nat /\ ri > Len(file.rules)
  BY DEF LoadInv, LoadTypes, Checked
<1>2. \A i \in DOMAIN file.rules : i < ri /\ IsRule(file.rules[i])
  BY <1>1, FileFacts
<1>3. \A i \in DOMAIN file.rules : Holds(i) /\ Passed(i)
  BY DEF LoadInv, Copied, Checked
<1>4. \A i \in DOMAIN file.rules : MatchDone(i) /\ ExceptDone(i)
  BY <1>2 DEF MatchDone, ExceptDone
<1>5. file.decodes /\ \A i \in DOMAIN file.rules : \A n \in Nodes(file.rules[i]) : Decodable(n)
  BY DEF LoadInv, Copied
<1>6. HeaderOk
  BY DEF LoadInv, Checked
<1>7. \A i \in DOMAIN file.rules :
        /\ config[i].match = compileClause(decodeClause(file.rules[i].match))
        /\ config[i].except = {compileClause(decodeClause(c)) : c \in file.rules[i].except}
  BY <1>3, <1>4 DEF Holds, InMemory
<1>8. \A i \in DOMAIN file.rules :
        /\ Named(file.rules[i])
        /\ \A c \in Clauses(file.rules[i]) : /\ IsClause(c) /\ Sound(c)
                                             /\ Addressed(c, file.rules[i].tool)
  BY <1>2, <1>3, <1>4 DEF Passed, Clauses, IsRule
<1> QED
  BY <1>1, <1>2, <1>5, <1>6, <1>7, <1>8

\* A config that loads says what its file says (LoadedMeansFile), for every set of
\* files and whatever table of flag names each check has built.
THEOREM LoadKeepsMeaning == Spec => []LoadedMeansFile
<1>1. LoadInv => LoadedMeansFile
  <2> SUFFICES ASSUME LoadInv, step = "loaded", NEW i \in DOMAIN file.rules
               PROVE  /\ specOf(config[i].match) = Written(file.rules[i].match)
                      /\ {specOf(c) : c \in config[i].except} = {Written(c) : c \in file.rules[i].except}
    BY DEF LoadedMeansFile
  <2> DEFINE w == file.rules[i]
             k(c) == compileClause(decodeClause(c))
  <2>1. /\ \A n \in Nodes(w) : Decodable(n)
        /\ config[i].match = k(w.match)
        /\ config[i].except = {k(c) : c \in w.except}
        /\ \A c \in Clauses(w) : IsClause(c) /\ Sound(c)
    BY AllDone
  <2>2. \A c \in Clauses(w) : specOf(k(c)) = Written(c)
    <3> SUFFICES ASSUME NEW c \in Clauses(w) PROVE specOf(k(c)) = Written(c)
      OBVIOUS
    <3>1. Decodable(c.subcommandsAny) /\ Decodable(c.subcommandsAll)
      BY <2>1 DEF Nodes, Clauses
    <3> QED
      BY <2>1, <3>1, SpecAsWritten
  <2>3. specOf(config[i].match) = Written(w.match)
    BY <2>1, <2>2 DEF Clauses
  <2>4. {specOf(c) : c \in config[i].except} = {specOf(k(c)) : c \in w.except}
    BY <2>1
  <2>5. {specOf(k(c)) : c \in w.except} = {Written(c) : c \in w.except}
    BY <2>2 DEF Clauses
  <2> QED
    BY <2>3, <2>4, <2>5
<1> QED
  BY <1>1, LoadsInv, PTL

\* Load accepts the files that have none of the mistakes of Broken and refuses the
\* others (LoadsUnlessBroken), wherever in the file a mistake is.
THEOREM LoadFindsMistakes == Spec => []LoadsUnlessBroken
<1>1. LoadInv => LoadsUnlessBroken
  <2> SUFFICES ASSUME LoadInv, PlainFile
               PROVE  (step = "loaded" => ~Broken(file)) /\ (step = "error" => Broken(file))
    BY DEF LoadsUnlessBroken, PlainFile
  <2>1. ASSUME step = "loaded" PROVE ~Broken(file)
    <3>1. /\ file \in Files /\ file.decodes /\ HeaderOk
          /\ \A i \in DOMAIN file.rules :
               /\ Named(file.rules[i])
               /\ \A c \in Clauses(file.rules[i]) : Sound(c) /\ Addressed(c, file.rules[i].tool)
      BY <2>1, AllDone
    <3>2. \A r \in Elems(file.rules) :
            /\ Named(r)
            /\ \A c \in Clauses(r) : ~(BrokenClause(c, r.tool) \/ AskedTwice(c))
      BY <3>1, BrokenByCheck DEF Elems, PlainFile
    <3>3. ~(file.version # 1 \/ file.maxDepth < 0 \/ ~file.cliSpecsOk)
      BY <3>1, FileFacts DEF HeaderOk
    <3> QED
      BY <3>1, <3>2, <3>3 DEF Broken, Named
  <2>2. ASSUME step = "error" PROVE Broken(file)
    BY <2>2 DEF LoadInv, Blamed
  <2> QED
    BY <2>1, <2>2
<1> QED
  BY <1>1, LoadsInv, PTL

--------------------------------------------------------------------------------
(* A flag and its value, before a positional *)

\* A word uses up itself, or the next one too.
LEMMA NextWord ==
  ASSUME NEW ws, NEW i \in Nat, NEW vt, Shape[ws[i]].kind \in {"plain", "long", "short"}
  PROVE  ReadWord(ws, i, vt).next \in {i + 1, i + 2}
<1> DEFINE w == Shape[ws[i]]
           taking == {j \in DOMAIN w.letters : w.letters[j] \in vt}
           first == CHOOSE j \in taking : \A j2 \in taking : j <= j2
           upTo(n) == {w.letters[j] : j \in 1 .. n}
           r == ReadWord(ws, i, vt)
<1>1. \A flags, f : TakeNext(ws, i, flags, f).next \in {i + 1, i + 2}
  BY DEF TakeNext, Read
<1>2. \A flags, captured, ok : Read(flags, captured, i + 1, ok).next = i + 1
  BY DEF Read
<1>3. CASE w.kind = "plain"
  BY <1>3 DEF ReadWord, Read
<1>4. CASE w.kind = "long"
  <2>1. r = IF w.eq THEN Read({w.name}, <<Capture(w.name, w.value)>>, i + 1, TRUE)
            ELSE IF w.name \in vt THEN TakeNext(ws, i, {w.name}, w.name)
            ELSE Read({w.name}, << >>, i + 1, TRUE)
    BY <1>4 DEF ReadWord, handleDoubleDash
  <2> HIDE DEF r, w
  <2>2. r.next \in {i + 1, i + 2}
    <3>1. CASE w.eq
      BY <1>2, <2>1, <3>1
    <3>2. CASE ~w.eq
      BY <1>1, <1>2, <2>1, <3>2
    <3> QED
      BY <3>1, <3>2
  <2> QED
    BY <2>2 DEF r
<1>5. CASE w.kind = "short"
  <2>1. r = IF w.eq THEN Read({w.name}, <<Capture(w.name, w.value)>>, i + 1, TRUE)
            ELSE IF w.name \in vt THEN TakeNext(ws, i, {w.name}, w.name)
            ELSE IF taking = {} THEN Read(upTo(Len(w.letters)), << >>, i + 1, TRUE)
            ELSE IF first < Len(w.letters)
              THEN Read(upTo(first), <<Capture(w.letters[first], w.rests[first])>>, i + 1, TRUE)
            ELSE TakeNext(ws, i, upTo(first), w.letters[first])
    BY <1>5 DEF ReadWord, handleSingleDash
  <2> HIDE DEF r, w, taking, first, upTo
  <2>2. r.next \in {i + 1, i + 2}
    <3>1. CASE w.eq
      BY <1>2, <2>1, <3>1
    <3>2. CASE ~w.eq
      BY <1>1, <1>2, <2>1, <3>2
    <3> QED
      BY <3>1, <3>2
  <2> QED
    BY <2>2 DEF r
<1> QED
  BY <1>3, <1>4, <1>5

\* The equation of the loop of Normalize.
LoopBody(f, words, vt, i) ==
  IF i > Len(words) THEN Nothing
  ELSE IF Shape[words[i]].kind = "terminator"
    THEN Positionals([j \in 1 .. Len(words) - i |-> i + j])
  ELSE LET read == ReadWord(words, i, vt)
           rest == f[read.next]
       IN  Joined(read, rest)

\* It has a solution, so that the function Normalize builds is one.
LEMMA LoopIsEquation ==
  ASSUME NEW ws, ws # << >>, NEW vt,
         NEW g, g = [i \in 2 .. Len(ws) + 1 |-> LoopBody(g, ws, vt, i)]
  PROVE  \E f : /\ f = [i \in 2 .. Len(ws) + 1 |-> LoopBody(f, ws, vt, i)]
                /\ Normalize(ws, vt) = f[2]
<1> DEFINE from == CHOOSE f : f = [i \in 2 .. Len(ws) + 1 |-> LoopBody(f, ws, vt, i)]
<1>1. from = [i \in 2 .. Len(ws) + 1 |-> LoopBody(from, ws, vt, i)]
  OBVIOUS
<1>2. Normalize(ws, vt) = from[2]
  BY Zenon DEF Normalize, LoopBody
<1> QED
  BY <1>1, <1>2

\* One flag with one value is all that is read of the words before the last, a positional.
IsRead(r, flag, value) ==
  /\ r.flags = {flag} /\ r.captured = <<Capture(flag, value)>> /\ r.args = << >>

\* Joined without its function of one value.
LEMMA JoinedIs ==
  ASSUME NEW r, NEW rest
  PROVE  Joined(r, rest) = [flags |-> r.flags \cup rest.flags, captured |-> r.captured \o rest.captured,
                            args |-> r.args \o rest.args, ok |-> r.ok /\ rest.ok]
BY DEF Joined

\* What Normalize makes of such a line of three or four words.
IsShort(ws, n, vt, flag, value) ==
  /\ n \in {3, 4} /\ Len(ws) = n /\ ws # << >>
  /\ ReadWord(ws, 2, vt).next = n /\ Shape[ws[2]].kind \in {"long", "short"}
  /\ IsRead(ReadWord(ws, 2, vt), flag, value)
  /\ n = 4 => Shape[ws[3]].kind \in {"plain", "terminator", "long", "short"}
  /\ Shape[ws[n]].kind = "plain"

LEMMA ShortLine ==
  ASSUME NEW ws, NEW n, NEW vt, NEW flag, NEW value, IsShort(ws, n, vt, flag, value)
  PROVE  LET norm == Normalize(ws, vt)
         IN  norm.flags = {flag} /\ norm.captured = <<Capture(flag, value)>> /\ norm.args = <<n>>
<1> USE DEF IsShort
<1> DEFINE D == 2 .. n + 1
           last == Joined(ReadWord(ws, n, vt), Nothing)
           ends == [i \in D |-> IF i = n THEN last ELSE Nothing]
           between == LoopBody(ends, ws, vt, 3)
           g == [i \in D |-> IF i = n + 1 THEN Nothing ELSE IF i = n THEN last
                             ELSE IF i = 2 THEN Joined(ReadWord(ws, 2, vt), last) ELSE between]
<1>1. ReadWord(ws, n, vt) = [Read({}, << >>, n + 1, TRUE) EXCEPT !.args = <<n>>]
  BY DEF ReadWord
<1>2. ReadWord(ws, n, vt).next = n + 1 /\ n + 1 \in D /\ n \in D /\ 2 \in D
  BY <1>1 DEF Read
<1>3. \A i \in D : i = n + 1 \/ i = n \/ i = 2 \/ (n = 4 /\ i = 3)
  OBVIOUS
<1>4. g[n + 1] = Nothing /\ g[n] = last /\ g[2] = Joined(ReadWord(ws, 2, vt), last)
  BY <1>2
<1>5. \A i \in D : g[i] = LoopBody(g, ws, vt, i)
  <2>1. g[n + 1] = LoopBody(g, ws, vt, n + 1)
    BY <1>4 DEF LoopBody
  <2>2. g[n] = LoopBody(g, ws, vt, n)
    BY <1>2, <1>4 DEF LoopBody
  <2>3. g[2] = LoopBody(g, ws, vt, 2)
    BY <1>4 DEF LoopBody
  <2>4. ASSUME n = 4 PROVE g[3] = LoopBody(g, ws, vt, 3)
    <3>1. g[3] = between
      BY <2>4
    <3>2. CASE Shape[ws[3]].kind = "terminator"
      BY <2>4, <3>1, <3>2 DEF LoopBody
    <3>3. CASE Shape[ws[3]].kind # "terminator"
      <4>1. ReadWord(ws, 3, vt).next \in {4, 5}
        BY <2>4, <3>3, NextWord
      <4>2. g[4] = ends[4] /\ g[5] = ends[5]
        BY <2>4, <1>4
      <4> HIDE DEF g, ends
      <4> QED
        BY <2>4, <3>1, <3>3, <4>1, <4>2 DEF LoopBody
    <3> QED
      BY <3>2, <3>3
  <2> HIDE DEF g, D
  <2> QED
    BY <1>3, <2>1, <2>2, <2>3, <2>4
<1>6. g = [i \in D |-> LoopBody(g, ws, vt, i)]
  BY <1>5
<1> HIDE DEF g
<1>7. PICK f : f = [i \in D |-> LoopBody(f, ws, vt, i)] /\ Normalize(ws, vt) = f[2]
  BY <1>6, LoopIsEquation
<1>8. f[n + 1] = Nothing /\ f[n] = last /\ f[2] = Joined(ReadWord(ws, 2, vt), last)
  <2>1. f[n + 1] = Nothing
    BY <1>2, <1>7 DEF LoopBody
  <2>2. f[n] = last
    <3>1. f[n] = LoopBody(f, ws, vt, n)
      BY <1>2, <1>7
    <3> QED
      BY <1>2, <2>1, <3>1 DEF LoopBody
  <2>3. f[2] = Joined(ReadWord(ws, 2, vt), last)
    <3>1. f[2] = LoopBody(f, ws, vt, 2)
      BY <1>2, <1>7
    <3> QED
      BY <2>2, <3>1 DEF LoopBody
  <2> QED
    BY <2>1, <2>2, <2>3
<1> DEFINE one == ReadWord(ws, 2, vt)
           two == ReadWord(ws, n, vt)
<1>9. two.flags = {} /\ two.captured = << >> /\ two.args = <<n>>
  BY <1>1 DEF Read
<1>10. Nothing.flags = {} /\ Nothing.captured = << >> /\ Nothing.args = << >>
  BY DEF Nothing, Positionals
<1> HIDE DEF one, two
<1>11. last.flags = {} /\ last.captured = << >> /\ last.args = <<n>>
  <2>1. << >> \o << >> = << >> /\ <<n>> \o << >> = <<n>>
    OBVIOUS
  <2> QED
    BY <1>9, <1>10, <2>1, JoinedIs DEF two
<1>12. IsRead(one, flag, value)
  BY DEF one
<1> HIDE DEF last
<1>13. <<Capture(flag, value)>> \o << >> = <<Capture(flag, value)>> /\ << >> \o <<n>> = <<n>>
  OBVIOUS
<1>14. Joined(one, last).flags = {flag} /\ Joined(one, last).args = <<n>>
       /\ Joined(one, last).captured = <<Capture(flag, value)>>
  <2>1. /\ Joined(one, last).flags = one.flags \cup last.flags
        /\ Joined(one, last).captured = one.captured \o last.captured
        /\ Joined(one, last).args = one.args \o last.args
    BY JoinedIs
  <2> QED
    BY <1>11, <1>12, <1>13, <2>1 DEF IsRead
<1> QED
  BY <1>7, <1>8, <1>14 DEF one

LEMMA FlagWithValue ==
  ASSUME NEW ws, NEW vt, NEW flag, NEW value, flag \in vt, Shape[ws[2]].kind \in {"long", "short"}
  PROVE  LET w == Shape[ws[2]]
             r == ReadWord(ws, 2, vt)
         IN  /\ w.name = flag /\ ~w.eq /\ Len(ws) = 4 /\ ws[3] = value => IsRead(r, flag, value) /\ r.next = 4
             /\ w.name = flag /\ w.eq /\ w.value = value => IsRead(r, flag, value) /\ r.next = 3
             /\ /\ w.kind = "short" /\ ~w.eq /\ w.name \notin vt /\ IsList(w.letters)
                /\ Len(w.letters) > 1 /\ w.letters[1] = flag /\ w.rests[1] = value
                => IsRead(r, flag, value) /\ r.next = 3
<1> DEFINE w == Shape[ws[2]]
           r == ReadWord(ws, 2, vt)
<1>1. \A next : LET x == Read({flag}, <<Capture(flag, value)>>, next, TRUE)
                IN  IsRead(x, flag, value) /\ x.next = next
  BY DEF IsRead, Read
<1>0. /\ w.eq => r = Read({w.name}, <<Capture(w.name, w.value)>>, 3, TRUE)
      /\ ~w.eq /\ w.name \in vt => r = TakeNext(ws, 2, {w.name}, w.name)
  <2>1. 2 + 1 = 3
    OBVIOUS
  <2>2. CASE w.kind = "long"
    <3>1. r = handleDoubleDash(ws, 2, w, vt)
      BY <2>2 DEF ReadWord
    <3> HIDE DEF w, r
    <3> QED
      BY <2>1, <3>1 DEF handleDoubleDash
  <2>3. CASE w.kind = "short"
    <3>1. r = handleSingleDash(ws, 2, w, vt)
      BY <2>3 DEF ReadWord
    <3> HIDE DEF w, r
    <3> QED
      BY <2>1, <3>1, Zenon DEF handleSingleDash
  <2> QED
    BY <2>2, <2>3
<1>2. ASSUME w.name = flag, ~w.eq, Len(ws) = 4, ws[3] = value
      PROVE  r = Read({flag}, <<Capture(flag, value)>>, 4, TRUE)
  <2>1. r = TakeNext(ws, 2, {flag}, flag)
    <3> HIDE DEF r, w
    <3> QED
      BY <1>0, <1>2
  <2>2. 2 + 1 = 3 /\ 2 + 2 = 4 /\ 2 # 4
    OBVIOUS
  <2> HIDE DEF r
  <2> QED
    BY <1>2, <2>1, <2>2 DEF TakeNext
<1>3. ASSUME w.name = flag, w.eq, w.value = value
      PROVE  r = Read({flag}, <<Capture(flag, value)>>, 3, TRUE)
  <2> HIDE DEF r, w
  <2> QED
    BY <1>0, <1>3
<1>4. ASSUME w.kind = "short", ~w.eq, w.name \notin vt, IsList(w.letters),
             Len(w.letters) > 1, w.letters[1] = flag, w.rests[1] = value
      PROVE  r = Read({flag}, <<Capture(flag, value)>>, 3, TRUE)
  <2> DEFINE taking == {j \in DOMAIN w.letters : w.letters[j] \in vt}
             first == CHOOSE j \in taking : \A j2 \in taking : j <= j2
             upTo(n) == {w.letters[j] : j \in 1 .. n}
  <2>1. r = IF taking = {} THEN Read(upTo(Len(w.letters)), << >>, 3, TRUE)
            ELSE IF first < Len(w.letters)
              THEN Read(upTo(first), <<Capture(w.letters[first], w.rests[first])>>, 3, TRUE)
            ELSE TakeNext(ws, 2, upTo(first), w.letters[first])
    <3>1. r = handleSingleDash(ws, 2, w, vt)
      BY <1>4 DEF ReadWord
    <3>2. ~w.eq /\ w.name \notin vt /\ 2 + 1 = 3
      BY <1>4
    <3> HIDE DEF w
    <3> QED
      BY <3>1, <3>2 DEF handleSingleDash
  <2>2. 1 \in taking /\ taking \subseteq Nat /\ \A j \in taking : 1 <= j
    BY <1>4, Lists
  <2>3. first = 1
    <3> HIDE DEF taking
    <3>1. \E j \in taking : \A j2 \in taking : j <= j2
      BY <2>2
    <3>2. first \in taking /\ \A j2 \in taking : first <= j2
      BY <3>1
    <3> HIDE DEF first
    <3>3. first \in Nat /\ first <= 1 /\ 1 <= first
      BY <2>2, <3>2
    <3> QED
      BY <3>3
  <2>4. upTo(1) = {flag}
    BY <1>4
  <2> HIDE DEF taking, first, upTo
  <2> QED
    BY <1>4, <2>1, <2>2, <2>3, <2>4
<1> HIDE DEF r
<1> QED
  BY <1>1, <1>2, <1>3, <1>4 DEF r

LEMMA Three ==
  ASSUME NEW a, NEW b, NEW c
  PROVE  LET s == <<a>> \o <<b>> \o <<c>>
         IN  s # << >> /\ Len(s) = 3 /\ s[1] = a /\ s[2] = b /\ s[3] = c
<1> DEFINE S == {a, b, c}
           s == <<a>> \o <<b>>
           t == <<c>>
<1>1. <<a>> \in Seq(S) /\ <<b>> \in Seq(S) /\ t \in Seq(S) /\ Len(t) = 1 /\ t[1] = c
  OBVIOUS
<1>2. s \in Seq(S) /\ Len(s) = 2 /\ s[1] = a /\ s[2] = b
  BY <1>1
<1> HIDE DEF S, s, t
<1>3. /\ s \o t \in Seq(S) /\ Len(s \o t) = 3
      /\ \A i \in 1 .. 3 : (s \o t)[i] = IF i <= 2 THEN s[i] ELSE t[i - 2]
  <2>1. /\ s \o t \in Seq(S) /\ Len(s \o t) = Len(s) + Len(t)
        /\ \A i \in 1 .. Len(s) + Len(t) : (s \o t)[i] = IF i <= Len(s) THEN s[i] ELSE t[i - Len(s)]
    BY <1>1, <1>2, ConcatProperties
  <2>2. Len(s) + Len(t) = 3
    BY <1>1, <1>2
  <2> QED
    BY <1>2, <2>1, <2>2
<1>4. (s \o t)[1] = a /\ (s \o t)[2] = b /\ (s \o t)[3] = c
  BY <1>1, <1>2, <1>3
<1>5. s \o t # << >>
  BY <1>3
<1> QED
  BY <1>3, <1>4, <1>5 DEF s, t

LEMMA Four ==
  ASSUME NEW a, NEW b, NEW c, NEW d
  PROVE  LET s == <<a>> \o <<b, c>> \o <<d>>
         IN  s # << >> /\ Len(s) = 4 /\ s[1] = a /\ s[2] = b /\ s[3] = c /\ s[4] = d
<1> DEFINE S == {a, b, c, d}
           one == <<a>>
           two == <<b, c>>
           s == one \o two
           t == <<d>>
<1>1. /\ one \in Seq(S) /\ Len(one) = 1 /\ one[1] = a
      /\ two \in Seq(S) /\ Len(two) = 2 /\ two[1] = b /\ two[2] = c
      /\ t \in Seq(S) /\ Len(t) = 1 /\ t[1] = d
  OBVIOUS
<1> HIDE DEF S, one, two, t
<1>2. s \in Seq(S) /\ Len(s) = 3 /\ \A i \in 1 .. 3 : s[i] = IF i <= 1 THEN one[i] ELSE two[i - 1]
  BY <1>1, ConcatProperties
<1>3. s[1] = a /\ s[2] = b /\ s[3] = c
  BY <1>1, <1>2
<1> HIDE DEF s
<1>4. /\ s \o t \in Seq(S) /\ Len(s \o t) = 4
      /\ \A i \in 1 .. 4 : (s \o t)[i] = IF i <= 3 THEN s[i] ELSE t[i - 3]
  <2>1. /\ s \o t \in Seq(S) /\ Len(s \o t) = Len(s) + Len(t)
        /\ \A i \in 1 .. Len(s) + Len(t) : (s \o t)[i] = IF i <= Len(s) THEN s[i] ELSE t[i - Len(s)]
    BY <1>1, <1>2, ConcatProperties
  <2>2. Len(s) + Len(t) = 4
    BY <1>1, <1>2
  <2> QED
    BY <1>2, <2>1, <2>2
<1>5. (s \o t)[1] = a /\ (s \o t)[2] = b /\ (s \o t)[3] = c /\ (s \o t)[4] = d
  BY <1>1, <1>3, <1>4
<1>6. s \o t # << >>
  BY <1>4
<1> QED
  BY <1>4, <1>5, <1>6 DEF s, t, one, two

\* A command with one flag and its value.
Given(name, flag, value) ==
  [name |-> name, flags |-> {flag}, flagValues |-> [f \in {flag} |-> {value}],
   args |-> <<"apply">>, inspectionFailed |-> FALSE]

\* What a reader must know: that the flag takes a value, and no other flag it takes the
\* word for.
Readable(form, flag, value, vt) ==
  /\ IsForm(form, flag, value) /\ flag \in vt
  /\ Shape[form[1]].name # flag => Shape[form[1]].name \notin vt
  /\ Shape["apply"].kind = "plain"

\* A line with this form reads as cmd.
ReadsAs(form, name, vt, cmd) == CommandOf(<<name>> \o form \o <<"apply">>, vt, FALSE) = cmd

\* Each way to write a flag and its value is read as that, by whoever knows that the
\* flag takes a value and does not take the word for another flag that does.
LEMMA FormRead ==
  ASSUME NEW form, NEW flag, NEW value, NEW vt, Readable(form, flag, value, vt), NEW name
  PROVE  ReadsAs(form, name, vt, Given(name, flag, value))
<1> DEFINE ws == <<name>> \o form \o <<"apply">>
           norm == Normalize(ws, vt)
<1>0. /\ IsForm(form, flag, value) /\ flag \in vt
      /\ Shape[form[1]].name # flag => Shape[form[1]].name \notin vt
      /\ Shape["apply"].kind = "plain"
  BY DEF Readable
<1>1. \E n \in {3, 4} : ws[1] = name /\ ws[n] = "apply" /\ IsShort(ws, n, vt, flag, value)
  <2> DEFINE u == form[1]
             w == Shape[u]
  <2>1. PICK v : v = u
    OBVIOUS
  <2>2. Shape[v].kind \in {"long", "short"}
    BY <1>0, <2>1 DEF IsForm
  <2>3. CASE form = <<u, value>> /\ w.name = flag /\ ~w.eq
             /\ Shape[value].kind \in {"plain", "terminator", "long", "short"}
    <3>1. form = <<v, value>>
      BY <2>1, <2>3, Zenon
    <3>2. /\ ws # << >> /\ Len(ws) = 4
          /\ ws[1] = name /\ ws[2] = v /\ ws[3] = value /\ ws[4] = "apply"
      BY <3>1, Four
    <3>3. Shape[v].name = flag /\ ~Shape[v].eq /\ Shape[value].kind \in {"plain", "terminator", "long", "short"}
      BY <2>1, <2>3, Zenon
    <3> HIDE DEF ws, u, w
    <3>4. IsRead(ReadWord(ws, 2, vt), flag, value) /\ ReadWord(ws, 2, vt).next = 4
      BY <1>0, <2>2, <3>2, <3>3, FlagWithValue
    <3> QED
      BY <1>0, <2>2, <3>2, <3>3, <3>4 DEF IsShort
  <2>4. CASE form = <<u>> /\ \/ w.name = flag /\ w.eq /\ w.value = value
                             \/ /\ w.kind = "short" /\ ~w.eq /\ w.name # flag /\ IsList(w.letters)
                                /\ Len(w.letters) > 1 /\ w.letters[1] = flag /\ w.rests[1] = value
    <3>1. form = <<v>>
      BY <2>1, <2>4, Zenon
    <3>2. /\ ws # << >> /\ Len(ws) = 3
          /\ ws[1] = name /\ ws[2] = v /\ ws[3] = "apply"
      BY <3>1, Three
    <3>3. \/ Shape[v].name = flag /\ Shape[v].eq /\ Shape[v].value = value
          \/ /\ Shape[v].kind = "short" /\ ~Shape[v].eq /\ Shape[v].name \notin vt /\ IsList(Shape[v].letters)
             /\ Len(Shape[v].letters) > 1 /\ Shape[v].letters[1] = flag /\ Shape[v].rests[1] = value
      BY <1>0, <2>1, <2>4, Zenon
    <3> HIDE DEF ws, u, w
    <3>4. IsRead(ReadWord(ws, 2, vt), flag, value) /\ ReadWord(ws, 2, vt).next = 3
      BY <1>0, <2>2, <3>2, <3>3, FlagWithValue
    <3> QED
      BY <1>0, <2>2, <3>2, <3>4 DEF IsShort
  <2> QED
    BY <1>0, <2>3, <2>4, Zenon DEF IsForm
<1> HIDE DEF ws
<1>2. PICK n \in {3, 4} : /\ ws[1] = name /\ ws[n] = "apply"
                          /\ norm.flags = {flag} /\ norm.captured = <<Capture(flag, value)>> /\ norm.args = <<n>>
  BY <1>0, <1>1, ShortLine
<1> HIDE DEF norm
<1>3. valuesByFlag(norm.captured) = [f \in {flag} |-> {value}]
  <2> DEFINE one == <<Capture(flag, value)>>
  <2>1. DOMAIN one = {1} /\ one[1].flag = flag /\ one[1].value = value
    BY DEF Capture
  <2> HIDE DEF one
  <2>2. {one[k].flag : k \in DOMAIN one} = {flag}
    BY <2>1
  <2>3. {one[k].value : k \in {k \in DOMAIN one : one[k].flag = flag}} = {value}
    BY <2>1
  <2>4. valuesByFlag(one) = [f \in {flag} |-> {value}]
    BY <2>2, <2>3 DEF valuesByFlag
  <2> QED
    BY <1>2, <2>4 DEF one
<1>4. [k \in DOMAIN norm.args |-> ws[norm.args[k]]] = <<"apply">>
  BY <1>2
<1> QED
  BY <1>2, <1>3, <1>4 DEF ReadsAs, CommandOf, AsCommand, Given, norm, ws

--------------------------------------------------------------------------------
(* What a rule makes of a value *)

\* Without an alternative of two flags, there is one table.
LEMMA OneTable ==
  ASSUME NEW aliases, Unambiguous(aliases)
  PROVE  \E rev : buildReverseAliases(aliases) = {rev}
<1> DEFINE alts == UNION {aliases[c] : c \in DOMAIN aliases}
           tables == buildReverseAliases(aliases)
           one == [a \in alts |-> CHOOSE c \in DOMAIN aliases : a \in aliases[c]]
<1>1. one \in tables
  BY DEF buildReverseAliases
<1>2. ASSUME NEW f \in tables, NEW g \in tables PROVE f = g
  <2>1. f \in [alts -> DOMAIN aliases] /\ g \in [alts -> DOMAIN aliases]
    BY DEF buildReverseAliases
  <2>2. \A a \in alts : a \in aliases[f[a]] /\ a \in aliases[g[a]]
    BY DEF buildReverseAliases
  <2>3. \A a \in alts : f[a] = g[a]
    BY <2>1, <2>2 DEF Unambiguous
  <2> HIDE DEF alts
  <2> QED
    BY <2>1, <2>3
<1> HIDE DEF tables, one
<1>3. tables = {one}
  BY <1>1, <1>2
<1> QED
  BY <1>3 DEF tables

\* Every spelling of a flag has its name, if that is no alternative itself.
LEMMA SpellingIsName ==
  ASSUME NEW aliases, Unambiguous(aliases), NEW rev \in buildReverseAliases(aliases),
         NEW name, \A d \in DOMAIN aliases : name \notin aliases[d], NEW f \in spellings(name, aliases)
  PROVE  canonicalName(f, rev) = name
<1> DEFINE alts == UNION {aliases[c] : c \in DOMAIN aliases}
<1>1. rev \in [alts -> DOMAIN aliases] /\ \A x \in alts : x \in aliases[rev[x]]
  BY DEF buildReverseAliases
<1>2. CASE f = name
  <2>1. f \notin alts
    BY <1>2
  <2> QED
    BY <1>1, <1>2, <2>1 DEF canonicalName
<1>3. CASE f # name
  <2>1. name \in DOMAIN aliases /\ f \in aliases[name]
    BY <1>3 DEF spellings
  <2>2. f \in alts
    BY <2>1
  <2>3. rev[f] \in DOMAIN aliases /\ f \in aliases[rev[f]]
    BY <1>1, <2>2
  <2>4. rev[f] = name
    BY <2>1, <2>3 DEF Unambiguous
  <2> QED
    BY <1>1, <2>2, <2>4 DEF canonicalName
<1> QED
  BY <1>2, <1>3

\* The flag is no other's spelling.
OwnName(flag, aliases) ==
  Unambiguous(aliases) /\ \A d \in DOMAIN aliases : flag \notin aliases[d]

\* The parts of a compiled clause.
LEMMA SpecFields ==
  ASSUME NEW c
  PROVE  /\ specOf(c).command = c.command /\ specOf(c).flagAliases = c.flagAliases
         /\ specOf(c).flagValues = {[name |-> e.name, glob |-> globOf(e.glob), regex |-> regexOf(e.regex)] :
                                      e \in Elems(c.flagValues)}
  BY DEF specOf

\* A clause answers alike to all spellings of a flag.
LEMMA OneAnswer ==
  ASSUME NEW c, NEW flag, OwnName(flag, c.flagAliases), NEW name, NEW value
  PROVE  \E matches \in BOOLEAN : \A f \in spellings(flag, c.flagAliases) :
           matchSpec(specOf(c), Given(name, f, value)) = {matches}
<1> DEFINE aliases == c.flagAliases
<1>a. OwnName(flag, aliases)
  OBVIOUS
<1> HIDE DEF aliases
<1>b. Unambiguous(aliases) /\ \A d \in DOMAIN aliases : flag \notin aliases[d]
  BY <1>a, Zenon DEF OwnName
<1>c. PICK spec : spec = specOf(c)
  OBVIOUS
<1>d. spec.flagAliases = aliases
  BY <1>c, SpecFields, Zenon DEF aliases
<1>1. PICK rev : buildReverseAliases(aliases) = {rev}
  BY <1>b, OneTable, Zenon
<1>2. \A f \in spellings(flag, aliases) : canonicalName(f, rev) = flag
  BY <1>b, <1>1, SpellingIsName
<1>3. ASSUME NEW f \in spellings(flag, aliases)
      PROVE  LET cmd == Given(name, f, value)
             IN  /\ cmd.name = name /\ cmd.args = <<"apply">>
                 /\ canonicalizeFlags(cmd.flags, rev) = {flag}
                 /\ canonicalizeFlagValues(cmd.flagValues, rev) = [x \in {flag} |-> {value}]
  <2> DEFINE cmd == Given(name, f, value)
             values == [x \in {f} |-> {value}]
  <2>1. cmd.name = name /\ cmd.args = <<"apply">> /\ cmd.flags = {f} /\ cmd.flagValues = values
    BY DEF Given
  <2>2. canonicalizeFlags({f}, rev) = {flag}
    BY <1>2 DEF canonicalizeFlags
  <2>3. DOMAIN values = {f} /\ values[f] = {value}
    OBVIOUS
  <2> HIDE DEF values, cmd
  <2>4. UNION {values[k] : k \in {k \in DOMAIN values : canonicalName(k, rev) = flag}} = {value}
    <3>1. {k \in DOMAIN values : canonicalName(k, rev) = flag} = {f}
      BY <1>2, <2>3
    <3>2. {values[k] : k \in {f}} = {{value}}
      BY <2>3
    <3> QED
      BY <3>1, <3>2
  <2>5. canonicalizeFlagValues(values, rev) = [x \in {flag} |-> {value}]
    BY <2>2, <2>3, <2>4 DEF canonicalizeFlagValues
  <2> QED
    BY <2>1, <2>2, <2>5 DEF cmd
<1> DEFINE values == [x \in {flag} |-> {value}]
           tests == \A e \in spec.flagValues :
                      LET asked == canonicalName(e.name, rev)
                      IN  /\ asked \in DOMAIN values /\ values[asked] # {}
                          /\ evalGlobMatch(e.glob, values[asked]) /\ matchRegex(e.regex, values[asked])
           answer == /\ spec.command \in {"", name}
                     /\ matchFlagsAll(spec.flagsAll, {flag}) /\ matchFlagsAny(spec.flagsAny, {flag})
                     /\ matchSubcommandsAll(spec.subcommandsAll, <<"apply">>)
                     /\ matchSubcommandsAny(spec.subcommandsAny, <<"apply">>)
                     /\ evalGlobMatch(spec.glob, Elems(<<"apply">>)) /\ matchRegex(spec.regex, Elems(<<"apply">>))
                     /\ tests
<1>4. ASSUME NEW f \in spellings(flag, aliases)
      PROVE  matchSpecWith(spec, Given(name, f, value), rev, rev) <=> answer
  <2>1. PICK cmd : cmd = Given(name, f, value)
    OBVIOUS
  <2>2. /\ cmd.name = name /\ cmd.args = <<"apply">> /\ canonicalizeFlags(cmd.flags, rev) = {flag}
        /\ canonicalizeFlagValues(cmd.flagValues, rev) = values
    BY <1>3, <2>1
  <2> HIDE DEF values
  <2>3. matchFlagValues(spec.flagValues, cmd, rev) <=> tests
    BY <2>2, Zenon DEF matchFlagValues
  <2> HIDE DEF tests
  <2>4. matchSpecWith(spec, cmd, rev, rev) <=> answer
    BY <2>2, <2>3, Zenon DEF matchSpecWith
  <2> QED
    BY <2>1, <2>4, Zenon
<1>5. \A cmd : matchSpec(spec, cmd) = {matchSpecWith(spec, cmd, rev, rev)}
  BY <1>d, <1>1 DEF matchSpec
<1>6. \A cmd : matchSpecWith(spec, cmd, rev, rev) \in BOOLEAN
  BY DEF matchSpecWith
<1>7. flag \in spellings(flag, aliases)
  BY DEF spellings
<1>8. \A f \in spellings(flag, aliases) :
        matchSpec(spec, Given(name, f, value)) = {matchSpecWith(spec, Given(name, flag, value), rev, rev)}
  <2> HIDE DEF answer
  <2>1. ASSUME NEW f \in spellings(flag, aliases)
        PROVE  matchSpecWith(spec, Given(name, f, value), rev, rev)
                 = matchSpecWith(spec, Given(name, flag, value), rev, rev)
    BY <1>4, <1>6, <1>7, Zenon
  <2> QED
    BY <1>5, <2>1, Zenon
<1> QED
  BY <1>c, <1>6, <1>8, Zenon DEF aliases

Spelled(entries, aliases) == UNION {spellings(e.name, aliases) : e \in entries}
EntrySpecs(entries) ==
  {[name |-> e.name, glob |-> globOf(e.glob), regex |-> regexOf(e.regex)] : e \in entries}

\* What is known of a flag depends on the names in the entries, not on their patterns.
LEMMA AskedByName ==
  ASSUME NEW entries, NEW aliases
  PROVE  Spelled(EntrySpecs(entries), aliases) = Spelled(entries, aliases)
<1> DEFINE spec(e) == [name |-> e.name, glob |-> globOf(e.glob), regex |-> regexOf(e.regex)]
           specs == {spec(e) : e \in entries}
<1>1. \A e : spec(e).name = e.name
  OBVIOUS
<1>2. \A x \in specs : \E e \in entries : x = spec(e)
  BY Zenon
<1>3. \A e \in entries : spec(e) \in specs
  BY Zenon
<1> HIDE DEF spec, specs
<1>4. \A x \in specs : \E e \in entries : x.name = e.name
  BY <1>1, <1>2, Zenon
<1>5. \A e \in entries : \E x \in specs : x.name = e.name
  BY <1>1, <1>3, Zenon
<1>6. ASSUME NEW f PROVE f \in UNION {spellings(x.name, aliases) : x \in specs}
                           <=> f \in UNION {spellings(e.name, aliases) : e \in entries}
  BY <1>4, <1>5
<1>7. UNION {spellings(x.name, aliases) : x \in specs} = UNION {spellings(e.name, aliases) : e \in entries}
  BY <1>6
<1> QED
  BY <1>7, Zenon DEF specs, spec, Spelled, EntrySpecs

\* The flags that the parser knows to take a value are those a rule asks a value of.
LEMMA TakingAreAsked ==
  ASSUME NEW name
  PROVE  /\ \A f \in TakingOf(name) :
              \E i \in DOMAIN config : \E e \in Elems(config[i].match.flagValues) :
                f \in spellings(e.name, config[i].match.flagAliases)
         /\ \A i \in DOMAIN config : config[i].match.command \in {"", name} =>
              \A e \in Elems(config[i].match.flagValues) :
                spellings(e.name, config[i].match.flagAliases) \subseteq TakingOf(name)
<1> DEFINE rules == rulesOf(config)
           asking == {r \in Elems(rules) : r.match.flagValues # {}}
           asked(r) == UNION {spellings(e.name, r.match.flagAliases) : e \in r.match.flagValues}
           table == ResolvedValueTakingFlags(rules)
<1>1. Elems(rules) = {rules[i] : i \in DOMAIN config} /\ \A i \in DOMAIN config : rules[i].match = specOf(config[i].match)
  BY DEF rulesOf, Elems
<1>2. \A c : /\ specOf(c).command = c.command /\ specOf(c).flagAliases = c.flagAliases
             /\ specOf(c).flagValues = {[name |-> e.name, glob |-> globOf(e.glob), regex |-> regexOf(e.regex)] :
                                          e \in Elems(c.flagValues)}
  BY DEF specOf
<1>3. /\ DOMAIN table = {r.match.command : r \in asking}
      /\ \A c \in DOMAIN table : table[c] = UNION {asked(r) : r \in {r \in asking : r.match.command = c}}
  BY Zenon DEF ResolvedValueTakingFlags
<1> HIDE DEF table, rules
<1>4. \A i \in DOMAIN config :
        /\ rules[i] \in Elems(rules) /\ rules[i].match.command = config[i].match.command
        /\ asked(rules[i]) = UNION {spellings(e.name, config[i].match.flagAliases) : e \in Elems(config[i].match.flagValues)}
        /\ rules[i].match.flagValues # {} <=> Elems(config[i].match.flagValues) # {}
  <2> TAKE i \in DOMAIN config
  <2>1. PICK c : c = config[i].match
    OBVIOUS
  <2>2. PICK r : r = rules[i]
    OBVIOUS
  <2>3. /\ r.match.command = c.command /\ r.match.flagAliases = c.flagAliases
        /\ r.match.flagValues = {[name |-> e.name, glob |-> globOf(e.glob), regex |-> regexOf(e.regex)] :
                                   e \in Elems(c.flagValues)}
    BY <1>1, <1>2, <2>1, <2>2, Zenon
  <2>4. asked(r) = UNION {spellings(e.name, c.flagAliases) : e \in Elems(c.flagValues)}
    <3>1. asked(r) = Spelled(r.match.flagValues, r.match.flagAliases)
      BY Zenon DEF Spelled
    <3>2. r.match.flagValues = EntrySpecs(Elems(c.flagValues))
      BY <2>3, Zenon DEF EntrySpecs
    <3> HIDE DEF asked
    <3>3. asked(r) = Spelled(Elems(c.flagValues), c.flagAliases)
      BY <2>3, <3>1, <3>2, AskedByName, Zenon
    <3> QED
      BY <3>3, Zenon DEF Spelled
  <2>5. r.match.flagValues # {} <=> Elems(c.flagValues) # {}
    BY <2>3
  <2>6. rules[i] \in Elems(rules)
    BY <1>1
  <2> HIDE DEF asked
  <2> QED
    BY <2>1, <2>2, <2>3, <2>4, <2>5, <2>6, Zenon
<1> HIDE DEF asked
<1>5. TakingOf(name) = UNION {table[c] : c \in DOMAIN table \cap {"", name}}
  BY Zenon DEF TakingOf, table, rules
<1>6. ASSUME NEW f \in TakingOf(name)
      PROVE  \E i \in DOMAIN config : \E e \in Elems(config[i].match.flagValues) :
               f \in spellings(e.name, config[i].match.flagAliases)
  <2>1. PICK c \in DOMAIN table : f \in table[c]
    BY <1>5, Zenon
  <2>2. PICK r \in asking : f \in asked(r)
    BY <1>3, <2>1
  <2>3. PICK i \in DOMAIN config : r = rules[i]
    BY <1>1
  <2> QED
    BY <1>4, <2>2, <2>3
<1>7. ASSUME NEW i \in DOMAIN config, config[i].match.command \in {"", name},
             NEW e \in Elems(config[i].match.flagValues),
             NEW f \in spellings(e.name, config[i].match.flagAliases)
      PROVE  f \in TakingOf(name)
  <2> DEFINE c == config[i].match.command
  <2>1. rules[i] \in asking /\ rules[i].match.command = c /\ f \in asked(rules[i])
    BY <1>4
  <2> HIDE DEF asking
  <2>2. c \in DOMAIN table /\ f \in table[c]
    BY <1>3, <2>1
  <2> QED
    BY <1>5, <1>7, <2>2, Zenon
<1> QED
  BY <1>6, <1>7, Zenon

\* Each of them can be written.
LEMMA AskedHaveForms ==
  ASSUME LoadInv, step = "loaded", NEW i \in DOMAIN config, NEW e \in Elems(config[i].match.flagValues)
  PROVE  spellings(e.name, config[i].match.flagAliases) \subseteq DOMAIN Forms
<1>1. i \in DOMAIN file.rules
  BY DEF LoadInv, Copied
<1> DEFINE w == file.rules[i]
           c == w.match
           d == decodeClause(c)
<1>2. /\ file \in Files /\ IsClause(c) /\ Sound(c)
      /\ config[i].match = compileClause(d)
  BY <1>1, AllDone DEF Clauses
<1>3. DOMAIN c = ClauseFields /\ \A j \in DOMAIN c.flagValues : DOMAIN c.flagValues[j] = {"name", "glob", "regex"}
  BY <1>2 DEF IsClause, Elems
<1>4. DOMAIN d = ClauseFields /\ d.flagAliases = c.flagAliases /\ d.flagValues = c.flagValues
  BY <1>3, Decoded
<1> HIDE DEF c, d, w
<1>5. /\ config[i].match.flagAliases = c.flagAliases
      /\ DOMAIN config[i].match.flagValues = DOMAIN c.flagValues
      /\ \A j \in DOMAIN c.flagValues : config[i].match.flagValues[j].name = c.flagValues[j].name
  BY <1>2, <1>3, <1>4, CompiledFields
<1>6. PICK j \in DOMAIN c.flagValues : e = config[i].match.flagValues[j]
  BY <1>5 DEF Elems
<1>7. e.name = c.flagValues[j].name /\ c.flagValues[j] \in Elems(c.flagValues)
  BY <1>5, <1>6 DEF Elems
<1>8. e.name \notin Dashed \cup {""}
  BY <1>2, <1>7, Zenon DEF Sound, BrokenEntry
<1>9. spellings(e.name, c.flagAliases) \subseteq DOMAIN Forms
  BY <1>1, <1>2, <1>7, <1>8, FormsAssumption, Zenon DEF c, w
<1> QED
  BY <1>5, <1>9

\* So each of the forms reads.
LEMMA FormsAreReadable ==
  ASSUME FormsStandApart, NEW vt, vt \subseteq DOMAIN Forms, NEW flag \in vt,
         NEW value \in DOMAIN Forms[flag], NEW form \in Forms[flag][value]
  PROVE  Readable(form, flag, value, vt)
<1>1. flag \in DOMAIN Forms
  OBVIOUS
<1>2. IsForm(form, flag, value) /\ Shape["apply"].kind = "plain"
  BY <1>1, FormsAssumption, Zenon
<1>3. Shape[form[1]].name # flag => Shape[form[1]].name \notin DOMAIN Forms
  BY <1>1, Zenon DEF FormsStandApart
<1>4. Shape[form[1]].name # flag => Shape[form[1]].name \notin vt
  BY <1>3
<1> QED
  BY <1>2, <1>4, Zenon DEF Readable

\* What SeesValues asks, value by value.
LEMMA SeesEach ==
  ASSUME NEW c,
         ASSUME NEW e \in Elems(c.flagValues), Unambiguous(c.flagAliases),
                \A d \in DOMAIN c.flagAliases : e.name \notin c.flagAliases[d],
                NEW name, c.command \in {"", name}, NEW value \in DOMAIN Forms[e.name]
         PROVE  \E matches \in BOOLEAN : \A cmd \in WaysToWrite(spellings(e.name, c.flagAliases), name, value) :
                  cmd.args = <<"apply">> /\ matchSpec(specOf(c), cmd) = {matches}
  PROVE  SeesValues(c, c.command)
<1>1. SUFFICES ASSUME NEW e \in Elems(c.flagValues), Unambiguous(c.flagAliases),
                      \A d \in DOMAIN c.flagAliases : e.name \notin c.flagAliases[d],
                      NEW name \in IF c.command = "" THEN {"git", "kubectl"} ELSE {c.command},
                      NEW value \in DOMAIN Forms[e.name]
               PROVE  \E matches \in BOOLEAN : \A cmd \in WaysToWrite(spellings(e.name, c.flagAliases), name, value) :
                        cmd.args = <<"apply">> /\ matchSpec(specOf(c), cmd) = {matches}
  BY Zenon DEF SeesValues
<1>2. c.command \in {"", name}
  BY Zenon DEF SeesValues
<1> QED
  BY <1>1, <1>2, Zenon

\* A clause sees the values of the flags that the parser knows to take one.
LEMMA SeesAll ==
  ASSUME FormsStandApart, NEW c,
         \A e \in Elems(c.flagValues) : spellings(e.name, c.flagAliases) \subseteq DOMAIN Forms,
         \A name : TakingOf(name) \subseteq DOMAIN Forms,
         \A name : c.command \in {"", name} =>
           \A e \in Elems(c.flagValues) : spellings(e.name, c.flagAliases) \subseteq TakingOf(name)
  PROVE  SeesValues(c, c.command)
<1>1. ASSUME NEW e \in Elems(c.flagValues), Unambiguous(c.flagAliases),
             \A d \in DOMAIN c.flagAliases : e.name \notin c.flagAliases[d],
             NEW name, c.command \in {"", name}, NEW value \in DOMAIN Forms[e.name]
      PROVE  \E matches \in BOOLEAN : \A cmd \in WaysToWrite(spellings(e.name, c.flagAliases), name, value) :
               cmd.args = <<"apply">> /\ matchSpec(specOf(c), cmd) = {matches}
  <2>1. PICK names : names = spellings(e.name, c.flagAliases)
    BY Zenon
  <2>2. PICK flag : flag = e.name
    BY Zenon
  <2>3. PICK vt : vt = TakingOf(name)
    BY Zenon
  <2>4. names \subseteq vt /\ vt \subseteq DOMAIN Forms /\ flag \in names
    BY <1>1, <2>1, <2>2, <2>3, Zenon DEF spellings
  <2>5. PICK matches \in BOOLEAN : \A f \in names : matchSpec(specOf(c), Given(name, f, value)) = {matches}
    <3>1. OwnName(flag, c.flagAliases)
      BY <1>1, <2>2, Zenon DEF OwnName
    <3>2. \E matches \in BOOLEAN : \A f \in spellings(flag, c.flagAliases) :
            matchSpec(specOf(c), Given(name, f, value)) = {matches}
      BY <3>1, OneAnswer, Zenon
    <3>3. names = spellings(flag, c.flagAliases)
      BY <2>1, <2>2, Zenon
    <3> QED
      BY <3>2, <3>3, Zenon
  <2>6. ASSUME NEW cmd \in WaysToWrite(names, name, value)
        PROVE  cmd.args = <<"apply">> /\ matchSpec(specOf(c), cmd) = {matches}
    <3>1. PICK f \in names : \E form \in Forms[f][value] : cmd = CommandOf(<<name>> \o form \o <<"apply">>, vt, FALSE)
      BY <2>3, Zenon DEF WaysToWrite
    <3>2. PICK form \in Forms[f][value] : cmd = CommandOf(<<name>> \o form \o <<"apply">>, vt, FALSE)
      BY <3>1, Zenon
    <3>3. f \in DOMAIN Forms /\ flag \in DOMAIN Forms /\ f \in vt
      BY <2>4, <3>1, Zenon
    <3>4. value \in DOMAIN Forms[f]
      BY <1>1, <2>2, <3>3, FormsAssumption, Zenon
    <3>5. Readable(form, f, value, vt)
      BY <2>4, <3>2, <3>3, <3>4, FormsAreReadable, Zenon
    <3>6. CommandOf(<<name>> \o form \o <<"apply">>, vt, FALSE) = Given(name, f, value)
      <4>1. ReadsAs(form, name, vt, Given(name, f, value))
        BY <3>5, FormRead, Zenon
      <4> QED
        BY <4>1, Zenon DEF ReadsAs
    <3>7. cmd = Given(name, f, value)
      BY <3>2, <3>6, Zenon
    <3>8. cmd.args = <<"apply">>
      BY <3>7, Zenon DEF Given
    <3> QED
      BY <2>5, <3>1, <3>7, <3>8, Zenon
  <2> QED
    BY <2>1, <2>5, <2>6, Zenon
<1> QED
  BY <1>1, SeesEach, Zenon

\* A rule about the value of a flag answers alike however flag and value are written
\* (ValuesAreSeen), for every set of files that load, commands and forms: the parser that
\* the loaded rules make knows every spelling the rule asks for, and the value never
\* ends among the positionals (load.go:38-66, flagnorm.go:83-175, match.go:118-147).
THEOREM LoadSeesValues ==
  ASSUME FormsStandApart
  PROVE  Spec => []ValuesAreSeen
<1>1. LoadInv => ValuesAreSeen
  <2> SUFFICES ASSUME LoadInv, step = "loaded", NEW i \in DOMAIN config
               PROVE  SeesValues(config[i].match, config[i].match.command)
    BY DEF ValuesAreSeen, Elems
  <2>1. PICK c : c = config[i].match
    OBVIOUS
  <2>2. \A e \in Elems(c.flagValues) : spellings(e.name, c.flagAliases) \subseteq DOMAIN Forms
    BY <2>1, AskedHaveForms, Zenon
  <2>3. \A name : TakingOf(name) \subseteq DOMAIN Forms
    BY TakingAreAsked, AskedHaveForms, Zenon
  <2>4. \A name : c.command \in {"", name} =>
          \A e \in Elems(c.flagValues) : spellings(e.name, c.flagAliases) \subseteq TakingOf(name)
    BY <2>1, TakingAreAsked, Zenon
  <2>5. SeesValues(c, c.command)
    BY <2>2, <2>3, <2>4, SeesAll, Zenon
  <2> QED
    BY <2>1, <2>5, Zenon
<1> QED
  BY <1>1, LoadsInv, PTL
================================================================================
