-------------------------------- MODULE Recurse --------------------------------
(* internal/parser/recurse.go: the texts that a wrapper command (bash -c,       *)
(* docker exec, kubectl exec ... --) would run, found among its words.          *)
(*                                                                              *)
(* A RecurseSpec is [flags: sequence of names, terminator: BOOLEAN,             *)
(* subcommands: verb -> number of positionals to skip].  A target is the        *)
(* sequence of words whose texts are joined with spaces, never an empty text.   *)
(* The code's words[0] is words[1] here.                                        *)
EXTENDS FlagNorm, Lists

EmptyWord == ""

isFlagToken(w) == Shape[w].kind \in {"long", "short"}

Suffix(words, i) == SubSeq(words, i, Len(words))

terminatorTail(words) ==
  LET stops == {i \in DOMAIN words : Shape[words[i]].kind = "terminator"}
  IN  IF stops = {} THEN << >>
      ELSE Suffix(words, 1 + CHOOSE i \in stops : \A j \in stops : i <= j)

isFlag(w, key) ==
  /\ w.kind = (IF key.short THEN "short" ELSE "long")
  /\ w.name = key.name
  /\ w.eq => w.kind = "long"

\* The last occurrence of the flag decides.
MutLookupLast(words, key) ==
  LET here == {i \in DOMAIN words : isFlag(Shape[words[i]], key)}
      i == CHOOSE i \in here : \A j \in here : i >= j
      value == IF Shape[words[i]].eq THEN Shape[words[i]].value
               ELSE IF i < Len(words) THEN words[i + 1] ELSE EmptyWord
  IN  [found |-> here # {}, value |-> IF here = {} THEN EmptyWord ELSE value]

\* --command=value goes unnoticed.
MutLookupSeparateOnly(words, key) ==
  LET here == {i \in DOMAIN words : isFlag(Shape[words[i]], key) /\ ~Shape[words[i]].eq}
      i == CHOOSE i \in here : \A j \in here : i <= j
  IN  [found |-> here # {},
       value |-> IF here # {} /\ i < Len(words) THEN words[i + 1] ELSE EmptyWord]

\* The first word that is the flag decides, wherever it stands: -c only by itself,
\* --command also with "=".  A letter with "=" or in a bundle is another word.
lookupFlag(words, key) ==
  LET here == {i \in DOMAIN words : isFlag(Shape[words[i]], key)}
      i == CHOOSE i \in here : \A j \in here : i <= j
      value == IF Shape[words[i]].eq THEN Shape[words[i]].value
               ELSE IF i < Len(words) THEN words[i + 1] ELSE EmptyWord
  IN  [found |-> here # {}, value |-> IF here = {} THEN EmptyWord ELSE value]

\* A value given with "=" does not keep the next word from being taken for it.
MutConsumeDespiteEq(words, i, valueTaking) ==
  IF Shape[words[i]].name \in valueTaking THEN i + 2 ELSE i + 1

\* Where to go on after the flag at i; past Len(words) + 1 when its value is missing.
consumeFlag(words, i, valueTaking) ==
  LET w == Shape[words[i]]
  IN  IF w.eq \/ w.name \notin valueTaking THEN i + 1 ELSE i + 2

\* The inner command begins right after the positionals to skip.
MutStartAtOnce(words, i, valueTaking) == i

\* The first positional from i on, or the "--" before it, or the end of the words.
findInnerStart(words, i, valueTaking) ==
  LET from[j \in Nat] ==
        IF j > Len(words) THEN Len(words) + 1
        ELSE IF isFlagToken(words[j]) THEN from[consumeFlag(words, j, valueTaking)]
        ELSE j
  IN  from[i]

NotFound == [found |-> FALSE, ok |-> FALSE, start |-> 0]
TooShort == [found |-> TRUE, ok |-> FALSE, start |-> 0]
FoundAt(i) == [found |-> TRUE, ok |-> TRUE, start |-> i]

\* The loop is at a word and has positionals to skip: spec.Skip - positionalsSeen once a
\* verb has matched, and NoVerb before.
NoVerb == -1

extractSubcommandTarget(words, valueTaking, subcommands) ==
  LET scan[at \in Nat \X Int] ==
        LET i == at[1]
            toSkip == at[2]
            w == words[i]
        IN  IF i > Len(words) THEN IF toSkip = NoVerb THEN NotFound ELSE TooShort
            ELSE IF Shape[w].kind = "terminator"
              THEN IF toSkip = NoVerb THEN NotFound
                   ELSE IF toSkip = 0 THEN FoundAt(i) ELSE TooShort
            ELSE IF isFlagToken(w) THEN scan[<<consumeFlag(words, i, valueTaking), toSkip>>]
            ELSE IF toSkip = NoVerb /\ w \notin DOMAIN subcommands THEN NotFound
            ELSE LET left == IF toSkip = NoVerb THEN subcommands[w] ELSE toSkip - 1
                 IN  IF left = 0 THEN FoundAt(findInnerStart(words, i + 1, valueTaking))
                     ELSE scan[<<i + 1, left>>]
  IN  scan[<<2, NoVerb>>]

\* A leading "--" is not part of the inner command.
subcommandTail(words, at) ==
  LET tail == Suffix(words, at.start)
  IN  IF ~at.ok THEN << >>
      ELSE IF tail # << >> /\ Shape[tail[1]].kind = "terminator" THEN Tail(tail) ELSE tail

\* The texts that are not empty.  (As a function of the texts, since TLC evaluates the
\* argument of a function once and that of an operator at each use.)
nonEmpty(texts) ==
  LET select[t \in {texts}] == AtPlaces(t, {n \in DOMAIN t : t[n] \notin {<< >>, <<EmptyWord>>}})
  IN  select[texts]

\* Every strategy of the spec is applied: the targets, in this order, and whether
\* something that should be there is not.
extractRecursionTargets(words, spec, valueTaking) ==
  LET looked == [n \in DOMAIN spec.flags |-> lookupFlag(words, spec.flags[n])]
      verb == extractSubcommandTarget(words, valueTaking, spec.subcommands)
      texts == [n \in DOMAIN looked |-> <<looked[n].value>>]
               \o <<IF spec.terminator THEN terminatorTail(words) ELSE << >>,
                    subcommandTail(words, verb)>>
  IN  [targets |-> nonEmpty(texts),
       failed  |-> \/ \E n \in DOMAIN looked : looked[n].found /\ looked[n].value = EmptyWord
                   \/ verb.found /\ ~verb.ok]
================================================================================
