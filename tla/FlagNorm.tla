------------------------------- MODULE FlagNorm --------------------------------
(* internal/flagnorm/flagnorm.go, Normalize: the words of one command split     *)
(* into flags, captured values and positionals.                                 *)
(*                                                                              *)
(* A word is an atom; Shape says how it reads: [kind, name, eq, value, letters, *)
(* rests] where kind is "plain" (a lone "-" too), "terminator" (--), "long"     *)
(* (--name...) or "short" (-name...); eq tells that "=value" follows the name;  *)
(* letters are the characters of a short word's name and rests[i] what follows  *)
(* its i-th character.  BashParser, the only caller, passes no aliases, so that *)
(* a flag's canonical name is the name it was written with.                     *)
EXTENDS Integers, SequencesExt

CONSTANTS Words, Shape

\* What is read adds flags, captured values and positionals; args holds their positions.
Positionals(args) == [flags |-> {}, captured |-> << >>, args |-> args, ok |-> TRUE]
Nothing == Positionals(<< >>)

Read(flags, captured, next, ok) ==
  [flags |-> flags, captured |-> captured, args |-> << >>, ok |-> ok, next |-> next]

Capture(flag, value) == [flag |-> flag, value |-> value]

\* A missing value goes unnoticed.
MutMissingValueIsFine(words, i, flags, f) ==
  IF i = Len(words) THEN Read(flags, << >>, i + 1, TRUE)
  ELSE Read(flags, <<Capture(f, words[i + 1])>>, i + 2, TRUE)

\* The value of f is the next word: a missing one clears ok.
TakeNext(words, i, flags, f) ==
  IF i = Len(words) THEN Read(flags, << >>, i + 1, FALSE)
  ELSE Read(flags, <<Capture(f, words[i + 1])>>, i + 2, TRUE)

handleDoubleDash(words, i, w, valueTaking) ==
  IF w.eq THEN Read({w.name}, <<Capture(w.name, w.value)>>, i + 1, TRUE)
  ELSE IF w.name \in valueTaking THEN TakeNext(words, i, {w.name}, w.name)
  ELSE Read({w.name}, << >>, i + 1, TRUE)

\* The whole name first, then the first letter of the bundle that takes a value: the
\* rest of the word, or the next word.
handleSingleDash(words, i, w, valueTaking) ==
  LET taking == {j \in DOMAIN w.letters : w.letters[j] \in valueTaking}
      first  == CHOOSE j \in taking : \A j2 \in taking : j <= j2
      upTo(n) == {w.letters[j] : j \in 1 .. n}
  IN  IF w.eq THEN Read({w.name}, <<Capture(w.name, w.value)>>, i + 1, TRUE)
      ELSE IF w.name \in valueTaking THEN TakeNext(words, i, {w.name}, w.name)
      ELSE IF taking = {} THEN Read(upTo(Len(w.letters)), << >>, i + 1, TRUE)
      ELSE IF first < Len(w.letters)
        THEN Read(upTo(first), <<Capture(w.letters[first], w.rests[first])>>, i + 1, TRUE)
      ELSE TakeNext(words, i, upTo(first), w.letters[first])

ReadWord(words, i, valueTaking) ==
  LET w == Shape[words[i]]
  IN  CASE w.kind = "long"  -> handleDoubleDash(words, i, w, valueTaking)
        [] w.kind = "short" -> handleSingleDash(words, i, w, valueTaking)
        [] w.kind = "plain" -> [Read({}, << >>, i + 1, TRUE) EXCEPT !.args = <<i>>]

\* A reading followed by what the words after it add.  (As a function of that, since TLC
\* evaluates the argument of a function once and that of an operator at each use.)
Joined(read, rest) ==
  LET followedBy[more \in {rest}] ==
        [flags |-> read.flags \cup more.flags, captured |-> read.captured \o more.captured,
         args |-> read.args \o more.args, ok |-> read.ok /\ more.ok]
  IN  followedBy[rest]

\* words[1] is the command; then words[2], the word after it that is not its value, and
\* so on; everything after "--" is positional.
Normalize(words, valueTaking) ==
  LET from[i \in 2 .. Len(words) + 1] ==
        IF i > Len(words) THEN Nothing
        ELSE IF Shape[words[i]].kind = "terminator"
          THEN Positionals([j \in 1 .. Len(words) - i |-> i + j])
        ELSE LET read == ReadWord(words, i, valueTaking)
                 rest == from[read.next]
             IN  Joined(read, rest)
  IN  IF words = << >> THEN Nothing ELSE from[2]

valuesByFlag(captured) ==
  [f \in {captured[k].flag : k \in DOMAIN captured} |->
     {captured[k].value : k \in {k \in DOMAIN captured : captured[k].flag = f}}]

\* The Command that bash_parser.go makes of a call's words, as the rules see it.
AsCommand(words, norm, inspectionFailed) ==
  [name |-> words[1], flags |-> norm.flags, flagValues |-> valuesByFlag(norm.captured),
   args |-> [k \in DOMAIN norm.args |-> words[norm.args[k]]],
   inspectionFailed |-> inspectionFailed]

CommandOf(words, valueTaking, inspectionFailed) ==
  AsCommand(words, Normalize(words, valueTaking), inspectionFailed)
================================================================================
