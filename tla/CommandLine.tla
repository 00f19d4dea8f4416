------------------------------ MODULE CommandLine ------------------------------
(* A wrapper command typed word by word.  Two scans read the same words: the    *)
(* one of flagnorm.Normalize gives the rules flags and positionals, the one of  *)
(* recurse.go looks for the inner command.  The steps are the user's; what the  *)
(* two scans make of the words, at each step and from one step to the next, is  *)
(* the code's doing.                                                            *)
EXTENDS Recurse, SequencesExt

CONSTANTS Wrappers,  \* the wrapper commands: [name, valueTaking, spec]
          MaxWords   \* bound on the length of the command line

\* A word reads in one of four ways; the letters of a short one are a list.
ASSUME LexiconAssumption ==
  /\ DOMAIN Shape = Words
  /\ \A w \in Words :
       /\ Shape[w].kind \in {"plain", "terminator", "long", "short"}
       /\ Shape[w].letters \in Seq({Shape[w].letters[j] : j \in DOMAIN Shape[w].letters})
       /\ Shape[w].eq \in BOOLEAN

\* A wrapper is called by a name; it never skips less than nothing (types.go:74).
ASSUME WrappersAssumption ==
  \A r \in Wrappers :
    /\ r.name \in Words /\ Shape[r.name].kind = "plain"
    /\ r.spec.flags \in Seq({r.spec.flags[n] : n \in DOMAIN r.spec.flags})
    /\ \A v \in DOMAIN r.spec.subcommands : r.spec.subcommands[v] \in Nat

VARIABLES wrapper, words
vars == <<wrapper, words>>

valueTaking == wrapper.valueTaking \cup {wrapper.spec.flags[n].name : n \in DOMAIN wrapper.spec.flags}

Init == wrapper \in Wrappers /\ words = <<wrapper.name>>

AppendWord ==
  /\ Len(words) < MaxWords
  /\ \E w \in Words : words' = Append(words, w)
  /\ UNCHANGED wrapper

Spec == Init /\ [][AppendWord]_vars

--------------------------------------------------------------------------------
normOf(ws) == Normalize(ws, valueTaking)
extractionOf(ws) == extractRecursionTargets(ws, wrapper.spec, valueTaking)
norm == normOf(words)
verb == extractSubcommandTarget(words, valueTaking, wrapper.spec.subcommands)
extraction == extractionOf(words)

Skip == wrapper.spec.subcommands[words[norm.args[1]]]

\* Where the inner command of a subcommand begins, its "--" left out.
InnerStart ==
  IF verb.start <= Len(words) /\ Shape[words[verb.start]].kind = "terminator"
    THEN verb.start + 1 ELSE verb.start

\* The two scans partition the words alike (recurse.go:13-14, "to correctly partition
\* flags from positionals"): the inner command begins at the positional that comes
\* after the verb and the skipped ones among the positionals the rules see.
PartitionsAgree ==
  /\ verb.found /\ verb.ok =>
       /\ norm.args # << >> /\ words[norm.args[1]] \in DOMAIN wrapper.spec.subcommands
       /\ InnerStart = IF Len(norm.args) >= Skip + 2 THEN norm.args[Skip + 2] ELSE Len(words) + 1
  /\ ~verb.found /\ norm.args # << >> /\ words[norm.args[1]] \in DOMAIN wrapper.spec.subcommands =>
       \E i \in 1 .. norm.args[1] - 1 : Shape[words[i]].kind = "terminator"

\* What was found on a command line is still found when words follow: no later word
\* takes a flag, a positional or a captured value away, and an inner command only
\* gets longer.
OnlyAdds(n1, x1, n2, x2) ==
  /\ n1.flags \subseteq n2.flags
  /\ IsPrefix(n1.args, n2.args)
  /\ IsPrefix(n1.captured, n2.captured)
  /\ \A n \in DOMAIN x1.targets : \E m \in DOMAIN x2.targets :
       IsPrefix(x1.targets[n], x2.targets[m])

GrowthOnlyAdds ==
  [][LET more == words'
     IN  OnlyAdds(norm, extraction, normOf(more), extractionOf(more))]_vars

FirstCaptured(f) ==
  LET mine == {k \in DOMAIN norm.captured : norm.captured[k].flag = f}
  IN  {norm.captured[k].value : k \in {k \in mine : \A m \in mine : k <= m}}

\* No flag was taken for the value of the flag before it.
NoFlagTaken == \A n \in DOMAIN norm.captured : ~isFlagToken(norm.captured[n].value)

\* A recurse flag of one letter is written -c, a longer one --command, which is all that
\* README.md:608 promises.  Within a bundle (bash -lc x) flagnorm.go:150-167 captures a
\* value that lookupFlag neither finds nor marks (recurse.go:106).
WrittenAlone ==
  \A i \in DOMAIN words, n \in DOMAIN wrapper.spec.flags :
    LET w == Shape[words[i]]
        key == wrapper.spec.flags[n]
    IN  isFlagToken(words[i]) /\ key.name \in {w.name} \cup {w.letters[j] : j \in DOMAIN w.letters} =>
          isFlag(w, key)

\* The value a recurse flag is captured with is inspected if the flag is written as
\* README.md:607-608 has it: it is one of the targets, or it is empty and the wrapper is
\* marked.
CapturedIsInspected ==
  NoFlagTaken /\ WrittenAlone =>
    \A n \in DOMAIN wrapper.spec.flags :
      \A v \in FirstCaptured(wrapper.spec.flags[n].name) :
        IF v = EmptyWord THEN extraction.failed
        ELSE \E m \in DOMAIN extraction.targets : extraction.targets[m] = <<v>>

\* A command line that stops too early is never taken for a complete one: if its last
\* word is a flag waiting for its value, or a verb or an image is still to be
\* followed by what it announces, the wrapper is marked.
TooEarlyIsMarked ==
  LET last == Shape[words[Len(words)]]
      more == Len(norm.args) > 0 /\ words[norm.args[1]] \in DOMAIN wrapper.spec.subcommands
              /\ Len(norm.args) <= Skip
      waiting == isFlagToken(words[Len(words)]) /\ ~last.eq /\ last.name \in valueTaking
      ended == \E i \in DOMAIN words : Shape[words[i]].kind = "terminator"
  IN  NoFlagTaken /\ ~ended /\ (waiting \/ more) => ~norm.ok \/ extraction.failed
================================================================================
