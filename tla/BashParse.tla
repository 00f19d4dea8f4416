------------------------------- MODULE BashParse -------------------------------
(* internal/parser/bash_parser.go: from the text of a command line to the list  *)
(* of commands the rules are evaluated on.  The walk over the syntax tree emits *)
(* a command per call; the targets of a wrapper are parsed as texts of their    *)
(* own, one level deeper, and so on.  The recursion of parseCommand and         *)
(* expandRecursive is a stack of levels here; its lists are one list, in which  *)
(* each level appends what the code collects from the levels below.             *)
(*                                                                              *)
(* The shell's grammar is mvdan.cc/sh's matter.  A call is the sequence of its  *)
(* words after quote removal; Tokens[w] is how the text of word w reads when it *)
(* is parsed again (words and ";"), Unclosed the words no text can be parsed    *)
(* with, and Inside[w] the calls of the command substitutions in w.             *)
EXTENDS Recurse

CONSTANTS Tokens, Unclosed, Inside,
          Parsers,     \* the BashParsers: [cliSpecs, maxDepth, valueTakingFlags], with
                       \* cliSpecs: name -> [valueTaking, recurse: its zero or one spec] and
                       \* valueTakingFlags: name, or "" for all -> set of flags
          Lines        \* the command lines: sequences of calls, or NotShell

ASSUME ShapeAssumption ==
  /\ DOMAIN Shape = Words /\ Tokens \in [Words -> Seq(Words)] /\ Inside \in [Words -> Seq(Seq(Words))]
  /\ \A w \in Words : Shape[w].eq => Shape[w].value \in Words

ASSUME ParsersAssumption ==
  \A p \in Parsers :
    /\ p.maxDepth \in Int
    /\ \A name \in DOMAIN p.cliSpecs :
         /\ \A s, t \in p.cliSpecs[name].recurse : s = t
         /\ \A s \in p.cliSpecs[name].recurse :
              /\ s.flags \in Seq(Range(s.flags))
              /\ \A v \in DOMAIN s.subcommands : s.subcommands[v] \in Nat

ASSUME LinesAssumption == \A l \in Lines : l \in Seq(Seq(Words))

NotShell == << << >> >>
Separator == ";"

VARIABLES parser,    \* b, which the copies of the recursion share but for their depth
          line,      \* tool_input.command
          levels,    \* the levels being parsed, outermost first
          cmds,      \* the commands emitted
          outcome    \* "start", "running", "parsed" or "error"

vars == <<parser, line, levels, cmds, outcome>>

--------------------------------------------------------------------------------
maxDepth == IF parser.maxDepth <= 0 THEN 3 ELSE parser.maxDepth

Named(table, name) == IF name \in DOMAIN table THEN table[name] ELSE {}

\* b.specFor and its Recurse, none or one.
recurseOf(name) == IF name \in DOMAIN parser.cliSpecs THEN parser.cliSpecs[name].recurse ELSE {}

\* mergeCLISpecValueTaking: the flags of the spec, the recurse flags folded in.
CliFlags(name) ==
  IF name \notin DOMAIN parser.cliSpecs THEN {}
  ELSE parser.cliSpecs[name].valueTaking
         \cup UNION {{s.flags[n].name : n \in DOMAIN s.flags} : s \in recurseOf(name)}

resolveValueTaking(name) ==
  CliFlags(name) \cup Named(parser.valueTakingFlags, name) \cup Named(parser.valueTakingFlags, "")

\* parser.Parse on a target: the calls of the joined texts.  unescapeDoubleQuoted is
\* part of how Tokens reads.
Broken(target) == \E i \in DOMAIN target : target[i] \in Unclosed

Calls(target) ==
  LET tokens == FlattenSeq([i \in DOMAIN target |-> Tokens[target[i]]])
      end(i) == CHOOSE e \in i .. Len(tokens) + 1 :
                  /\ e = Len(tokens) + 1 \/ tokens[e] = Separator
                  /\ \A j \in i .. e - 1 : tokens[j] # Separator
      callsFrom[i \in 1 .. Len(tokens) + 1] ==
        IF i > Len(tokens) THEN << >>
        ELSE IF tokens[i] = Separator THEN callsFrom[i + 1]
        ELSE <<SubSeq(tokens, i, end(i) - 1)>> \o callsFrom[end(i)]
  IN  callsFrom[1]

\* The calls inside a call's words, which the walk visits after the call itself.
Substituted(call) == FlattenSeq([i \in DOMAIN call |-> Inside[call[i]]])

--------------------------------------------------------------------------------
\* targets: texts still to be parsed; calls: calls still to be visited; owner: the
\* wrapper they come from, by its place in cmds.
Level(targets, calls, depth, owner) ==
  [targets |-> targets, calls |-> calls, depth |-> depth, owner |-> owner]

Top == levels[Len(levels)]
SetTop(level) == [levels EXCEPT ![Len(levels)] = level]

\* The child parser keeps the depth of its parent.
MutSameDepth(wrapperLevel, targets, owner) == Level(targets, << >>, wrapperLevel.depth, owner)

\* The copy of the parser that expandRecursive makes, for the targets of cmds[owner].
Child(wrapperLevel, targets, owner) == Level(targets, << >>, wrapperLevel.depth + 1, owner)

\* The children come after everything else of the line.
MutBreadthFirst(rest, opened) == opened \o SetTop(rest)

\* The children come right after their wrapper.
Descend(rest, opened) == SetTop(rest) \o opened

Init ==
  /\ parser \in Parsers
  /\ line \in Lines
  /\ levels = << >> /\ cmds = << >>
  /\ outcome = "start"

\* The text of the line itself.
Start ==
  /\ outcome = "start"
  /\ IF line = NotShell
       THEN outcome' = "error" /\ UNCHANGED levels
       ELSE outcome' = "running" /\ levels' = <<Level(<< >>, line, 0, 0)>>
  /\ UNCHANGED <<parser, line, cmds>>

\* One call: its command, marked if something is missing, and a level for its targets.
Visit ==
  /\ outcome = "running" /\ levels # << >> /\ Top.calls # << >>
  /\ LET call == Head(Top.calls)
         flags == resolveValueTaking(call[1])
         found == {extractRecursionTargets(call, s, flags) : s \in recurseOf(call[1])}
         targets == {x.targets : x \in {x \in found : x.targets # << >>}}
         tooDeep == targets # {} /\ Top.depth + 1 > maxDepth
         rest == [Top EXCEPT !.calls = Substituted(call) \o Tail(@)]
     IN  /\ cmds' = Append(cmds,
              [words |-> call, depth |-> Top.depth, owner |-> Top.owner,
               inspectionFailed |-> \/ ~Normalize(call, flags).ok
                                    \/ \E x \in found : x.failed
                                    \/ tooDeep])
         /\ levels' = Descend(rest,
              IF targets = {} \/ tooDeep THEN << >>
              ELSE <<Child(Top, CHOOSE t \in targets : TRUE, Len(cmds) + 1)>>)
  /\ UNCHANGED <<parser, line, outcome>>

\* A target that does not parse is tried again.
MutRetryBroken(level) ==
  LET target == Head(level.targets)
  IN  IF Broken(target) THEN level
      ELSE [level EXCEPT !.targets = Tail(@), !.calls = Calls(target)]

\* The targets after the first are forgotten.
MutFirstTargetOnly(level) ==
  LET target == Head(level.targets)
  IN  [level EXCEPT !.targets = << >>, !.calls = IF Broken(target) THEN << >> ELSE Calls(target)]

\* The level goes on to the calls of its next target, none if it cannot be parsed.
NextTarget(level) ==
  LET target == Head(level.targets)
  IN  Level(Tail(level.targets), IF Broken(target) THEN << >> ELSE Calls(target), level.depth, level.owner)

\* The parse error of a target is dropped.
MutForgetMark(target, wrapper) == wrapper

\* The last target decides, as it would if each set the result of all.
MutLastTargetDecides(target, wrapper) == [wrapper EXCEPT !.inspectionFailed = Broken(target)]

\* One broken target marks the wrapper, whatever the others are.
MarkIfBroken(target, wrapper) == [wrapper EXCEPT !.inspectionFailed = @ \/ Broken(target)]

ParseTarget ==
  /\ outcome = "running" /\ levels # << >> /\ Top.calls = << >> /\ Top.targets # << >>
  /\ cmds' = [cmds EXCEPT ![Top.owner] = MarkIfBroken(Head(Top.targets), @)]
  /\ levels' = SetTop(NextTarget(Top))
  /\ UNCHANGED <<parser, line, outcome>>

\* parseCommand or expandRecursive returns to its caller.
Up ==
  /\ outcome = "running" /\ levels # << >> /\ Top.calls = << >> /\ Top.targets = << >>
  /\ levels' = Front(levels)
  /\ UNCHANGED <<parser, line, cmds, outcome>>

Return ==
  /\ outcome = "running" /\ levels = << >>
  /\ outcome' = "parsed"
  /\ UNCHANGED <<parser, line, levels, cmds>>

Next == Start \/ Visit \/ ParseTarget \/ Up \/ Return

Spec == Init /\ [][Next]_vars

--------------------------------------------------------------------------------
Command == [words : Seq(Words), depth : Nat, owner : Nat, inspectionFailed : BOOLEAN]

TypeOK ==
  /\ parser \in Parsers /\ line \in Seq(Seq(Words))
  /\ cmds \in Seq(Command) /\ \A i \in DOMAIN cmds : cmds[i].depth <= maxDepth
  /\ \A n \in DOMAIN levels :
       /\ levels[n].depth = n - 1 /\ n - 1 <= maxDepth /\ levels[n].owner \in 0 .. Len(cmds)
       /\ levels[n].targets \in Seq(Seq(Words)) /\ levels[n].calls \in Seq(Seq(Words))
  /\ outcome \in {"start", "running", "parsed", "error"}

Extractions(call) ==
  {extractRecursionTargets(call, s, resolveValueTaking(call[1])) : s \in recurseOf(call[1])}

TargetsOf(call) == UNION {Range(x.targets) : x \in Extractions(call)}

\* Everything a call runs, at any depth: itself, what its targets run, what its
\* command substitutions run.
Runs ==
  LET runs[call \in Seq(Words)] ==
        LET all(calls) == FlattenSeq([n \in DOMAIN calls |-> runs[calls[n]]])
            inner(x) == FlattenSeq([n \in DOMAIN x.targets |-> all(Calls(x.targets[n]))])
            below == {inner(x) : x \in Extractions(call)}
        IN  <<call>> \o (IF below = {} THEN << >> ELSE CHOOSE b \in below : TRUE)
                    \o all(Substituted(call))
  IN  FlattenSeq([n \in DOMAIN line |-> runs[line[n]]])

\* When no command is marked, the rules see everything the line runs, however deep it
\* is wrapped, in order and each call as often as it is found (bash_parser.go:14-20).
UnmarkedIsComplete ==
  outcome = "parsed" /\ (\A i \in DOMAIN cmds : ~cmds[i].inspectionFailed) =>
    [i \in DOMAIN cmds |-> cmds[i].words] = Runs

\* A command is marked exactly when something in it could not be inspected: a flag
\* without its value, a subcommand cut short, a target that does not parse, a target
\* beyond the depth limit (README.md:673-682).  The mark is the wrapper's, not that of
\* the commands around it.
MarkedWhenUnseen ==
  outcome = "parsed" => \A i \in DOMAIN cmds :
    LET c == cmds[i]
    IN  c.inspectionFailed <=>
          \/ ~Normalize(c.words, resolveValueTaking(c.words[1])).ok
          \/ \E x \in Extractions(c.words) : x.failed
          \/ \E t \in TargetsOf(c.words) : c.depth = maxDepth \/ Broken(t)

\* The list is a walk of the tree of wrappers: a wrapper comes before what it wraps,
\* one level up, and nothing foreign comes in between.
NestedInOrder ==
  \A k \in DOMAIN cmds :
    LET o == cmds[k].owner
    IN  /\ o < k
        /\ cmds[k].depth = IF o = 0 THEN 0 ELSE cmds[o].depth + 1
        /\ \A j \in o + 1 .. k - 1 : cmds[j].owner >= o

\* A target of one wrapper changes neither the commands already emitted nor their
\* order, and no mark is ever withdrawn.
MarksStay ==
  [][/\ Len(cmds) <= Len(cmds')
     /\ \A i \in DOMAIN cmds :
          /\ cmds'[i].words = cmds[i].words
          /\ cmds[i].inspectionFailed => cmds'[i].inspectionFailed]_vars

\* Every target is parsed again, and its targets again, but the recursion ends, with a
\* list or with an error.
Terminates == <>(outcome \in {"parsed", "error"})
================================================================================
