------------------------------- MODULE MatchSteps -------------------------------
(* A command line edited while the MatchSpec stays: one more positional, one    *)
(* more flag, one more value, or the same flag spelled another way.  The steps  *)
(* are the caller's, who chooses how to write a command; what a step may do to  *)
(* the result of matchSpec is the matcher's doing.                              *)
EXTENDS RuleMatch

CONSTANTS MatchSpecs,  \* the specs to match against
          Words,       \* positional words
          Flags,       \* flag names, in every spelling
          Values,      \* flag values
          MaxArgs      \* bound on the number of positionals

ASSUME PathsAssumption ==
  \A s \in MatchSpecs : \A p \in s.subcommandsAll \cup s.subcommandsAny : p \in Seq(Elems(p))

VARIABLES spec, cmd
edited == <<spec, cmd>>

EditInit ==
  /\ spec \in MatchSpecs
  /\ cmd = [name |-> "git", flags |-> {}, flagValues |-> [f \in {} |-> {}],
            args |-> << >>, inspectionFailed |-> FALSE]

AppendArg ==
  /\ Len(cmd.args) < MaxArgs
  /\ \E w \in Words : cmd' = [cmd EXCEPT !.args = Append(@, w)]
  /\ UNCHANGED spec

AddFlag ==
  /\ \E f \in Flags \ cmd.flags : cmd' = [cmd EXCEPT !.flags = @ \cup {f}]
  /\ UNCHANGED spec

valuesOf(f) == IF f \in DOMAIN cmd.flagValues THEN cmd.flagValues[f] ELSE {}

\* One more occurrence of a flag the command has, with a value.
AddValue ==
  /\ \E f \in cmd.flags, v \in Values :
       cmd' = [cmd EXCEPT !.flagValues = [g \in DOMAIN @ \cup {f} |->
                 IF g = f THEN valuesOf(f) \cup {v} ELSE @[g]]]
  /\ UNCHANGED spec

\* Every occurrence of flag f is written g instead, another name of the same flag.
Respell(f, g) ==
  /\ LET flags == (cmd.flags \ {f}) \cup {g}
         named == (DOMAIN cmd.flagValues \ {f}) \cup (IF f \in DOMAIN cmd.flagValues THEN {g} ELSE {})
         written == [k \in named |-> IF k = g THEN valuesOf(f) \cup valuesOf(g) ELSE cmd.flagValues[k]]
         respelled == [cmd EXCEPT !.flags = flags]
     IN  cmd' = [respelled EXCEPT !.flagValues = written]
  /\ UNCHANGED spec

Respelling ==
  \E c \in DOMAIN spec.flagAliases : \E f, g \in spellings(c, spec.flagAliases) :
    f # g /\ f \in cmd.flags /\ Respell(f, g)

Edit == AppendArg \/ AddFlag \/ AddValue \/ Respelling

EditSpec == EditInit /\ [][Edit]_edited

--------------------------------------------------------------------------------
\* Each alternative belongs to one canonical name and is not canonical itself.
PlainAliases ==
  LET al == spec.flagAliases
  IN  \A c \in DOMAIN al :
        /\ al[c] \cap DOMAIN al = {}
        /\ \A d \in DOMAIN al \ {c} : al[c] \cap al[d] = {}

\* Every clause asks for something to be present.
AsksForPresence ==
  /\ spec.glob.mode # "all" /\ spec.regex.mode # "all"
  /\ \A e \in spec.flagValues : e.glob.mode # "all" /\ e.regex.mode # "all"

\* flag_aliases makes the spellings of a flag interchangeable (README.md:244):
\* writing --recursive for -r changes no result, captured values included.
SpellingIsIrrelevant ==
  [][Respelling /\ PlainAliases => matchSpec(spec, cmd') = matchSpec(spec, cmd)]_edited

\* A spec whose clauses all ask for something to be present keeps matching a command
\* that grows: a positional appended, a flag or a value added to a command line a
\* rule denies does not take it out of the rule's reach.
GrowthKeepsMatch ==
  [][~Respelling /\ AsksForPresence
       => (TRUE \in matchSpec(spec, cmd) => TRUE \in matchSpec(spec, cmd'))]_edited
================================================================================
