------------------------------- MODULE Decisions -------------------------------
(* The decision lattice deny > ask > allow that every layer of wardhook         *)
(* aggregates over: rules into a command, commands into an invocation           *)
(* (internal/rule/evaluate.go) and invocations into the answer of the hook      *)
(* (cmd/wardhook/run.go, which repeats the same ranks).                         *)
EXTENDS Integers

\* hook.Decision: the three values load.go:84 lets a rule's action take.
Decision == {"allow", "ask", "deny"}

\* Priority ranks; any other string ranks below allow.
rank(d) ==
  IF d = "deny" THEN 3 ELSE IF d = "ask" THEN 2 ELSE IF d = "allow" THEN 1 ELSE 0

\* An accumulator that compares with >= instead of >: a later rule of the same
\* strength would take over the explanation.
MutStricterOnTie(a, b) == rank(a) >= rank(b) /\ a # "allow"

\* a replaces b only when it is strictly stronger.
stricter(a, b) == rank(a) > rank(b)
================================================================================
