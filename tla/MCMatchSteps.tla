----------------------------- MODULE MCMatchSteps ------------------------------
EXTENDS MatchSteps

Nil == [mode |-> "nil", accepts |-> {}]
Clauses == {Nil} \cup [mode : {"any", "all"}, accepts : {{"x"}}]
NoAliases == [c \in {} |-> {}]

\* push, remote add: a verb path of each length; f and force: two spellings.
MCSpecs ==
  [command : {"git"}, flagsAll : {{}, {"r"}}, flagsAny : {{}, {"f"}},
   flagAliases : {[f |-> {"force"}], [f |-> {"force"}, r |-> {"force"}]},
   subcommandsAll : {{}}, subcommandsAny : {{}, {<<"push">>, <<"x", "push">>}},
   glob : {Nil, [mode |-> "any", accepts |-> {"x"}]}, regex : {Nil},
   flagValues : {{}} \cup {{[name |-> n, glob |-> g, regex |-> Nil]} :
                             n \in {"f", "force"}, g \in Clauses \ {Nil}}]
  \cup
  [command : {""}, flagsAll : {{}}, flagsAny : {{}}, flagAliases : {NoAliases},
   subcommandsAll : {{}, {<<"push">>}, {<<"push">>, <<"x">>}}, subcommandsAny : {{}},
   glob : {Nil}, regex : Clauses, flagValues : {{}}]
================================================================================
