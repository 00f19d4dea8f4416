------------------------------ MODULE MCRuleLoad -------------------------------
EXTENDS RuleLoad, TLC

PlainWord == [kind |-> "plain", name |-> "", eq |-> FALSE, value |-> "", letters |-> << >>, rests |-> << >>]
Long(n) == [PlainWord EXCEPT !.kind = "long", !.name = n]
Short(n, l, r) == [PlainWord EXCEPT !.kind = "short", !.name = n, !.letters = l, !.rests = r]
With(w, v) == [w EXCEPT !.eq = TRUE, !.value = v]

MCShape ==
  [w \in Words |->
     CASE w = "-n"               -> Short("n", <<"n">>, <<"">>)
       [] w = "-n=prod"          -> With(Short("n", <<"n">>, <<"">>), "prod")
       [] w = "-nprod"           -> Short("nprod", <<"n", "p", "r", "o", "d">>, <<"prod", "rod", "od", "d", "">>)
       [] w = "--namespace"      -> Long("namespace")
       [] w = "--namespace=prod" -> With(Long("namespace"), "prod")
       [] w = "-chdir"           -> Short("chdir", <<"c", "h", "d", "i", "r">>, <<"hdir", "dir", "ir", "r", "">>)
       [] w = "-chdir=prod"      -> With(Short("chdir", <<"c", "h", "d", "i", "r">>, <<"hdir", "dir", "ir", "r", "">>), "prod")
       [] w = "-c"               -> Short("c", <<"c">>, <<"">>)
       [] w = "-cprod"           -> Short("cprod", <<"c", "p", "r", "o", "d">>, <<"prod", "rod", "od", "d", "">>)
       [] w = "-vcprod"          -> Short("vcprod", <<"v", "c", "p", "r", "o", "d">>, <<"cprod", "prod", "rod", "od", "d", "">>)
       [] OTHER                  -> PlainWord]

\* README.md:547-556: =, space and attached forms.
MCForms ==
  [f \in {"n", "namespace", "chdir", "c"} |->
     "prod" :> (CASE f = "n"         -> {<<"-n", "prod">>, <<"-n=prod">>, <<"-nprod">>}
                  [] f = "namespace" -> {<<"--namespace", "prod">>, <<"--namespace=prod">>}
                  [] f = "chdir"     -> {<<"-chdir", "prod">>, <<"-chdir=prod">>}
                  [] f = "c"         -> {<<"-c", "prod">>, <<"-cprod">>})]

MCAccepts == "p*" :> {"prod", "pr"} @@ "dev" :> {"dev"} @@ "(" :> {"("}

Matcher(mode, patterns) == [mode |-> mode, patterns |-> patterns, compiled |-> FALSE]
None == Matcher("nil", << >>)
Value(name, glob, regex) == [name |-> name, glob |-> glob, regex |-> regex]

Scalar(v) == [kind |-> "scalar", value |-> v, content |-> << >>]
List(items) == [kind |-> "sequence", value |-> "", content |-> items]
Flat == List(<<Scalar("pr"), Scalar("create")>>)
Nested == List(<<List(<<Scalar("pr"), Scalar("create")>>), List(<<Scalar("list")>>)>>)
Mapping == [Absent EXCEPT !.kind = "mapping"]

Clause ==
  [command |-> "kubectl", flagsAll |-> {}, flagsAny |-> {}, flagAliases |-> [c \in {} |-> {}],
   flagValues |-> << >>, subcommandsAny |-> Absent, subcommandsAll |-> Absent,
   glob |-> None, regex |-> None]

NamespaceAliases == "n" :> {"namespace"}
OnNamespace(mode, patterns) ==
  [Clause EXCEPT !.flagAliases = NamespaceAliases, !.flagValues = <<Value("n", Matcher(mode, patterns), None)>>]
OnRegex(name, patterns) == [Clause EXCEPT !.flagValues = <<Value(name, None, Matcher("any", patterns))>>]

Rule(match, except) == [name |-> "r", tool |-> "Bash", action |-> "deny", match |-> match, except |-> except]

NodesTried ==
  {Absent, EmptyList, Flat, Nested, Mapping, Scalar("pr"), List(<<Scalar("")>>),
   List(<<Scalar("pr"), List(<<Scalar("pr")>>)>>), List(<<List(<<Scalar("pr")>>), Scalar("pr")>>),
   List(<<List(<< >>)>>), List(<<List(<<Flat>>)>>), List(<<Mapping>>), List(<<List(<<Scalar("pr"), Scalar("")>>)>>)}

\* Matchers, entries and aliases, right and wrong.
MatchersTried ==
  {None, Matcher("any", <<"p*", "dev">>), Matcher("all", <<"p*">>), Matcher("any", << >>),
   Matcher("", <<"p*">>), Matcher("most", <<"p*">>), Matcher("all", <<"p*", "[">>), Matcher("any", <<"(">>)}

ClausesTried ==
  {[Clause EXCEPT !.subcommandsAny = n] : n \in NodesTried}
    \cup {[Clause EXCEPT !.subcommandsAll = n] : n \in {Flat, Mapping}}
    \cup {[Clause EXCEPT !.glob = g, !.regex = r] : g \in MatchersTried, r \in MatchersTried}
    \cup {[Clause EXCEPT !.flagValues = <<Value(n, g, r)>>] :
            n \in {"n", "", "-n"}, g \in MatchersTried, r \in {None, Matcher("any", <<"dev">>), Matcher("any", <<"(">>)}}
    \cup {[OnNamespace("any", <<"p*">>) EXCEPT !.flagValues = @ \o <<Value(n, Matcher("all", <<"dev">>), None)>>] :
            n \in {"n", "namespace", "chdir"}}

GoodClauses ==
  {OnNamespace("any", <<"p*">>), OnRegex("chdir", <<"p*", "dev">>),
   [OnRegex("c", <<"p*">>) EXCEPT !.command = ""], OnRegex("namespace", <<"dev">>),
   [Clause EXCEPT !.subcommandsAny = Nested, !.regex = Matcher("all", <<"p*">>)]}

File(rules) == [decodes |-> TRUE, version |-> 1, maxDepth |-> 0, cliSpecsOk |-> TRUE, rules |-> rules]

Good == Rule(OnNamespace("any", <<"dev">>), {})

\* Two flags with one alternative: Load may take the entries for one flag or for two.
Ambiguous ==
  [Clause EXCEPT !.flagAliases = "n" :> {"namespace"} @@ "c" :> {"namespace"},
                 !.flagValues = <<Value("namespace", Matcher("any", <<"p*">>), None), Value("n", Matcher("any", <<"p*">>), None)>>]

\* An alternative with alternatives of its own.
Chained ==
  [Ambiguous EXCEPT !.flagAliases = "n" :> {"namespace"} @@ "c" :> {"n"}]

MCFiles ==
  {File(<<Good, Rule(c, {})>>) : c \in ClausesTried}
    \cup {File(<<Rule(Clause, {c}), Good>>) : c \in ClausesTried}
    \cup {File(<<Rule(a, {}), Rule(b, {}), Rule(c, {})>>) : a \in GoodClauses, b \in GoodClauses, c \in GoodClauses}
    \cup {File(<<[Good EXCEPT !.tool = t, !.match.subcommandsAny = n]>>) : t \in {"", "*", "Read"}, n \in {Absent, EmptyList, Flat}}
    \cup {File(<<[Good EXCEPT !.tool = "Read", !.except = {[Clause EXCEPT !.subcommandsAll = Flat]}]>>)}
    \cup {File(<<Good, [Good EXCEPT !.name = n, !.action = a]>>) : n \in {"", "r"}, a \in {"allow", "deny", "ask", "", "warn"}}
    \cup {[File(<<Good>>) EXCEPT !.decodes = d, !.version = v, !.maxDepth = m, !.cliSpecsOk = o] :
            d \in BOOLEAN, v \in 0 .. 2, m \in -1 .. 1, o \in BOOLEAN}
    \cup {File(<< >>), File(<<Rule(Ambiguous, {}), Good>>), File(<<Rule(Chained, {}), Good>>)}

\* The hypothesis of the proof about values holds here.
ASSUME Hypothesis == FormsStandApart
================================================================================
