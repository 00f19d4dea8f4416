------------------------------- MODULE MCTestCmd -------------------------------
EXTENDS TestCmd, TLC

Plain == [kind |-> "plain", name |-> "", eq |-> FALSE, value |-> "", letters |-> << >>, rests |-> << >>]
Short(n, l, r) == [Plain EXCEPT !.kind = "short", !.name = n, !.letters = l, !.rests = r]

MCShape ==
  [w \in Words |->
     CASE w = "-rf"    -> Short("rf", <<"r", "f">>, <<"f", "">>)
       [] w = "-c"     -> Short("c", <<"c">>, <<"">>)
       [] w = "-n"     -> Short("n", <<"n">>, <<"">>)
       [] w = "-nprod" -> Short("nprod", <<"n", "p", "r", "o", "d">>, <<"prod", "rod", "od", "d", "">>)
       [] OTHER        -> Plain]

\* What the shell parser and the recursion find in each text (module BashParse); the
\* texts are asked about as files, patterns and URLs too.
MCCallsOf ==
  ("" :> << >>) @@ ("/etc" :> <<[words |-> <<"/etc">>, failed |-> FALSE]>>)
    @@ ("rm -rf /etc" :> <<[words |-> <<"rm", "-rf", "/etc">>, failed |-> FALSE]>>)
    @@ ("kubectl -n prod get; rm -rf x" :>
          <<[words |-> <<"kubectl", "-n", "prod", "get">>, failed |-> FALSE],
            [words |-> <<"rm", "-rf", "x">>, failed |-> FALSE]>>)
    @@ ("kubectl -nprod; kubectl get -n" :>
          <<[words |-> <<"kubectl", "-nprod">>, failed |-> FALSE],
            [words |-> <<"kubectl", "get", "-n">>, failed |-> FALSE]>>)
    @@ ("ls; bash -c '('" :>
          <<[words |-> <<"ls">>, failed |-> FALSE], [words |-> <<"bash", "-c", "(">>, failed |-> TRUE]>>)

MCCliFlags == [bash |-> {"c"}]

Nil == [mode |-> "nil", accepts |-> {}]
AnyOf(S) == [mode |-> "any", accepts |-> S]
Blank == [command |-> "", flagsAll |-> {}, flagsAny |-> {}, flagAliases |-> [c \in {} |-> {}],
          subcommandsAll |-> {}, subcommandsAny |-> {}, glob |-> Nil, regex |-> Nil, flagValues |-> {}]
Rule(n, tl, act, m, ex) == [name |-> n, tool |-> tl, action |-> act, match |-> m, except |-> ex]
Value(n, S) == {[name |-> n, glob |-> AnyOf(S), regex |-> Nil]}

DenyRm   == Rule("rm", "Bash", "deny", [Blank EXCEPT !.command = "rm", !.flagsAll = {"r", "f"}], {})
DenyProd == Rule("prod", "Bash", "deny",
                 [Blank EXCEPT !.command = "kubectl", !.flagValues = Value("n", {"prod"})], {})
AskGet   == Rule("get", "Bash", "ask", [Blank EXCEPT !.command = "kubectl", !.subcommandsAny = {<<"get">>}], {})
AskAny   == Rule("any", "*", "ask", [Blank EXCEPT !.glob = AnyOf({"/etc", "get"})], {[Blank EXCEPT !.command = "rm"]})
ReadEtc  == Rule("etc", "Read", "deny", [Blank EXCEPT !.glob = AnyOf({"/etc"})], {})
GlobEtc  == Rule("etc", "Glob", "ask", [Blank EXCEPT !.glob = AnyOf({"/etc"})], {})
UrlAny   == Rule("url", "WebFetch", "ask", Blank, {})
\* Another rule of the name of DenyRm.
AskRm    == Rule("rm", "*", "ask", [Blank EXCEPT !.glob = AnyOf({"/etc", "x"})], {})
\* About a tool that test does not support.
GrepEtc  == Rule("grep", "Grep", "deny", [Blank EXCEPT !.glob = AnyOf({"/etc"})], {})
\* The spelling r is listed under two names.
Either   == Rule("either", "*", "deny",
                 [Blank EXCEPT !.flagsAll = {"f"}, !.flagAliases = "f" :> {"r"} @@ "g" :> {"r"}],
                 {[Blank EXCEPT !.glob = AnyOf({"x"})]})

MCConfigs ==
  {<< >>, <<DenyRm, AskAny, DenyProd>>, <<AskGet, DenyProd, ReadEtc, GlobEtc>>, <<GlobEtc, AskAny, ReadEtc>>,
   <<UrlAny, ReadEtc, AskGet>>, <<Either, AskAny>>, <<GrepEtc, DenyRm, AskRm>>}

Names == {r.name : r \in UNION {Elems(c) : c \in MCConfigs}} \cup {"typo"}

\* --rule more than once: rules of one config, of two, an unknown one, and one twice.
Several == {<<"any", "rm">>, <<"get", "prod">>, <<"url", "etc">>, <<"rm", "typo">>, <<"etc", "etc">>,
            <<"etc", "any", "either">>}

MCCommandLines ==
  {[ok |-> FALSE, ruleNames |-> << >>, tool |-> "", text |-> ""]}
    \cup {[ok |-> TRUE, ruleNames |-> ns, tool |-> tl, text |-> t] :
            ns \in {<< >>} \cup {<<n>> : n \in Names} \cup Several,
            tl \in {"", "Bash", "Edit", "Glob", "WebFetch", "WebSearch", "Grep"},
            t \in DOMAIN MCCallsOf \cup {"$("}}
================================================================================
