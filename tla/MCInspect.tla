------------------------------- MODULE MCInspect -------------------------------
(* The wrappers of README.md:653-661, in one another, around calls that some    *)
(* rule is about; and lines that put wrappers to other uses, cut short, with    *)
(* several targets, broken texts and command substitutions.                     *)
EXTENDS Inspect

CONSTANTS WithQuotes   \* are there quoted words of several words within a wrapper?

Plain == [kind |-> "plain", name |-> "", eq |-> FALSE, value |-> "", letters |-> << >>, rests |-> << >>]
Long(n) == [Plain EXCEPT !.kind = "long", !.name = n]
Short(n, l, r) == [Plain EXCEPT !.kind = "short", !.name = n, !.letters = l, !.rests = r]

MCShape ==
  [w \in Words |->
     CASE w = "--"        -> [Plain EXCEPT !.kind = "terminator"]
       [] w = "-c"        -> Short("c", <<"c">>, <<"">>)
       [] w = "-n"        -> Short("n", <<"n">>, <<"">>)
       [] w = "-nprod"    -> Short("nprod", <<"n", "p", "r", "o", "d">>, <<"prod", "rod", "od", "d", "">>)
       [] w = "-it"       -> Short("it", <<"i", "t">>, <<"t", "">>)
       [] w = "-rf"       -> Short("rf", <<"r", "f">>, <<"f", "">>)
       [] w = "--name"    -> Long("name")
       [] w = "--target"  -> Long("target")
       [] w = "--command" -> Long("command")
       [] OTHER           -> Plain]

\* Quoted texts, as they read without their quotes.
Quoted ==
  [w \in {"'rm -rf /etc'", "'ls; git push'", "'bash -c rm -rf /etc'", "'kubectl -n prod delete'", "'reboot'",
          "'bash -c reboot'", "'bash -c bash -c reboot'", "'bash -c $('"} |->
     CASE w = "'rm -rf /etc'"            -> <<"rm", "-rf", "/etc">>
       [] w = "'ls; git push'"           -> <<"ls", ";", "git", "push">>
       [] w = "'bash -c rm -rf /etc'"    -> <<"bash", "-c", "'rm -rf /etc'">>
       [] w = "'kubectl -n prod delete'" -> <<"kubectl", "-n", "prod", "delete">>
       [] w = "'reboot'"                 -> <<"reboot">>
       [] w = "'bash -c reboot'"         -> <<"bash", "-c", "'reboot'">>
       [] w = "'bash -c bash -c reboot'" -> <<"bash", "-c", "'bash -c reboot'">>
       [] w = "'bash -c $('"             -> <<"bash", "-c", "$(">>]

MCTokens == [w \in Words |-> IF w \in DOMAIN Quoted THEN Quoted[w] ELSE IF w = "" THEN << >> ELSE <<w>>]
MCInside ==
  [w \in Words |-> CASE w = "$(git push)"       -> <<<<"git", "push">>>>
                     [] w = "$(bash -c reboot)" -> <<<<"bash", "-c", "'reboot'">>, <<"ls">>>>
                     [] OTHER                   -> << >>]

NoVerbs == [v \in {} |-> 0]
Key(n) == [name |-> n, short |-> Len(n) = 1]
Recursion(flags, terminator, verbs) == {[flags |-> flags, terminator |-> terminator, subcommands |-> verbs]}

MCCliSpecs ==
  [bash    |-> [valueTaking |-> {}, recurse |-> Recursion(<<Key("c")>>, FALSE, NoVerbs)],
   docker  |-> [valueTaking |-> {"name"}, recurse |-> Recursion(<< >>, TRUE, [run |-> 1, exec |-> 1])],
   kubectl |-> [valueTaking |-> {"c", "n"}, recurse |-> Recursion(<< >>, TRUE, [exec |-> 1])],
   gcloud  |-> [valueTaking |-> {}, recurse |-> Recursion(<<Key("command"), Key("c")>>, TRUE, NoVerbs)],
   nsenter |-> [valueTaking |-> {"target"}, recurse |-> Recursion(<< >>, TRUE, NoVerbs)]]

Nil == [mode |-> "nil", accepts |-> {}]
AnyOf(S) == [mode |-> "any", accepts |-> S]
Blank == [command |-> "", flagsAll |-> {}, flagsAny |-> {}, flagAliases |-> [c \in {} |-> {}],
          subcommandsAll |-> {}, subcommandsAny |-> {}, glob |-> Nil, regex |-> Nil, flagValues |-> {}]
Rule(tl, act, m, ex) == [tool |-> tl, action |-> act, match |-> m, except |-> ex]
Value(n, S) == {[name |-> n, glob |-> AnyOf(S), regex |-> Nil]}

DenyRm ==
  Rule("Bash", "deny", [Blank EXCEPT !.command = "rm", !.flagsAll = {"recursive", "force"},
                                     !.flagAliases = [recursive |-> {"r", "R"}, force |-> {"f"}]], {})
AskPush == Rule("Bash", "ask", [Blank EXCEPT !.command = "git", !.subcommandsAny = {<<"push">>}], {})
AskEtc == Rule("*", "ask", [Blank EXCEPT !.glob = AnyOf({"/etc"})], {[Blank EXCEPT !.command = "rm"]})
DenyProd == Rule("Bash", "deny", [Blank EXCEPT !.flagValues = Value("n", {"prod"})], {})
DenyReboot == Rule("Bash", "deny", [Blank EXCEPT !.command = "reboot"], {})
AskDockerC == Rule("Bash", "ask", [Blank EXCEPT !.command = "docker", !.flagValues = Value("c", {"run"})], {})
AllowDocker == Rule("Bash", "allow", [Blank EXCEPT !.command = "docker"], {})
DenyRead == Rule("Read", "deny", Blank, {})

\* docker -c takes a value for a rule of the second; a depth of 0 stands for the default.
MCConfigs ==
  LET Config(r, d) == [rules |-> r, cliSpecs |-> MCCliSpecs, maxDepth |-> d]
  IN  {Config(<<DenyRm, AskPush, DenyReboot>>, d) : d \in {0, 1}}
        \cup {Config(<<AskPush, DenyProd, AskDockerC, DenyRm>>, 2),
               Config(<<AllowDocker, DenyRm, AskEtc, DenyRead>>, 2)}

MCParsers == {pickParser(cfg) : cfg \in MCConfigs}

\* What is to be run, and what is typed for it: the words, or a text between quotes.
Wanted == {<<"rm", "-rf", "/etc">>, <<"git", "push">>, <<"kubectl", "-n", "prod", "delete">>,
           <<"ls", "/etc">>, <<"ls", "$(git push)">>}
Wrapping == {<<"docker", "run", "-it", "--name", "x", "ubuntu">>, <<"docker", "exec", "-it", "ct">>,
             <<"docker", "exec", "ct", "--">>, <<"kubectl", "exec", "pod", "-c", "sidecar">>,
             <<"gcloud", "ssh", "vm", "--">>, <<"nsenter", "--target", "1234", "--">>}
Quoting == {<<"bash", "-c">>, <<"bash", "-it", "-c">>, <<"gcloud", "ssh", "--command">>}
Texts == [w \in DOMAIN Quoted \ {"'bash -c $('", "'bash -c reboot'", "'bash -c bash -c reboot'"} |->
            CASE w = "'ls; git push'"           -> <<"git", "push">>
              [] w = "'kubectl -n prod delete'" -> <<"kubectl", "-n", "prod", "delete">>
              [] w = "'reboot'"                 -> <<"reboot">>
              [] OTHER                          -> <<"rm", "-rf", "/etc">>]

\* Calls, each with what its author wants run.
Bare == {<<w, w>> : w \in Wanted}
Given(texts) == {<<q \o <<t>>, Texts[t]>> : q \in Quoting, t \in texts}
Deepest == {b \in Bare : b[1] \in {<<"rm", "-rf", "/etc">>, <<"ls", "$(git push)">>}}
Within(calls) == {<<p \o c[1], c[2]>> : p \in Wrapping, c \in calls}

Inner == Bare \cup Given(IF WithQuotes THEN DOMAIN Texts ELSE {"'reboot'"})
Calling == Inner \cup Given(DOMAIN Texts) \cup Within(Inner) \cup Within(Within(Deepest))

\* Wrappers put to other uses: every strategy at once, values missing or broken.
Vocabulary == {"", "--", "-c", "--command", "run", "'ls; git push'", "'bash -c bash -c reboot'",
               "'bash -c $('", "$(", "$(bash -c reboot)"}
UpTo(n) == UNION {[1 .. m -> Vocabulary] : m \in 0 .. n}
Odd == {"", "$(", "'ls; git push'", "'bash -c bash -c reboot'", "'bash -c $('"}
Using(w) == {<< >>, <<w>>} \cup {<<w, t>> : t \in Odd}
Others ==
  {<<w>> \o s : w \in {"bash", "docker"}, s \in UpTo(2)}
    \cup {<<"docker", "run", "ubuntu">> \o s : s \in UpTo(1)}
    \cup {<<"gcloud">> \o a \o b \o c :
            a \in Using("--command"), b \in Using("-c"),
            c \in {<< >>, <<"--">>, <<"--", "'bash -c bash -c reboot'">>, <<"--", "$(">>}}

\* Lines of one call, the beginnings of some, and lines of several calls.
MCLines ==
  {NotShell} \cup {<<c[1]>> : c \in Calling}
    \cup {<<SubSeq(c[1], 1, n)>> : c \in Within(Bare), n \in {3, 5}}
    \cup {<<b[1], c[1]>> : b \in Given(DOMAIN Texts), c \in Within({<<w, w>> : w \in {<<"git", "push">>}})}
    \cup {<<c>> : c \in Others}
    \cup {<<<<"bash">> \o s, <<"ls", "$(bash -c reboot)">>, <<"bash", "-c">>>> : s \in UpTo(1)}

MCMeans == [l \in MCLines |-> {c[2] : c \in {c \in Calling : \E i \in DOMAIN l : l[i] = c[1]}}]

\* The hypotheses of the proofs hold here.
ASSUME Hypotheses == UnambiguousRules /\ Nests([w \in Words |-> IF Inside[w] = << >> THEN 0 ELSE 1], 1)
================================================================================
