------------------------------- MODULE MCCLISpecs ------------------------------
EXTENDS CLISpecs

Plain == [kind |-> "plain", name |-> "", eq |-> FALSE, value |-> "", letters |-> << >>, rests |-> << >>]

MCShape ==
  [w \in Words |->
     CASE w = "--"     -> [Plain EXCEPT !.kind = "terminator"]
       [] w = "-c"     -> [Plain EXCEPT !.kind = "short", !.name = "c", !.letters = <<"c">>, !.rests = <<"">>]
       [] w = "--name" -> [Plain EXCEPT !.kind = "long", !.name = "name"]
       [] OTHER        -> Plain]

Key(n) == [name |-> n, short |-> n = "c"]
Recursion(flags, terminator, verbs) ==
  [flags |-> flags, terminator |-> terminator, subcommands |-> verbs]
Only(valueTaking) == [valueTaking |-> valueTaking, recurse |-> {}]
With(valueTaking, r) == [valueTaking |-> valueTaking, recurse |-> {r}]

\* Specs like those of docker, bash and nsenter, and one that knows flags only.
MCEmbedded ==
  [docker |-> With(<<"name">>, Recursion(<< >>, TRUE, [run |-> 1, exec |-> 1])),
   bash   |-> With(<< >>, Recursion(<<Key("c")>>, FALSE, << >>)),
   rm     |-> Only(<<"name">>)]

\* What a config may say of one CLI, right or wrong.
Sayings ==
  {Only(<< >>), Only(<<"--name">>), Only(<<"c", "name">>),
   With(<< >>, Recursion(<< >>, FALSE, << >>)),
   With(<< >>, Recursion(<< >>, FALSE, [run |-> -1])),
   With(<<"name">>, Recursion(<<Key("c")>>, FALSE, << >>)),
   With(<< >>, Recursion(<<Key("name"), Key("c")>>, TRUE, << >>)),
   With(<<"c">>, Recursion(<< >>, FALSE, [run |-> 2, rm |-> 0])),
   With(<< >>, Recursion(<< >>, FALSE, [rm |-> 0]))}

MCDepths == {-1, 0, 1}

MCDeclared ==
  {<< >>}
    \cup {[c \in {cli} |-> s] : cli \in {"docker", "bash", "rm", "helm"}, s \in Sayings}
    \cup {[docker |-> s, rm |-> t] : s, t \in Sayings}

\* Everything is emptied, or turned into something else.
MCScribbles ==
  {[valueTaking |-> << >>, recurse |-> Recursion(<< >>, FALSE, << >>)],
   [valueTaking |-> <<"exec">>, recurse |-> Recursion(<<Key("name")>>, FALSE, [rm |-> 1])]}

MCLines ==
  {<<cli>> \o s : cli \in {"docker", "bash"},
                  s \in UNION {[1 .. n -> {"run", "exec", "rm", "--", "-c", "--name"}] : n \in 1 .. 3}}
================================================================================
