----------------------------- MODULE MCCommandLine -----------------------------
EXTENDS CommandLine, TLC


Plain == [kind |-> "plain", name |-> "", eq |-> FALSE, value |-> "", letters |-> << >>, rests |-> << >>]
Long(n) == [Plain EXCEPT !.kind = "long", !.name = n]
LongEq(n, v) == [Long(n) EXCEPT !.eq = TRUE, !.value = v]
Short(n, l, r) == [Plain EXCEPT !.kind = "short", !.name = n, !.letters = l, !.rests = r]

MCShape ==
  [w \in Words |->
     CASE w = "--"          -> [Plain EXCEPT !.kind = "terminator"]
       [] w = "-c"          -> Short("c", <<"c">>, <<"">>)
       [] w = "-it"         -> Short("it", <<"i", "t">>, <<"t", "">>)
       [] w = "-xc"         -> Short("xc", <<"x", "c">>, <<"c", "">>)
       [] w = "-crm"        -> Short("crm", <<"c", "r", "m">>, <<"rm", "m", "">>)
       [] w = "--name"      -> Long("name")
       [] w = "--name=run"  -> LongEq("name", "run")
       [] w = "--name="     -> LongEq("name", "")
       [] OTHER             -> Plain]

NoVerbs == [v \in {} |-> 0]
Key(n) == [name |-> n, short |-> n = "c"]

\* Specs like those of docker, bash and gcloud; the last one has every strategy.
MCWrappers ==
  {[name |-> "docker", valueTaking |-> {"name", "c"},
    spec |-> [flags |-> << >>, terminator |-> TRUE, subcommands |-> "run" :> 1]],
   [name |-> "docker", valueTaking |-> {"c"},
    spec |-> [flags |-> << >>, terminator |-> FALSE, subcommands |-> ("run" :> 2) @@ ("rm" :> 0)]],
   [name |-> "docker", valueTaking |-> {},
    spec |-> [flags |-> <<Key("c")>>, terminator |-> FALSE, subcommands |-> NoVerbs]],
   [name |-> "docker", valueTaking |-> {"c"},
    spec |-> [flags |-> <<Key("name"), Key("c")>>, terminator |-> TRUE, subcommands |-> "run" :> 1]]}
================================================================================
