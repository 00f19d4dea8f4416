-------------------------------- MODULE ToolInput ------------------------------
(* A tool's input, and what the parser of the tool lifts out of it (Parse of    *)
(* bash_parser.go, passthrough_parser.go; pickParser in cmd/wardhook/run.go).   *)
(*                                                                              *)
(* An input is [kind, fields]: kind "missing", "null", "object" or "other" (an  *)
(* array, a string, ...), fields a function from keys to values                 *)
(* [type, text, items] of type "string", "list" (of strings), "null" or         *)
(* "other".  Parsing gives [ok, cmds], cmds a sequence of argument sequences,   *)
(* one per command; the commands of a Bash line are module BashParse's matter,  *)
(* here the line itself stands for them.                                        *)
EXTENDS Lists

CONSTANT NotShell   \* the lines the shell parser rejects

String(text) == [type |-> "string", text |-> text, items |-> << >>]
List(items) == [type |-> "list", text |-> "", items |-> items]
Object(fields) == [kind |-> "object", fields |-> fields]

\* json.Unmarshal into a struct with these fields: null leaves a field as it is,
\* another type than the field's is an error.
unmarshals(input, keys, type) ==
  \/ input.kind = "null"
  \/ input.kind = "object" /\ \A k \in keys \cap DOMAIN input.fields : input.fields[k].type \in {type, "null"}

\* The field afterwards, "" when it was not there.
text(input, key) ==
  IF input.kind = "object" /\ key \in DOMAIN input.fields THEN input.fields[key].text ELSE ""

Only(key, t) == Object([k \in {key} |-> String(t)])

--------------------------------------------------------------------------------
(* Parsers *)

\* The command is looked for without a look at its type.
MutCommandOfAnyType(input) ==
  LET line == text(input, "command")
  IN  [ok |-> line \notin NotShell, cmds |-> IF line = "" THEN << >> ELSE <<<<line>>>>]

\* BashParser.Parse: no command at all for an empty line.
parseBash(input) ==
  LET line == text(input, "command")
  IN  IF unmarshals(input, {"command"}, "string") /\ line \notin NotShell
        THEN [ok |-> TRUE, cmds |-> IF line = "" THEN << >> ELSE <<<<line>>>>]
        ELSE [ok |-> FALSE, cmds |-> << >>]

\* fieldsFor, none for an unknown tool.
fieldsFor(tool) ==
  CASE tool \in {"Read", "Write", "Edit", "NotebookEdit"} -> <<"file_path">>
    [] tool = "Glob"      -> <<"pattern">>
    [] tool = "Grep"      -> <<"path", "pattern">>
    [] tool = "WebFetch"  -> <<"url">>
    [] tool = "WebSearch" -> <<"query">>
    [] OTHER              -> << >>

\* PassthroughParser.Parse: always one command; a value that is no string is left out.
parsePassthrough(tool, input) ==
  LET keys == fieldsFor(tool)
      strings == {n \in DOMAIN keys : keys[n] \in DOMAIN input.fields /\ input.fields[keys[n]].type = "string"}
  IN  IF keys # << >> /\ input.kind = "other" THEN [ok |-> FALSE, cmds |-> << >>]
      ELSE [ok |-> TRUE, cmds |-> <<AtPlaces([n \in DOMAIN keys |-> text(input, keys[n])], strings)>>]

\* pickParser
Parse(inv) == IF inv.tool = "Bash" THEN parseBash(inv.input) ELSE parsePassthrough(inv.tool, inv.input)
================================================================================
