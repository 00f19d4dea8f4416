-------------------------------- MODULE ToolCall -------------------------------
(* One hook event on its way to the rules: the subcommand picks the provider    *)
(* (cmd/wardhook/run.go), the provider puts the event into Claude's vocabulary  *)
(* as one or more invocations (internal/provider), and the parser of each       *)
(* invocation's tool lifts out what rules look at (Parse of bash_parser.go,     *)
(* passthrough_parser.go).                                                      *)
(*                                                                              *)
(* An event is [tool, input], an input as in module ToolInput.  What a parsed   *)
(* invocation shows the rules is [tool, cmds], cmds a sequence of argument      *)
(* sequences, one per command.                                                  *)
EXTENDS ToolInput

CONSTANTS Subcommands,  \* how wardhook was called: "" for no subcommand
          Calls,        \* the calls that an agent means to make: [tool, parts]
          Malformed     \* events in no dialect

VARIABLES sub, call,    \* history: the call meant, or NoCall
          event,
          invs,         \* what ReadInvocations returned: [tool, input]
          seen,         \* what the rules were evaluated on, in order
          phase         \* "read", "evaluate", "answered" or "asked"

vars == <<sub, call, event, invs, seen, phase>>

NoCall == [tool |-> "", parts |-> << >>]

\* An input as the JSON decoder knows it; only a list has items.
IsValue(v) ==
  /\ v = [type |-> v.type, text |-> v.text, items |-> v.items]
  /\ v.items \in Seq({v.items[i] : i \in DOMAIN v.items})
  /\ v.type # "list" => v.items = << >>

IsInput(input) == \A k \in DOMAIN input.fields : IsValue(input.fields[k])

\* The names some agent has for a tool that Claude calls otherwise.
OwnNames == {"Shell", "runTerminalCommand", "editFiles", "createFile",
             "run_command", "view_file", "edit_file", "write_file"}

\* A call is named as Claude names it; its parts are what its tool needs, the files for
\* an edit, and none is empty.
ASSUME CallsAssumption ==
  /\ \A c \in Calls :
       /\ c.tool \notin OwnNames
       /\ c.parts \in Seq({c.parts[i] : i \in DOMAIN c.parts})
       /\ \A i \in DOMAIN c.parts : c.parts[i] # ""
       /\ c.tool # "Edit" => Len(c.parts) = IF c.tool = "Bash" THEN 1 ELSE Len(fieldsFor(c.tool))
  /\ \A e \in Malformed : IsInput(e.input)

\* The first of these keys, empty or not.
MutFirstKeyPresent(input, keys) ==
  LET found == SelectSeq(keys, LAMBDA k : input.kind = "object" /\ k \in DOMAIN input.fields)
  IN  IF found = << >> THEN "" ELSE text(input, found[1])

\* The first of these keys that is not empty, in the code's order.
firstText(input, keys) ==
  LET found == {i \in DOMAIN keys : text(input, keys[i]) # ""}
  IN  IF found = {} THEN "" ELSE text(input, keys[CHOOSE i \in found : \A j \in found : i <= j])

--------------------------------------------------------------------------------
(* Providers *)

\* run: the provider of a subcommand.
providerOf(s) == IF s \in {"codex", "copilot", "cursor", "antigravity"} THEN s ELSE "claude"

\* The agents' tool names in Claude's vocabulary; any other name is kept.
normalizeCursorToolName(tool) == IF tool = "Shell" THEN "Bash" ELSE tool

normalizeCopilotToolName(tool) ==
  CASE tool = "runTerminalCommand" -> "Bash"
    [] tool = "editFiles"          -> "Edit"
    [] tool = "createFile"         -> "Write"
    [] OTHER                       -> tool

normalizeAntigravityToolName(tool) ==
  CASE tool = "run_command" -> "Bash"
    [] tool = "view_file"   -> "Read"
    [] tool = "edit_file"   -> "Edit"
    [] tool = "write_file"  -> "Write"
    [] OTHER                -> tool

\* The input under Claude's key; what cannot be read, or has none of the keys, is
\* passed on as it is.
Rewrite(input, from, to) ==
  IF unmarshals(input, {from[i] : i \in DOMAIN from}, "string") /\ firstText(input, from) # ""
    THEN Only(to, firstText(input, from)) ELSE input

normalizeCopilotToolInput(tool, input) ==
  IF tool = "createFile" THEN Rewrite(input, <<"file_path", "filePath">>, "file_path") ELSE input

normalizeAntigravityToolArgs(tool, input) ==
  CASE tool = "run_command" -> Rewrite(input, <<"CommandLine">>, "command")
    [] tool \in {"view_file", "edit_file", "write_file"} ->
         Rewrite(input, <<"file_path", "FilePath", "Path">>, "file_path")
    [] OTHER -> input

Unread == [ok |-> FALSE, invs |-> << >>]

\* An empty edit is no invocation at all.
MutEmptyEditVanishes(e) ==
  LET files == IF "files" \in DOMAIN e.input.fields THEN e.input.fields["files"].items ELSE << >>
  IN  IF unmarshals(e.input, {"files"}, "list")
        THEN [ok |-> TRUE, invs |-> [i \in DOMAIN files |-> [tool |-> "Edit", input |-> Only("file_path", files[i])]]]
        ELSE Unread

\* One invocation per file; one without arguments for an empty list.
expandEditFiles(e) ==
  LET files == IF "files" \in DOMAIN e.input.fields THEN e.input.fields["files"].items ELSE << >>
      invocation(input) == [tool |-> "Edit", input |-> input]
  IN  IF ~unmarshals(e.input, {"files"}, "list") THEN Unread
      ELSE IF files = << >> THEN [ok |-> TRUE, invs |-> <<invocation(Object([k \in {} |-> String("")]))>>]
      ELSE [ok |-> TRUE, invs |-> [i \in DOMAIN files |-> invocation(Only("file_path", files[i]))]]

One(tool, input) == [ok |-> TRUE, invs |-> <<[tool |-> tool, input |-> input]>>]

readCopilot(e) ==
  IF e.tool = "editFiles" THEN expandEditFiles(e)
  ELSE One(normalizeCopilotToolName(e.tool), normalizeCopilotToolInput(e.tool, e.input))

readAntigravity(e) ==
  One(normalizeAntigravityToolName(e.tool), normalizeAntigravityToolArgs(e.tool, e.input))

readCursor(e) == One(normalizeCursorToolName(e.tool), e.input)

ReadInvocations(p, e) ==
  CASE p = "copilot"     -> readCopilot(e)
    [] p = "antigravity" -> readAntigravity(e)
    [] p = "cursor"      -> readCursor(e)
    [] OTHER             -> One(e.tool, e.input)

--------------------------------------------------------------------------------
(* The calls of an agent, as each of them writes the events (README.md:130-201).   *)

FileTool == [Read |-> "view_file", Edit |-> "edit_file", Write |-> "write_file"]

\* Its first part under one of these keys; its parts under the keys of fieldsFor; as the
\* files of an edit; its first part under one key, with other keys that are empty.
keyed(c, tool, keys) == {[tool |-> tool, input |-> Only(k, c.parts[1])] : k \in keys}
plain(c) ==
  [tool |-> c.tool,
   input |-> Object([k \in {fieldsFor(c.tool)[i] : i \in DOMAIN c.parts} |->
                       String(c.parts[CHOOSE i \in DOMAIN c.parts : fieldsFor(c.tool)[i] = k])])]
files(c) == [tool |-> "editFiles", input |-> Object([k \in {"files"} |-> List(c.parts)])]
padded(c, tool, key, empty) ==
  [tool |-> tool,
   input |-> Object([k \in empty \cup {key} |-> String(IF k = key THEN c.parts[1] ELSE "")])]

\* The events of agent p for a call.
Spellings(p, c) ==
  IF c.tool = "Bash"
    THEN CASE p \in {"claude", "codex"} -> keyed(c, "Bash", {"command"})
           [] p = "cursor"              -> keyed(c, "Shell", {"command"})
           [] p = "copilot"             -> keyed(c, "runTerminalCommand", {"command"})
           [] p = "antigravity"         -> keyed(c, "run_command", {"CommandLine"})
  ELSE IF p = "copilot" /\ c.tool = "Edit" THEN {files(c)}
  ELSE IF c.tool = "Edit" /\ Len(c.parts) # 1 THEN {}
  ELSE IF p = "copilot" /\ c.tool = "Write" THEN keyed(c, "createFile", {"filePath", "file_path"})
  ELSE IF p = "antigravity" /\ c.tool \in DOMAIN FileTool
    THEN LET keys == {"file_path", "FilePath", "Path"}
         IN  {padded(c, FileTool[c.tool], key, empty) : key \in keys, empty \in SUBSET keys}
  ELSE {plain(c)}

Init ==
  /\ sub \in Subcommands
  /\ \/ call \in Calls /\ event \in Spellings(providerOf(sub), call)
     \/ call = NoCall /\ event \in Malformed
  /\ invs = << >> /\ seen = << >>
  /\ phase = "read"

ReadEvent ==
  /\ phase = "read"
  /\ LET r == ReadInvocations(providerOf(sub), event)
     IN  invs' = r.invs /\ phase' = IF r.ok THEN "evaluate" ELSE "asked"
  /\ UNCHANGED <<sub, call, event, seen>>

\* The next invocation is parsed, and evaluated if it can be.
Evaluate ==
  /\ phase = "evaluate" /\ Len(seen) < Len(invs)
  /\ LET inv == invs[Len(seen) + 1]
         r == Parse(inv)
     IN  IF r.ok
           THEN seen' = Append(seen, [tool |-> inv.tool, cmds |-> r.cmds]) /\ UNCHANGED phase
           ELSE phase' = "asked" /\ UNCHANGED seen
  /\ UNCHANGED <<sub, call, event, invs>>

Answer ==
  /\ phase = "evaluate" /\ Len(seen) = Len(invs)
  /\ phase' = "answered"
  /\ UNCHANGED <<sub, call, event, invs, seen>>

Next == ReadEvent \/ Evaluate \/ Answer

Spec == Init /\ [][Next]_vars

--------------------------------------------------------------------------------
(* Properties *)

\* What the rules see of a call, whoever makes it.
Meant(c) ==
  IF c.tool = "Bash" THEN <<[tool |-> "Bash", cmds |-> <<c.parts>>]>>
  ELSE IF c.tool # "Edit" THEN <<[tool |-> c.tool, cmds |-> <<c.parts>>]>>
  ELSE IF c.parts = << >> THEN <<[tool |-> "Edit", cmds |-> <<<< >>>>]>>
  ELSE [i \in DOMAIN c.parts |-> [tool |-> "Edit", cmds |-> <<<<c.parts[i]>>>>]]

\* One config serves every agent ("existing wardhook.yaml rules apply unchanged",
\* README.md:175, 201): a call is the same tool with the same arguments to the rules
\* whichever agent makes it and whichever of its keys it uses, and an edit of several
\* files is all of them, in order.
RulesApplyUnchanged ==
  call # NoCall =>
    /\ phase = "answered" => seen = Meant(call)
    /\ phase = "asked" => call.tool = "Bash" /\ call.parts[1] \in NotShell

\* No answer without an evaluation: a provider never reads an event as nothing to do
\* (provider.go:46-48), and what it reads has a command to evaluate, or not even a rule
\* for every tool would be asked.  Only a Bash line may hold no command; when that is
\* taken of an input that cannot be read is UnreadableCommandAsks and MalformedIsSurfaced.
AlwaysEvaluated ==
  phase = "answered" =>
    /\ seen # << >>
    /\ \A i \in DOMAIN seen : seen[i].cmds = << >> => seen[i].tool = "Bash"

\* A Bash call whose input Claude, Codex, Cursor or Copilot hands on and whose command
\* is no string ends in ask, never in an evaluation of nothing (bash_parser.go:38-41).
UnreadableCommandAsks ==
  phase = "answered" /\ providerOf(sub) # "antigravity" =>
    \A i \in DOMAIN seen :
      seen[i].tool = "Bash" /\ seen[i].cmds = << >> =>
        event.input.kind = "null" \/ "command" \notin DOMAIN event.input.fields
          \/ event.input.fields["command"].type = "null" \/ event.input.fields["command"] = String("")

\* A command line that the provider could not read is noticed by the parser after it
\* ("swallow malformed input and let downstream parser surface it", antigravity.go:137).
MalformedIsSurfaced ==
  phase = "answered" /\ providerOf(sub) = "antigravity" /\ event.tool = "run_command" =>
    unmarshals(event.input, {"CommandLine"}, "string")
================================================================================
