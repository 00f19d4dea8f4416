------------------------------- MODULE ToolProofs ------------------------------
(* Proofs about ToolCall and TestCmd, which parse the same inputs.  For every    *)
(* set of calls and of events: a hook event is never answered without the rules  *)
(* being asked about what its agent means, and a command that cannot be read is  *)
(* never asked about as if there were none.  For every set of configs and        *)
(* command lines: what wardhook test reports is what the hook would see, and     *)
(* tells why the verdict is what it is.                                          *)
EXTENDS ToolCall, TestCmd, CommonProofs

--------------------------------------------------------------------------------
(* Events *)

LEMMA StringIsValue ==
  ASSUME NEW t
  PROVE  IsValue(String(t)) /\ String(t).type = "string" /\ String(t).text = t
<1>1. /\ String(t).items = << >> /\ String(t).type = "string" /\ String(t).text = t
      /\ String(t) = [type |-> String(t).type, text |-> String(t).text, items |-> String(t).items]
  BY DEF String
<1>2. << >> \in Seq({String(t).items[i] : i \in DOMAIN String(t).items})
  OBVIOUS
<1> QED
  BY <1>1, <1>2 DEF IsValue

\* An object whose fields are all strings, and an object with one such field.
LEMMA Objects ==
  ASSUME NEW f, \A k \in DOMAIN f : IsValue(f[k])
  PROVE  IsInput(Object(f)) /\ Object(f).kind = "object" /\ Object(f).fields = f
BY DEF Object, IsInput

LEMMA OneField ==
  ASSUME NEW k, NEW t
  PROVE  IsInput(Only(k, t))
<1> DEFINE f == [x \in {k} |-> String(t)]
<1>1. \A x \in DOMAIN f : IsValue(f[x])
  BY StringIsValue
<1> HIDE DEF f
<1>2. IsInput(Object(f))
  BY <1>1, Objects
<1> QED
  BY <1>2 DEF Only, f

LEMMA FileList ==
  ASSUME NEW parts, parts \in Seq({parts[i] : i \in DOMAIN parts})
  PROVE  IsInput(Object([k \in {"files"} |-> List(parts)]))
<1> DEFINE v == List(parts)
           f == [k \in {"files"} |-> v]
<1>1. v = [type |-> "list", text |-> "", items |-> parts]
  BY DEF List
<1> HIDE DEF v
<1>2. IsValue(v)
  BY <1>1 DEF IsValue
<1>3. \A k \in DOMAIN f : IsValue(f[k])
  BY <1>2
<1> HIDE DEF f
<1>4. IsInput(Object(f))
  BY <1>3, Objects
<1> QED
  BY <1>4 DEF f, v

Providers == {"claude", "codex", "cursor", "copilot", "antigravity"}

\* Every agent writes events that the JSON decoder reads.
LEMMA Written ==
  ASSUME NEW p \in Providers, NEW c \in Calls, NEW e \in Spellings(p, c)
  PROVE  IsInput(e.input)
<1>1. \/ \E tool, keys : e \in keyed(c, tool, keys)
      \/ e \in {files(c), plain(c)}
      \/ \E tool, key, empty : e = padded(c, tool, key, empty)
  BY DEF Spellings, Providers
<1>2. ASSUME NEW tool, NEW keys, e \in keyed(c, tool, keys) PROVE IsInput(e.input)
  <2>1. PICK k \in keys : e = [tool |-> tool, input |-> Only(k, c.parts[1])]
    BY <1>2 DEF keyed
  <2> QED
    BY <2>1, OneField
<1>3. CASE e = files(c)
  <2>1. c.parts \in Seq({c.parts[i] : i \in DOMAIN c.parts})
    BY CallsAssumption
  <2>2. IsInput(Object([k \in {"files"} |-> List(c.parts)]))
    BY <2>1, FileList
  <2> QED
    BY <1>3, <2>2 DEF files
<1>4. ASSUME NEW tool, NEW key, NEW empty, e = padded(c, tool, key, empty)
      PROVE  IsInput(e.input)
  <2> DEFINE f == [k \in empty \cup {key} |-> String(IF k = key THEN c.parts[1] ELSE "")]
  <2>1. \A k \in DOMAIN f : IsValue(f[k])
    BY StringIsValue
  <2>2. IsInput(Object(f))
    <3> HIDE DEF f
    <3> QED
      BY <2>1, Objects
  <2> QED
    BY <1>4, <2>2 DEF padded
<1>5. CASE e = plain(c)
  <2> DEFINE f == [k \in {fieldsFor(c.tool)[i] : i \in DOMAIN c.parts} |->
                     String(c.parts[CHOOSE i \in DOMAIN c.parts : fieldsFor(c.tool)[i] = k])]
  <2>1. \A k \in DOMAIN f : IsValue(f[k])
    BY StringIsValue
  <2>2. IsInput(Object(f))
    <3> HIDE DEF f
    <3> QED
      BY <2>1, Objects
  <2> QED
    BY <1>5, <2>2 DEF plain
<1> QED
  BY <1>1, <1>2, <1>3, <1>4, <1>5

--------------------------------------------------------------------------------
(* Reading and parsing an event *)

\* What a provider reads is one invocation or more.
LEMMA ReadsSomething ==
  ASSUME NEW p \in Providers, NEW e, IsInput(e.input), ReadInvocations(p, e).ok
  PROVE  \E n \in Nat : n >= 1 /\ Len(ReadInvocations(p, e).invs) = n /\ DOMAIN ReadInvocations(p, e).invs = 1 .. n
<1>1. CASE p = "copilot" /\ e.tool = "editFiles"
  <2> DEFINE named == IF "files" \in DOMAIN e.input.fields THEN e.input.fields["files"].items ELSE << >>
             invocation(input) == [tool |-> "Edit", input |-> input]
             all == [i \in DOMAIN named |-> invocation(Only("file_path", named[i]))]
  <2>1. ReadInvocations(p, e) = expandEditFiles(e)
    BY <1>1 DEF ReadInvocations, readCopilot
  <2>2. named \in Seq({named[i] : i \in DOMAIN named})
    <3>1. CASE "files" \in DOMAIN e.input.fields
      <4>1. IsValue(e.input.fields["files"])
        BY <3>1 DEF IsInput
      <4> QED
        BY <3>1, <4>1 DEF IsValue
    <3>2. CASE "files" \notin DOMAIN e.input.fields
      <4>1. named = << >>
        BY <3>2
      <4> HIDE DEF named
      <4> QED
        BY <4>1
    <3> QED
      BY <3>1, <3>2
  <2>3. \/ \E x : ReadInvocations(p, e).invs = <<x>>
        \/ named # << >> /\ ReadInvocations(p, e).invs = all
    BY <2>1 DEF expandEditFiles, Unread
  <2>4. CASE named # << >> /\ ReadInvocations(p, e).invs = all
    <3> DEFINE Edits == {invocation(Only("file_path", named[i])) : i \in DOMAIN named}
    <3> HIDE DEF named
    <3>1. DOMAIN named = 1 .. Len(named) /\ Len(named) \in Nat /\ Len(named) # 0
      BY <2>2, <2>4
    <3>2. all \in [1 .. Len(named) -> Edits]
      BY <3>1
    <3> HIDE DEF all, Edits
    <3>3. all \in Seq(Edits) /\ DOMAIN all = 1 .. Len(named)
      BY <3>1, <3>2
    <3>4. Len(all) = Len(named)
      BY <3>1, <3>3
    <3>5. Len(named) >= 1
      BY <3>1
    <3> QED
      BY <2>4, <3>1, <3>3, <3>4, <3>5
  <2>5. CASE \E x : ReadInvocations(p, e).invs = <<x>>
    <3>1. PICK x : ReadInvocations(p, e).invs = <<x>>
      BY <2>5
    <3>2. Len(<<x>>) = 1 /\ DOMAIN <<x>> = 1 .. 1
      OBVIOUS
    <3> QED
      BY <3>1, <3>2
  <2> QED
    BY <2>3, <2>4, <2>5
<1>2. CASE ~(p = "copilot" /\ e.tool = "editFiles")
  <2>1. \E x : ReadInvocations(p, e).invs = <<x>>
    BY <1>2 DEF ReadInvocations, readCopilot, readAntigravity, readCursor, One, Providers
  <2>2. PICK x : ReadInvocations(p, e).invs = <<x>>
    BY <2>1
  <2>3. Len(<<x>>) = 1 /\ DOMAIN <<x>> = 1 .. 1
    OBVIOUS
  <2> QED
    BY <2>2, <2>3
<1> QED
  BY <1>1, <1>2

\* Only Antigravity's provider rewrites the input of a Bash call.
LEMMA BashAsSent ==
  ASSUME NEW p \in Providers, p # "antigravity", NEW e,
         NEW i \in DOMAIN ReadInvocations(p, e).invs, ReadInvocations(p, e).invs[i].tool = "Bash"
  PROVE  ReadInvocations(p, e).invs[i].input = e.input
<1>1. CASE p = "copilot" /\ e.tool = "editFiles"
  <2>1. ReadInvocations(p, e).invs[i].tool = "Edit"
    BY <1>1 DEF ReadInvocations, readCopilot, expandEditFiles, Unread
  <2> QED
    BY <2>1
<1>2. CASE p = "copilot" /\ e.tool # "editFiles"
  <2>1. /\ ReadInvocations(p, e).invs = <<[tool |-> normalizeCopilotToolName(e.tool),
                                input |-> normalizeCopilotToolInput(e.tool, e.input)]>>
    BY <1>2 DEF ReadInvocations, readCopilot, One
  <2>2. i = 1
    BY <2>1
  <2>3. normalizeCopilotToolName(e.tool) = "Bash"
    BY <2>1, <2>2
  <2>4. e.tool # "createFile"
    BY <2>3 DEF normalizeCopilotToolName
  <2> QED
    BY <2>1, <2>2, <2>4 DEF normalizeCopilotToolInput
<1>3. CASE p \in {"claude", "codex", "cursor"}
  BY <1>3 DEF ReadInvocations, readCursor, One
<1> QED
  BY <1>1, <1>2, <1>3 DEF Providers

\* The Bash parser finds no command only where there is none to be read.
NoCommand(input) ==
  \/ input.kind = "null" \/ "command" \notin DOMAIN input.fields
  \/ input.fields["command"].type = "null" \/ input.fields["command"] = String("")

LEMMA NothingParsed ==
  ASSUME NEW inv, inv.tool = "Bash", IsInput(inv.input), Parse(inv).ok, Parse(inv).cmds = << >>
  PROVE  NoCommand(inv.input)
<1> DEFINE input == inv.input
<1>1. unmarshals(input, {"command"}, "string") /\ text(input, "command") = ""
  BY DEF Parse, parseBash
<1>2. CASE input.kind # "null" /\ "command" \in DOMAIN input.fields
  <2> DEFINE v == input.fields["command"]
  <2>1. input.kind = "object" /\ v.type \in {"string", "null"}
    BY <1>1, <1>2 DEF unmarshals
  <2>2. v.text = ""
    BY <1>1, <1>2, <2>1 DEF text
  <2>3. CASE v.type = "string"
    <3>1. v = [type |-> v.type, text |-> v.text, items |-> v.items] /\ v.items = << >>
      BY <1>2, <2>3 DEF IsInput, IsValue
    <3>2. v = String("")
      BY <2>2, <2>3, <3>1 DEF String
    <3> QED
      BY <3>2 DEF NoCommand
  <2> QED
    BY <2>1, <2>3 DEF NoCommand
<1> QED
  BY <1>2 DEF NoCommand

--------------------------------------------------------------------------------
(* What the rules see of a call *)

\* Tools with one field of text, and what their parser lifts out of it.
LEMMA OneFieldParsed ==
  ASSUME NEW tool, NEW k, fieldsFor(tool) = <<k>>, tool # "Bash", NEW t
  PROVE  LET r == Parse([tool |-> tool, input |-> Only(k, t)])
         IN  r.ok /\ r.cmds = <<<<t>>>>
<1> DEFINE input == Only(k, t)
           keys == <<k>>
           strings == {n \in DOMAIN keys : keys[n] \in DOMAIN input.fields /\ input.fields[keys[n]].type = "string"}
           values == [n \in DOMAIN keys |-> text(input, keys[n])]
<1>1. /\ input.kind = "object" /\ DOMAIN input.fields = {k}
      /\ input.fields[k].type = "string" /\ input.fields[k].text = t
  BY DEF Only, Object, String
<1>2. strings = {1} /\ DOMAIN values = {1}
  BY <1>1
<1>3. values = <<t>>
  BY <1>1 DEF text
<1>4. Parse([tool |-> tool, input |-> input]) = [ok |-> TRUE, cmds |-> <<AtPlaces(values, strings)>>]
  BY <1>1 DEF Parse, parsePassthrough
<1> HIDE DEF strings, values
<1>5. AtPlaces(values, strings) = <<t>>
  <2>1. <<t>> \in Seq({<<t>>[i] : i \in DOMAIN <<t>>}) /\ DOMAIN <<t>> = {1}
    OBVIOUS
  <2> QED
    BY <1>2, <1>3, <2>1, AllPlaces
<1> QED
  BY <1>4, <1>5

\* A line of Bash under Claude's key.
LEMMA LineParsed ==
  ASSUME NEW t, t # ""
  PROVE  LET r == Parse([tool |-> "Bash", input |-> Only("command", t)])
         IN  IF t \in NotShell THEN ~r.ok ELSE r.ok /\ r.cmds = <<<<t>>>>
BY DEF Parse, parseBash, unmarshals, text, Only, Object, String

\* The parts of a call under the keys of its tool.
LEMMA PlainParsed ==
  ASSUME NEW c, c.parts \in Seq({c.parts[i] : i \in DOMAIN c.parts}), c.tool # "Bash",
         Len(c.parts) = Len(fieldsFor(c.tool))
  PROVE  LET r == Parse([tool |-> c.tool, input |-> plain(c).input])
         IN  r.ok /\ r.cmds = <<c.parts>>
<1> DEFINE keys == fieldsFor(c.tool)
           f == [k \in {keys[i] : i \in DOMAIN c.parts} |->
                   String(c.parts[CHOOSE i \in DOMAIN c.parts : keys[i] = k])]
           input == plain(c).input
           strings == {n \in DOMAIN keys : keys[n] \in DOMAIN input.fields /\ input.fields[keys[n]].type = "string"}
           values == [n \in DOMAIN keys |-> text(input, keys[n])]
<1>1. DOMAIN keys = DOMAIN c.parts /\ \A i, j \in DOMAIN keys : keys[i] = keys[j] => i = j
  <2>1. \/ keys = << >>
        \/ \E k : keys = <<k>>
        \/ keys = <<"path", "pattern">>
    BY DEF fieldsFor
  <2>2. DOMAIN c.parts = 1 .. Len(keys)
    OBVIOUS
  <2> HIDE DEF keys
  <2>3. CASE keys = << >>
    BY <2>2, <2>3
  <2>4. CASE \E k : keys = <<k>>
    <3>1. PICK k : keys = <<k>>
      BY <2>4
    <3> QED
      BY <2>2, <3>1
  <2>5. CASE keys = <<"path", "pattern">>
    BY <2>2, <2>5
  <2> QED
    BY <2>1, <2>3, <2>4, <2>5
<1>2. input = [kind |-> "object", fields |-> f]
  BY DEF plain, Object
<1> HIDE DEF input
<1>3. \A n \in DOMAIN keys : /\ keys[n] \in DOMAIN f /\ f[keys[n]].type = "string"
                             /\ f[keys[n]].text = c.parts[n]
  <2> SUFFICES ASSUME NEW n \in DOMAIN keys
               PROVE  keys[n] \in DOMAIN f /\ f[keys[n]].type = "string" /\ f[keys[n]].text = c.parts[n]
    OBVIOUS
  <2> HIDE DEF keys
  <2>1. (CHOOSE i \in DOMAIN c.parts : keys[i] = keys[n]) = n
    BY <1>1
  <2>2. keys[n] \in {keys[i] : i \in DOMAIN c.parts}
    BY <1>1
  <2>3. f[keys[n]] = String(c.parts[n])
    BY <2>1, <2>2
  <2> QED
    BY <2>2, <2>3 DEF String
<1> HIDE DEF f
<1>4. strings = DOMAIN keys
  BY <1>2, <1>3
<1>5. values = c.parts
  <2>1. values = [n \in DOMAIN c.parts |-> c.parts[n]]
    BY <1>1, <1>2, <1>3 DEF text
  <2>2. c.parts = [n \in DOMAIN c.parts |-> c.parts[n]]
    OBVIOUS
  <2> QED
    BY <2>1, <2>2
<1>6. Parse([tool |-> c.tool, input |-> input]) = [ok |-> TRUE, cmds |-> <<AtPlaces(values, strings)>>]
  BY <1>2 DEF Parse, parsePassthrough
<1> HIDE DEF keys, strings, values
<1>7. AtPlaces(values, strings) = c.parts
  BY <1>1, <1>4, <1>5, AllPlaces
<1> QED
  BY <1>6, <1>7 DEF input

LEMMA Reflexive == \A S : S \subseteq Nat => \A n \in S : n <= n
OBVIOUS

\* A provider finds the only text there is under one of its keys.
LEMMA Rewritten ==
  ASSUME NEW keys, DOMAIN keys \subseteq Nat, NEW n \in DOMAIN keys, NEW input,
         unmarshals(input, {keys[i] : i \in DOMAIN keys}, "string"),
         text(input, keys[n]) # "", \A i \in DOMAIN keys : i # n => text(input, keys[i]) = "", NEW claudes
  PROVE  Rewrite(input, keys, claudes) = Only(claudes, text(input, keys[n]))
<1> DEFINE found == {i \in DOMAIN keys : text(input, keys[i]) # ""}
<1>1. n \in found /\ \A i \in found : i = n
  OBVIOUS
<1> HIDE DEF found
<1>2. (CHOOSE i \in found : \A j \in found : i <= j) = n
  <2>1. n <= n
    BY ONLY DOMAIN keys \subseteq Nat, n \in DOMAIN keys, Reflexive, Zenon
  <2>2. n \in found /\ \A j \in found : n <= j
    BY <1>1, <2>1
  <2> QED
    BY <1>1, <2>2, Zenon
<1>3. firstText(input, keys) = text(input, keys[n])
  BY <1>1, <1>2 DEF firstText, found
<1> QED
  BY <1>3 DEF Rewrite

NotEmpty(t) == t # ""

\* The only key there is.
LEMMA RewrittenOnly ==
  ASSUME NEW keys, DOMAIN keys \subseteq Nat, NEW n \in DOMAIN keys,
         \A i \in DOMAIN keys : keys[i] = keys[n] => i = n, NEW t, NotEmpty(t), NEW claudes
  PROVE  Rewrite(Only(keys[n], t), keys, claudes) = Only(claudes, t)
<1> DEFINE input == Only(keys[n], t)
<1>1. /\ input.kind = "object" /\ DOMAIN input.fields = {keys[n]}
      /\ input.fields[keys[n]].type = "string" /\ input.fields[keys[n]].text = t
  BY DEF Only, Object, String
<1> HIDE DEF input
<1>2. unmarshals(input, {keys[i] : i \in DOMAIN keys}, "string")
  BY <1>1 DEF unmarshals
<1>3. text(input, keys[n]) = t /\ \A i \in DOMAIN keys : i # n => text(input, keys[i]) = ""
  BY <1>1 DEF text
<1>4. Rewrite(input, keys, claudes) = Only(claudes, text(input, keys[n]))
  BY <1>2, <1>3, Rewritten DEF NotEmpty
<1> QED
  BY <1>3, <1>4 DEF input

\* An event is read and parsed as the call is meant, up to a line that is no shell.
AsMeant(p, c, e) ==
  LET r == ReadInvocations(p, e)
  IN  /\ r.ok /\ DOMAIN r.invs = DOMAIN Meant(c)
      /\ \A i \in DOMAIN r.invs :
           /\ r.invs[i].tool = Meant(c)[i].tool
           /\ IF Parse(r.invs[i]).ok THEN Parse(r.invs[i]).cmds = Meant(c)[i].cmds
              ELSE c.tool = "Bash" /\ c.parts[1] \in NotShell

LEMMA OneAsMeant ==
  ASSUME NEW p, NEW c, NEW e, NEW input, NEW parsed,
         ReadInvocations(p, e) = One(c.tool, input), Meant(c) = <<[tool |-> c.tool, cmds |-> parsed]>>,
         LET q == Parse([tool |-> c.tool, input |-> input])
         IN  IF q.ok THEN q.cmds = parsed ELSE c.tool = "Bash" /\ c.parts[1] \in NotShell
  PROVE  AsMeant(p, c, e)
<1> DEFINE r == ReadInvocations(p, e)
<1>1. r.ok /\ r.invs = <<[tool |-> c.tool, input |-> input]>>
  BY DEF One
<1>2. DOMAIN r.invs = {1} /\ DOMAIN Meant(c) = {1} /\ r.invs[1] = [tool |-> c.tool, input |-> input]
      /\ Meant(c)[1].tool = c.tool /\ Meant(c)[1].cmds = parsed
  BY <1>1
<1> QED
  BY <1>1, <1>2 DEF AsMeant

LEMMA OnePart ==
  ASSUME NEW parts, parts \in Seq({parts[i] : i \in DOMAIN parts}), Len(parts) = 1
  PROVE  parts = <<parts[1]>> /\ DOMAIN parts = {1}
<1>1. DOMAIN parts = 1 .. 1
  OBVIOUS
<1>2. DOMAIN parts = {1}
  BY <1>1
<1>3. parts = [i \in DOMAIN parts |-> parts[i]]
  OBVIOUS
<1> QED
  BY <1>2, <1>3

\* The calls of Bash.
LEMMA LineAsMeant ==
  ASSUME NEW p \in Providers, NEW c \in Calls, c.tool = "Bash", NEW e \in Spellings(p, c)
  PROVE  AsMeant(p, c, e)
<1> DEFINE line == c.parts[1]
<1>1. Len(c.parts) = 1 /\ c.parts = <<line>> /\ line # ""
  <2>1. Len(c.parts) = 1 /\ c.parts \in Seq({c.parts[i] : i \in DOMAIN c.parts})
        /\ \A i \in DOMAIN c.parts : c.parts[i] # ""
    BY CallsAssumption
  <2> QED
    BY <2>1, OnePart
<1>2. Meant(c) = <<[tool |-> c.tool, cmds |-> <<<<line>>>>]>>
  BY <1>1 DEF Meant
<1>3. ReadInvocations(p, e) = One("Bash", Only("command", line))
  <2>1. CASE p = "antigravity"
    <3>1. e = [tool |-> "run_command", input |-> Only("CommandLine", line)]
      BY <2>1 DEF Spellings, keyed
    <3> DEFINE keys == <<"CommandLine">>
    <3>2. DOMAIN keys = {1} /\ keys[1] = "CommandLine"
      OBVIOUS
    <3> HIDE DEF keys
    <3>3. PICK n \in DOMAIN keys : keys[n] = "CommandLine" /\ \A i \in DOMAIN keys : keys[i] = keys[n] => i = n
      BY <3>2
    <3>4. DOMAIN keys \subseteq Nat
      BY <3>2
    <3>6. NotEmpty(line)
      BY <1>1 DEF NotEmpty
    <3>5. Rewrite(Only(keys[n], line), keys, "command") = Only("command", line)
      BY <3>3, <3>4, <3>6, RewrittenOnly
    <3> QED
      BY <2>1, <3>1, <3>3, <3>5
      DEF ReadInvocations, readAntigravity, normalizeAntigravityToolName, normalizeAntigravityToolArgs, keys
  <2>2. CASE p = "copilot"
    <3>1. e = [tool |-> "runTerminalCommand", input |-> Only("command", line)]
      BY <2>2 DEF Spellings, keyed
    <3> QED
      BY <2>2, <3>1 DEF ReadInvocations, readCopilot, normalizeCopilotToolName, normalizeCopilotToolInput
  <2>3. CASE p = "cursor"
    <3>1. e = [tool |-> "Shell", input |-> Only("command", line)]
      BY <2>3 DEF Spellings, keyed
    <3> QED
      BY <2>3, <3>1 DEF ReadInvocations, readCursor, normalizeCursorToolName
  <2>4. CASE p \in {"claude", "codex"}
    <3>1. e = [tool |-> "Bash", input |-> Only("command", line)]
      BY <2>4 DEF Spellings, keyed
    <3> QED
      BY <2>4, <3>1 DEF ReadInvocations
  <2> QED
    BY <2>1, <2>2, <2>3, <2>4 DEF Providers
<1>4. LET q == Parse([tool |-> "Bash", input |-> Only("command", line)])
      IN  IF q.ok THEN q.cmds = <<<<line>>>> ELSE line \in NotShell
  BY <1>1, LineParsed
<1> QED
  BY <1>2, <1>3, <1>4, OneAsMeant

\* The files of an edit in one event.
LEMMA FilesAsMeant ==
  ASSUME NEW c \in Calls, c.tool = "Edit"
  PROVE  AsMeant("copilot", c, files(c))
<1> DEFINE e == files(c)
           r == ReadInvocations("copilot", e)
           v == List(c.parts)
<1>1. fieldsFor("Edit") = <<"file_path">>
  BY DEF fieldsFor
<1>2. v.type = "list" /\ v.items = c.parts
  BY DEF List
<1>3. e = [tool |-> "editFiles", input |-> [kind |-> "object", fields |-> [k \in {"files"} |-> v]]]
  BY DEF files, Object
<1> HIDE DEF e, v
<1>4. unmarshals(e.input, {"files"}, "list")
  BY <1>2, <1>3 DEF unmarshals
<1>5. "files" \in DOMAIN e.input.fields /\ e.input.fields["files"].items = c.parts
  BY <1>2, <1>3
<1>6. r = expandEditFiles(e)
  BY <1>3 DEF ReadInvocations, readCopilot
<1>7. CASE c.parts = << >>
  <2> DEFINE none == Object([k \in {} |-> String("")])
  <2>1. r = One("Edit", none)
    BY <1>4, <1>5, <1>6, <1>7 DEF expandEditFiles, One
  <2>2. Meant(c) = <<[tool |-> c.tool, cmds |-> <<<< >>>>]>>
    BY <1>7 DEF Meant
  <2>3. LET q == Parse([tool |-> "Edit", input |-> none]) IN q.ok /\ q.cmds = <<<< >>>>
    <3>1. none.kind = "object" /\ DOMAIN none.fields = {}
      BY DEF Object
    <3> DEFINE keys == fieldsFor("Edit")
               strings == {n \in DOMAIN keys : keys[n] \in DOMAIN none.fields
                                                /\ none.fields[keys[n]].type = "string"}
               values == [n \in DOMAIN keys |-> text(none, keys[n])]
    <3>2. Parse([tool |-> "Edit", input |-> none]) = [ok |-> TRUE, cmds |-> <<AtPlaces(values, strings)>>]
      BY <3>1 DEF Parse, parsePassthrough
    <3>3. strings = {}
      BY <3>1
    <3> HIDE DEF values, strings
    <3> QED
      BY <3>2, <3>3, NoPlaces
  <2> QED
    BY <2>1, <2>2, <2>3, OneAsMeant DEF e
<1>8. CASE c.parts # << >>
  <2>1. r.ok /\ r.invs = [i \in DOMAIN c.parts |-> [tool |-> "Edit", input |-> Only("file_path", c.parts[i])]]
    BY <1>4, <1>5, <1>6, <1>8 DEF expandEditFiles
  <2>2. Meant(c) = [i \in DOMAIN c.parts |-> [tool |-> "Edit", cmds |-> <<<<c.parts[i]>>>>]]
    BY <1>8 DEF Meant
  <2>3. \A i \in DOMAIN c.parts :
          LET q == Parse([tool |-> "Edit", input |-> Only("file_path", c.parts[i])])
          IN  q.ok /\ q.cmds = <<<<c.parts[i]>>>>
    BY <1>1, OneFieldParsed
  <2>4. DOMAIN r.invs = DOMAIN Meant(c) /\ DOMAIN r.invs = DOMAIN c.parts
    BY <2>1, <2>2
  <2>5. \A i \in DOMAIN r.invs : /\ r.invs[i] = [tool |-> "Edit", input |-> Only("file_path", c.parts[i])]
                                /\ Meant(c)[i] = [tool |-> "Edit", cmds |-> <<<<c.parts[i]>>>>]
    BY <2>1, <2>2
  <2>6. ASSUME NEW i \in DOMAIN r.invs
        PROVE  /\ r.invs[i].tool = Meant(c)[i].tool
               /\ Parse(r.invs[i]).ok /\ Parse(r.invs[i]).cmds = Meant(c)[i].cmds
    <3>1. Parse(r.invs[i]).ok /\ Parse(r.invs[i]).cmds = <<<<c.parts[i]>>>>
      BY <2>3, <2>4, <2>5
    <3>2. r.invs[i].tool = "Edit" /\ Meant(c)[i].tool = "Edit" /\ Meant(c)[i].cmds = <<<<c.parts[i]>>>>
      <4> HIDE DEF r
      <4>1. r.invs[i] = [tool |-> "Edit", input |-> Only("file_path", c.parts[i])]
        BY <2>5, Zenon
      <4>2. Meant(c)[i] = [tool |-> "Edit", cmds |-> <<<<c.parts[i]>>>>]
        BY <2>5, Zenon
      <4> QED
        BY <4>1, <4>2
    <3> QED
      BY <3>1, <3>2
  <2> HIDE DEF r
  <2>7. r = ReadInvocations("copilot", files(c))
    BY DEF r, e
  <2> QED
    BY <2>1, <2>4, <2>6, <2>7 DEF AsMeant
<1> QED
  BY <1>7, <1>8

\* One file under Claude's key.
LEMMA FileAsMeant ==
  ASSUME NEW p, NEW c \in Calls, NEW e, c.tool \in {"Read", "Edit", "Write"}, Len(c.parts) = 1,
         ReadInvocations(p, e) = One(c.tool, Only("file_path", c.parts[1]))
  PROVE  AsMeant(p, c, e)
<1> DEFINE named == c.parts[1]
<1>1. c.parts = <<named>> /\ DOMAIN c.parts = {1}
  <2>1. c.parts \in Seq({c.parts[i] : i \in DOMAIN c.parts})
    BY CallsAssumption
  <2> QED
    BY <2>1, OnePart
<1>2. Meant(c) = <<[tool |-> c.tool, cmds |-> <<<<named>>>>]>>
  BY <1>1 DEF Meant
<1>3. fieldsFor(c.tool) = <<"file_path">> /\ c.tool # "Bash"
  BY DEF fieldsFor
<1>4. LET q == Parse([tool |-> c.tool, input |-> Only("file_path", named)])
      IN  q.ok /\ q.cmds = <<<<named>>>>
  BY <1>3, OneFieldParsed
<1> QED
  BY <1>2, <1>4, OneAsMeant

\* A file under one of Antigravity's keys, the others empty or absent.
LEMMA PaddedRewritten ==
  ASSUME NEW t, NotEmpty(t), NEW key \in {"file_path", "FilePath", "Path"},
         NEW empty \in SUBSET {"file_path", "FilePath", "Path"}
  PROVE  Rewrite(Object([k \in empty \cup {key} |-> String(IF k = key THEN t ELSE "")]),
                 <<"file_path", "FilePath", "Path">>, "file_path") = Only("file_path", t)
<1> DEFINE keys == <<"file_path", "FilePath", "Path">>
           f == [k \in empty \cup {key} |-> String(IF k = key THEN t ELSE "")]
           input == Object(f)
<1>1. DOMAIN keys = {1, 2, 3} /\ keys[1] = "file_path" /\ keys[2] = "FilePath" /\ keys[3] = "Path"
  OBVIOUS
<1>2. input.kind = "object" /\ input.fields = f
  BY DEF Object
<1>3. \A k \in DOMAIN f : f[k].type = "string" /\ f[k].text = IF k = key THEN t ELSE ""
  BY DEF String
<1>4. key \in DOMAIN f
  OBVIOUS
<1> HIDE DEF keys, f, input
<1>5. PICK n \in DOMAIN keys : keys[n] = key /\ \A i \in DOMAIN keys : keys[i] = key => i = n
  BY <1>1
<1>6. DOMAIN keys \subseteq Nat
  BY <1>1
<1>7. unmarshals(input, {keys[i] : i \in DOMAIN keys}, "string")
  BY <1>2, <1>3 DEF unmarshals
<1>8. text(input, keys[n]) = t /\ \A i \in DOMAIN keys : i # n => text(input, keys[i]) = ""
  BY <1>2, <1>3, <1>4, <1>5 DEF text
<1>9. Rewrite(input, keys, "file_path") = Only("file_path", text(input, keys[n]))
  BY <1>6, <1>7, <1>8, Rewritten DEF NotEmpty
<1> QED
  BY <1>8, <1>9 DEF input, f, keys

\* The calls of the other tools.
LEMMA OthersAsMeant ==
  ASSUME NEW p \in Providers, NEW c \in Calls, c.tool # "Bash", NEW e \in Spellings(p, c)
  PROVE  AsMeant(p, c, e)
<1> DEFINE t == c.parts[1]
<1>1. /\ c.parts \in Seq({c.parts[i] : i \in DOMAIN c.parts})
      /\ \A i \in DOMAIN c.parts : NotEmpty(c.parts[i])
      /\ c.tool # "Edit" => Len(c.parts) = Len(fieldsFor(c.tool))
      /\ c.tool \notin OwnNames
  BY CallsAssumption DEF NotEmpty
<1>2. CASE p = "copilot" /\ c.tool = "Edit"
  <2>1. e = files(c)
    BY <1>2 DEF Spellings
  <2> QED
    BY <1>2, <2>1, FilesAsMeant
<1>3. CASE c.tool \in {"Read", "Edit", "Write"} /\ ~(p = "copilot" /\ c.tool = "Edit")
  <2>1. Len(c.parts) = 1
    <3>1. Len(fieldsFor(c.tool)) = 1
      BY <1>3 DEF fieldsFor
    <3>2. CASE c.tool = "Edit"
      BY <1>3, <3>2 DEF Spellings
    <3> QED
      BY <1>1, <3>1, <3>2
  <2>2. c.parts = <<t>> /\ DOMAIN c.parts = {1} /\ NotEmpty(t)
    BY <1>1, <2>1, OnePart
  <2>3. CASE p = "copilot" /\ c.tool = "Write"
    <3>1. PICK k \in {"filePath", "file_path"} : e = [tool |-> "createFile", input |-> Only(k, t)]
      BY <2>3 DEF Spellings, keyed
    <3> DEFINE keys == <<"file_path", "filePath">>
    <3>2. DOMAIN keys = {1, 2} /\ keys[1] = "file_path" /\ keys[2] = "filePath"
      OBVIOUS
    <3> HIDE DEF keys
    <3>3. PICK n \in DOMAIN keys : keys[n] = k /\ \A i \in DOMAIN keys : keys[i] = keys[n] => i = n
      BY <3>2
    <3>4. DOMAIN keys \subseteq Nat
      BY <3>2
    <3>5. Rewrite(Only(keys[n], t), keys, "file_path") = Only("file_path", t)
      BY <2>2, <3>3, <3>4, RewrittenOnly
    <3>6. ReadInvocations(p, e) = One("Write", Only("file_path", t))
      BY <2>3, <3>1, <3>3, <3>5
      DEF ReadInvocations, readCopilot, normalizeCopilotToolName, normalizeCopilotToolInput, keys
    <3> QED
      BY <1>3, <2>1, <2>3, <3>6, FileAsMeant
  <2>4. CASE p = "antigravity"
    <3>1. PICK key \in {"file_path", "FilePath", "Path"},
               empty \in SUBSET {"file_path", "FilePath", "Path"} :
            e = padded(c, FileTool[c.tool], key, empty)
      BY <1>3, <2>1, <2>4 DEF Spellings, FileTool
    <3> DEFINE input == Object([k \in empty \cup {key} |-> String(IF k = key THEN t ELSE "")])
               keys == <<"file_path", "FilePath", "Path">>
    <3>2. e.tool = FileTool[c.tool] /\ e.input = input
      BY <3>1 DEF padded
    <3>3. Rewrite(input, keys, "file_path") = Only("file_path", t)
      BY <2>2, PaddedRewritten
    <3> HIDE DEF input
    <3>4. normalizeAntigravityToolName(e.tool) = c.tool
      BY <1>3, <3>2 DEF normalizeAntigravityToolName, FileTool
    <3>5. normalizeAntigravityToolArgs(e.tool, e.input) = Rewrite(input, keys, "file_path")
      BY <1>3, <3>2 DEF normalizeAntigravityToolArgs, FileTool
    <3>6. ReadInvocations(p, e) = One(c.tool, Only("file_path", t))
      BY <2>4, <3>3, <3>4, <3>5 DEF ReadInvocations, readAntigravity
    <3> QED
      BY <1>3, <2>1, <3>6, FileAsMeant
  <2>5. CASE p # "antigravity" /\ ~(p = "copilot" /\ c.tool = "Write")
    <3>1. e = plain(c)
      BY <1>3, <2>1, <2>5 DEF Spellings
    <3>2. ReadInvocations(p, e) = One(c.tool, Only("file_path", t))
      <4>1. e.input = Only("file_path", t)
        <5>1. fieldsFor(c.tool) = <<"file_path">>
          BY <1>3 DEF fieldsFor
        <5>2. e = [tool |-> c.tool, input |-> e.input]
              /\ e.input = Object([k \in {<<"file_path">>[i] : i \in {1}} |->
                                     String(c.parts[CHOOSE i \in {1} : <<"file_path">>[i] = k])])
          BY <2>2, <3>1, <5>1 DEF plain
        <5>3. {<<"file_path">>[i] : i \in {1}} = {"file_path"} /\ \A i \in {1} : i = 1
          OBVIOUS
        <5>4. \A k \in {"file_path"} : (CHOOSE i \in {1} : <<"file_path">>[i] = k) = 1
          OBVIOUS
        <5> QED
          BY <5>2, <5>3, <5>4 DEF Only
      <4>2. e.tool = c.tool
        BY <3>1 DEF plain
      <4> QED
        BY <1>3, <2>5, <4>1, <4>2
        DEF ReadInvocations, readCopilot, readCursor, normalizeCopilotToolName, normalizeCopilotToolInput,
            normalizeCursorToolName, Providers
    <3> QED
      BY <1>3, <2>1, <3>2, FileAsMeant
  <2> QED
    BY <1>3, <2>3, <2>4, <2>5
<1>4. CASE c.tool \notin {"Read", "Edit", "Write"}
  <2>1. e = plain(c)
    BY <1>4 DEF Spellings, FileTool
  <2>2. e = [tool |-> c.tool, input |-> e.input]
    BY <2>1 DEF plain
  <2>3. ReadInvocations(p, e) = One(c.tool, e.input)
    BY <1>1, <1>4, <2>2
    DEF ReadInvocations, readCopilot, readCursor, readAntigravity, normalizeCopilotToolName,
        normalizeCopilotToolInput, normalizeCursorToolName, normalizeAntigravityToolName,
        normalizeAntigravityToolArgs, OwnNames
  <2>4. LET q == Parse([tool |-> c.tool, input |-> plain(c).input]) IN q.ok /\ q.cmds = <<c.parts>>
    BY <1>1, <1>4, PlainParsed
  <2>5. Meant(c) = <<[tool |-> c.tool, cmds |-> <<c.parts>>]>>
    BY <1>4 DEF Meant
  <2> QED
    BY <2>1, <2>3, <2>4, <2>5, OneAsMeant
<1> QED
  BY <1>2, <1>3, <1>4

--------------------------------------------------------------------------------
(* The hook *)

Shown(i) == [tool |-> invs[i].tool, cmds |-> Parse(invs[i]).cmds]

\* What the rules have seen is what the parsers made of the first invocations.
ReadInv ==
  /\ providerOf(sub) \in Providers /\ IsInput(event.input)
  /\ phase \in {"read", "evaluate", "answered", "asked"}
  /\ phase = "read" => seen = << >>
  /\ phase \in {"evaluate", "answered"} =>
       /\ ReadInvocations(providerOf(sub), event).ok /\ invs = ReadInvocations(providerOf(sub), event).invs
       /\ seen \in Seq({Shown(i) : i \in DOMAIN invs}) /\ Len(seen) <= Len(invs)
       /\ \A i \in DOMAIN seen : i \in DOMAIN invs /\ seen[i] = Shown(i) /\ Parse(invs[i]).ok
  /\ phase = "answered" => Len(seen) = Len(invs)

LEMMA InitReads == Init => ReadInv
<1> SUFFICES ASSUME Init PROVE ReadInv
  OBVIOUS
<1>1. providerOf(sub) \in Providers
  BY DEF providerOf, Providers
<1>2. IsInput(event.input)
  BY <1>1, Written, CallsAssumption DEF Init
<1> QED
  BY <1>1, <1>2 DEF Init, ReadInv

LEMMA StepReads == ReadInv /\ [Next]_vars => ReadInv'
<1> SUFFICES ASSUME ReadInv, [Next]_vars PROVE ReadInv'
  OBVIOUS
<1> DEFINE p == providerOf(sub)
<1>1. CASE ReadEvent
  <2>1. /\ phase = "read" /\ seen' = << >> /\ event' = event /\ sub' = sub
        /\ invs' = ReadInvocations(p, event).invs
        /\ phase' = IF ReadInvocations(p, event).ok THEN "evaluate" ELSE "asked"
    BY <1>1 DEF ReadEvent, ReadInv
  <2>2. CASE ReadInvocations(p, event).ok
    <3>1. PICK n \in Nat : n >= 1 /\ Len(invs') = n
      BY <2>1, <2>2, ReadsSomething DEF ReadInv
    <3>2. << >> \in Seq({Shown(i) : i \in DOMAIN invs}') /\ Len(<< >>) = 0 /\ DOMAIN << >> = {}
      OBVIOUS
    <3> QED
      BY <2>1, <2>2, <3>1, <3>2 DEF ReadInv
  <2>3. CASE ~ReadInvocations(p, event).ok
    BY <2>1, <2>3 DEF ReadInv
  <2> QED
    BY <2>2, <2>3
<1>2. CASE Evaluate
  <2> DEFINE k == Len(seen) + 1
             S == {Shown(i) : i \in DOMAIN invs}
  <2>1. /\ phase = "evaluate" /\ Len(seen) < Len(invs)
        /\ event' = event /\ sub' = sub /\ invs' = invs
    BY <1>2 DEF Evaluate
  <2>2. \/ Parse(invs[k]).ok /\ seen' = Append(seen, Shown(k)) /\ phase' = phase
        \/ phase' = "asked" /\ seen' = seen
    BY <1>2 DEF Evaluate, Shown
  <2>3. CASE phase' = "asked" /\ seen' = seen
    BY <2>1, <2>3 DEF ReadInv
  <2>4. CASE Parse(invs[k]).ok /\ seen' = Append(seen, Shown(k)) /\ phase' = phase
    <3>1. PICK n \in Nat : n >= 1 /\ Len(invs) = n /\ DOMAIN invs = 1 .. n
      BY <2>1, ReadsSomething DEF ReadInv
    <3>2. seen \in Seq(S) /\ Len(seen) \in Nat
      BY <2>1 DEF ReadInv
    <3>3. k \in DOMAIN invs
      BY <2>1, <3>1, <3>2
    <3>4. Shown(k) \in S
      BY <3>3
    <3> HIDE DEF S
    <3>5. /\ seen' \in Seq(S) /\ Len(seen') = k
          /\ \A i \in DOMAIN seen' : (i \in DOMAIN seen /\ seen'[i] = seen[i]) \/ (i = k /\ seen'[i] = Shown(k))
      BY <2>4, <3>2, <3>4
    <3>6. \A i : (Shown(i))' = Shown(i)
      BY <2>1 DEF Shown
    <3>7. S' = S
      BY <2>1, <3>6 DEF S
    <3>8. \A i \in DOMAIN seen' : i \in DOMAIN invs /\ seen'[i] = Shown(i) /\ Parse(invs[i]).ok
      BY <2>1, <2>4, <3>3, <3>5 DEF ReadInv
    <3>9. k <= Len(invs)
      BY <2>1, <3>1, <3>2
    <3>10. {Shown(i) : i \in DOMAIN invs}' = S
      BY <3>7 DEF S
    <3> QED
      BY <2>1, <2>4, <3>5, <3>6, <3>8, <3>9, <3>10 DEF ReadInv
  <2> QED
    BY <2>2, <2>3, <2>4
<1>3. CASE Answer
  BY <1>3 DEF Answer, ReadInv, Shown
<1>4. CASE UNCHANGED vars
  BY <1>4 DEF vars, ReadInv, Shown
<1> QED
  BY <1>1, <1>2, <1>3, <1>4 DEF Next

LEMMA Reading == Spec => []ReadInv
BY InitReads, StepReads, PTL DEF Spec

\* The parser of every tool but Bash returns one command.
LEMMA CommandParsed ==
  ASSUME NEW inv, inv.tool # "Bash", Parse(inv).ok
  PROVE  Parse(inv).cmds # << >>
BY DEF Parse, parsePassthrough

\* No event is answered without an evaluation (AlwaysEvaluated): whatever a provider
\* reads of it is at least one invocation, the answer waits for all of them, and each
\* but a Bash line has a command.
THEOREM NoAnswerUnasked == Spec => []AlwaysEvaluated
<1>1. ReadInv => AlwaysEvaluated
  <2> SUFFICES ASSUME ReadInv, phase = "answered"
               PROVE  /\ seen # << >>
                      /\ \A i \in DOMAIN seen : seen[i].cmds = << >> => seen[i].tool = "Bash"
    BY DEF AlwaysEvaluated
  <2>1. PICK n \in Nat : n >= 1 /\ Len(invs) = n
    BY ReadsSomething DEF ReadInv
  <2>2. Len(<< >>) = 0
    OBVIOUS
  <2>3. seen # << >>
    BY <2>1, <2>2 DEF ReadInv
  <2>4. ASSUME NEW i \in DOMAIN seen, seen[i].cmds = << >> PROVE seen[i].tool = "Bash"
    <3>1. seen[i] = Shown(i) /\ Parse(invs[i]).ok
      BY DEF ReadInv
    <3>2. seen[i].tool = invs[i].tool /\ seen[i].cmds = Parse(invs[i]).cmds
      BY <3>1 DEF Shown
    <3> QED
      BY <2>4, <3>1, <3>2, CommandParsed
  <2> QED
    BY <2>3, <2>4
<1> QED
  BY <1>1, Reading, PTL

\* Except for Antigravity, whose provider rewrites the input, a Bash call that is
\* answered with no command to evaluate has none (UnreadableCommandAsks).
THEOREM UnreadableIsNotEmpty == Spec => []UnreadableCommandAsks
<1>1. ReadInv => UnreadableCommandAsks
  <2> SUFFICES ASSUME ReadInv, phase = "answered", providerOf(sub) # "antigravity",
                      NEW i \in DOMAIN seen, seen[i].tool = "Bash", seen[i].cmds = << >>
               PROVE  NoCommand(event.input)
    BY DEF UnreadableCommandAsks, NoCommand
  <2>1. /\ i \in DOMAIN invs /\ seen[i] = Shown(i) /\ Parse(invs[i]).ok
        /\ invs = ReadInvocations(providerOf(sub), event).invs
    BY DEF ReadInv
  <2>2. invs[i].tool = "Bash" /\ Parse(invs[i]).cmds = << >>
    BY <2>1 DEF Shown
  <2>3. invs[i].input = event.input
    BY <2>1, <2>2, BashAsSent DEF ReadInv
  <2> QED
    BY <2>1, <2>2, <2>3, NothingParsed DEF ReadInv
<1> QED
  BY <1>1, Reading, PTL

\* A call is read from an event that its agent writes for it, and the user is asked
\* only about an event that cannot be read.
CallInv ==
  LET r == ReadInvocations(providerOf(sub), event)
  IN  call # NoCall =>
        /\ call \in Calls /\ event \in Spellings(providerOf(sub), call)
        /\ phase = "asked" => ~r.ok \/ \E i \in DOMAIN r.invs : ~Parse(r.invs[i]).ok

LEMMA CallsRead == Spec => []CallInv
<1>1. Init => CallInv
  BY DEF Init, CallInv
<1>2. ReadInv /\ ReadInv' /\ CallInv /\ [Next]_vars => CallInv'
  <2> SUFFICES ASSUME ReadInv, CallInv, [Next]_vars PROVE CallInv'
    OBVIOUS
  <2> DEFINE r == ReadInvocations(providerOf(sub), event)
  <2>1. sub' = sub /\ call' = call /\ event' = event
    BY DEF Next, ReadEvent, Evaluate, Answer, vars
  <2>2. r' = r /\ Spellings(providerOf(sub), call)' = Spellings(providerOf(sub), call)
    BY <2>1
  <2>3. ASSUME phase' = "asked" PROVE phase = "asked" \/ ~r.ok \/ \E i \in DOMAIN r.invs : ~Parse(r.invs[i]).ok
    <3>1. CASE ReadEvent
      BY <2>3, <3>1 DEF ReadEvent
    <3>2. CASE Evaluate
      <4> DEFINE k == Len(seen) + 1
      <4>1. phase = "evaluate" /\ Len(seen) < Len(invs) /\ ~Parse(invs[k]).ok
        BY <2>3, <3>2 DEF Evaluate
      <4>2. invs = r.invs /\ r.ok /\ seen \in Seq({Shown(i) : i \in DOMAIN invs})
        BY <4>1 DEF ReadInv
      <4>3. PICK n \in Nat : n >= 1 /\ Len(invs) = n /\ DOMAIN invs = 1 .. n
        BY <4>2, ReadsSomething DEF ReadInv
      <4>4. Len(seen) \in Nat
        BY <4>2
      <4>5. k \in DOMAIN invs
        BY <4>1, <4>3, <4>4
      <4> HIDE DEF k
      <4> QED
        BY <4>1, <4>2, <4>5
    <3>3. CASE Answer
      BY <2>3, <3>3 DEF Answer
    <3>4. CASE UNCHANGED vars
      BY <2>3, <3>4 DEF vars
    <3> QED
      BY <3>1, <3>2, <3>3, <3>4 DEF Next
  <2> HIDE DEF r
  <2>4. (call # NoCall => call \in Calls /\ event \in Spellings(providerOf(sub), call))'
    BY <2>1, <2>2 DEF CallInv
  <2>5. call # NoCall /\ phase' = "asked" => ~r.ok \/ \E i \in DOMAIN r.invs : ~Parse(r.invs[i]).ok
    BY <2>3 DEF CallInv, r
  <2> QED
    BY <2>1, <2>2, <2>4, <2>5 DEF CallInv, r
<1> QED
  BY <1>1, <1>2, Reading, PTL DEF Spec

LEMMA MeantRecords ==
  ASSUME NEW c
  PROVE  Meant(c) = [i \in DOMAIN Meant(c) |-> [tool |-> Meant(c)[i].tool, cmds |-> Meant(c)[i].cmds]]
<1>1. CASE \E tool, parsed : Meant(c) = <<[tool |-> tool, cmds |-> parsed]>>
  BY <1>1
<1>2. CASE Meant(c) = [i \in DOMAIN c.parts |-> [tool |-> "Edit", cmds |-> <<<<c.parts[i]>>>>]]
  BY <1>2
<1> QED
  BY <1>1, <1>2 DEF Meant

\* One config serves every agent (RulesApplyUnchanged): whichever agent makes a call, and
\* whichever of its keys it uses, the rules see the same tool with the same arguments,
\* every file of an edit, and only a line that is no shell is left to the user.
THEOREM AgentsShareRules == Spec => []RulesApplyUnchanged
<1>1. ReadInv /\ CallInv => RulesApplyUnchanged
  <2> SUFFICES ASSUME ReadInv, CallInv, call # NoCall
               PROVE  /\ phase = "answered" => seen = Meant(call)
                      /\ phase = "asked" => call.tool = "Bash" /\ call.parts[1] \in NotShell
    BY DEF RulesApplyUnchanged
  <2> DEFINE p == providerOf(sub)
             r == ReadInvocations(p, event)
  <2>1. p \in Providers /\ call \in Calls /\ event \in Spellings(p, call)
    BY DEF ReadInv, CallInv
  <2>2. AsMeant(p, call, event)
    BY <2>1, LineAsMeant, OthersAsMeant
  <2>3. ASSUME phase = "answered" PROVE seen = Meant(call)
    <3>1. /\ r.ok /\ invs = r.invs /\ seen \in Seq({Shown(i) : i \in DOMAIN invs}) /\ Len(seen) = Len(invs)
          /\ \A i \in DOMAIN seen : seen[i] = Shown(i) /\ Parse(invs[i]).ok
      BY <2>3 DEF ReadInv
    <3>2. PICK n \in Nat : Len(invs) = n /\ DOMAIN invs = 1 .. n
      BY <3>1, ReadsSomething DEF ReadInv
    <3>3. DOMAIN seen = DOMAIN invs /\ seen = [i \in DOMAIN seen |-> seen[i]]
      BY <3>1, <3>2
    <3>4. DOMAIN Meant(call) = DOMAIN invs
      BY <2>2, <3>1 DEF AsMeant
    <3>5. ASSUME NEW i \in DOMAIN seen
          PROVE  seen[i] = [tool |-> Meant(call)[i].tool, cmds |-> Meant(call)[i].cmds]
      <4>1. seen[i] = [tool |-> invs[i].tool, cmds |-> Parse(invs[i]).cmds] /\ Parse(invs[i]).ok
        BY <3>1 DEF Shown
      <4>2. invs[i].tool = Meant(call)[i].tool /\ Parse(invs[i]).cmds = Meant(call)[i].cmds
        BY <2>2, <3>1, <3>3, <4>1 DEF AsMeant
      <4> QED
        BY <4>1, <4>2
    <3>6. Meant(call) = [i \in DOMAIN Meant(call) |->
                           [tool |-> Meant(call)[i].tool, cmds |-> Meant(call)[i].cmds]]
      BY MeantRecords
    <3> QED
      BY <3>3, <3>4, <3>5, <3>6
  <2>4. ASSUME phase = "asked" PROVE call.tool = "Bash" /\ call.parts[1] \in NotShell
    BY <2>2, <2>4 DEF CallInv, AsMeant
  <2> QED
    BY <2>3, <2>4
<1> QED
  BY <1>1, Reading, CallsRead, PTL

--------------------------------------------------------------------------------
(* wardhook test *)

\* Where the report comes from.
Reported(outcome, d) ==
  /\ outcome \in PossibleOutcomes
  /\ \E why : V!IsVerdict(Fired(outcome), d, why) /\ why \in Fired(outcome) \cup {V!NoReason}
  /\ report = ReportOf(outcome, d)

\* What runTest knows after each of its checks.
TestInv ==
  /\ args \in CommandLines /\ file \in Files
  /\ Printed => pc = "exit"
  /\ pc \in {"tool", "parse", "report"} \/ Printed => Elems(args.ruleNames) \subseteq NamesOf(file.rules)
  /\ pc \in {"parse", "report"} \/ Printed =>
       isSupportedTestTool(toolName) /\ toolName = resolveTool(file.rules, args.ruleNames, args.tool)
  /\ pc = "report" \/ Printed => cmds = HookSees(toolName, args.text)
  /\ Printed => \E outcome, d : Reported(outcome, d)

LEMMA ToolResolved ==
  ASSUME NEW rules, NEW names, NEW flag
  PROVE  resolveTool(rules, names, flag) = "" \/ isSupportedTestTool(resolveTool(rules, names, flag))
BY DEF resolveTool, isSupportedTestTool

\* The key that test writes is the one that the tool's parser reads.
LEMMA TextParsed ==
  ASSUME NEW tool, isSupportedTestTool(tool), NEW t,
         Parse([tool |-> tool, input |-> buildToolInput(tool, t)]).ok
  PROVE  CommandsFor(file.rules, tool, Parse([tool |-> tool, input |-> buildToolInput(tool, t)]).cmds)
           = HookSees(tool, t)
<1>1. CASE tool = "Bash"
  <2>1. Parse([tool |-> tool, input |-> buildToolInput(tool, t)]) = parseBash(Only("command", t))
    BY <1>1 DEF Parse, buildToolInput, toolInputKey
  <2> QED
    BY <1>1, <2>1 DEF HookSees
<1>2. CASE tool # "Bash"
  <2>1. fieldsFor(tool) = <<toolInputKey(tool)>>
    BY <1>2 DEF isSupportedTestTool, fieldsFor, toolInputKey
  <2>2. Parse([tool |-> tool, input |-> buildToolInput(tool, t)]).cmds = <<<<t>>>>
    BY <1>2, <2>1, OneFieldParsed DEF buildToolInput
  <2> QED
    BY <1>2, <2>2 DEF HookSees
<1> QED
  BY <1>1, <1>2

\* What a report is made of stays as it is.
LEMMA Unmoved ==
  ASSUME UNCHANGED <<args, file, toolName, cmds>>
  PROVE  /\ \A t : HookSees(toolName, t)' = HookSees(toolName, t)
         /\ PossibleOutcomes' = PossibleOutcomes
         /\ \A outcome : Fired(outcome)' = Fired(outcome)
         /\ \A F, d, why : V!IsVerdict(F, d, why)' = V!IsVerdict(F, d, why)
         /\ \A outcome, d : ReportOf(outcome, d)' = ReportOf(outcome, d)
<1>1. Selected' = Selected
  BY DEF Selected
<1>2. TracePlaces' = TracePlaces
  BY <1>1 DEF TracePlaces
<1>3. \A t : HookSees(toolName, t)' = HookSees(toolName, t)
  BY DEF HookSees
<1>4. PossibleOutcomes' = PossibleOutcomes
  BY <1>1, <1>2 DEF PossibleOutcomes
<1>5. \A outcome : Fired(outcome)' = Fired(outcome)
  BY <1>1, <1>2 DEF Fired
<1>6. \A F, d, why : V!IsVerdict(F, d, why)' = V!IsVerdict(F, d, why)
  BY <1>1 DEF V!IsVerdict, V!strength, V!before, V!NoReason
<1>7. \A name : PlacesOf(name)' = PlacesOf(name)
  BY <1>1, <1>2 DEF PlacesOf
<1>8. \A p, outcome : LineAt(p, outcome)' = LineAt(p, outcome)
  BY <1>1 DEF LineAt
<1>9. \A name, outcome : RuleBlock(name, outcome)' = RuleBlock(name, outcome)
  BY <1>1, <1>7, <1>8 DEF RuleBlock
<1>10. \A outcome : writeRuleTrace(outcome)' = writeRuleTrace(outcome)
  BY <1>1, <1>7, <1>9 DEF writeRuleTrace
<1>11. \A outcome, d : ReportOf(outcome, d)' = ReportOf(outcome, d)
  BY <1>10 DEF ReportOf, anyInspectionFailed
<1> QED
  BY <1>3, <1>4, <1>5, <1>6, <1>11

LEMMA TestInvInit == TestInit => TestInv
BY DEF TestInit, TestInv, Printed

LEMMA TestInvStep == TestInv /\ [TestNext]_testVars => TestInv'
<1> SUFFICES ASSUME TestInv, [TestNext]_testVars PROVE TestInv'
  OBVIOUS
<1>1. CASE ParseArgs
  BY <1>1 DEF ParseArgs, Step, Stop, TestInv, Printed
<1>2. CASE LoadConfig
  BY <1>2 DEF LoadConfig, Step, Stop, TestInv, Printed
<1>3. CASE validateRuleNames
  BY <1>3 DEF validateRuleNames, Step, Stop, TestInv, Printed
<1>4. CASE PickTool
  <2>1. toolName' = "" \/ isSupportedTestTool(toolName')
    BY <1>4, ToolResolved DEF PickTool
  <2> QED
    BY <1>4, <2>1 DEF PickTool, Step, Stop, TestInv, Printed, isSupportedTestTool
<1>5. CASE ParseText
  <2> DEFINE r == Parse([tool |-> toolName, input |-> buildToolInput(toolName, args.text)])
  <2>1. /\ pc = "parse" /\ report' = report /\ args' = args /\ file' = file /\ toolName' = toolName
        /\ \/ r.ok /\ pc' = "report" /\ cmds' = CommandsFor(file.rules, toolName, r.cmds)
           \/ pc' = "exit"
    BY <1>5 DEF ParseText, Step, Stop
  <2>2. r.ok => CommandsFor(file.rules, toolName, r.cmds) = HookSees(toolName, args.text)
    BY <2>1, TextParsed DEF TestInv
  <2>3. HookSees(toolName, args.text)' = HookSees(toolName, args.text)
    BY <2>1 DEF HookSees
  <2> HIDE DEF r
  <2> QED
    BY <2>1, <2>2, <2>3 DEF TestInv, Printed
<1>6. CASE Report
  <2>1. /\ pc = "report" /\ pc' = "exit"
        /\ args' = args /\ file' = file /\ toolName' = toolName /\ cmds' = cmds
    BY <1>6 DEF Report, Step
  <2>2. PICK outcome \in PossibleOutcomes, d \in Decision :
          \E why \in Fired(outcome) \cup {V!NoReason} :
            V!IsVerdict(Fired(outcome), d, why) /\ report' = ReportOf(outcome, d)
    BY <1>6 DEF Report
  <2>3. HookSees(toolName, args.text)' = HookSees(toolName, args.text)
    BY <2>1 DEF HookSees
  <2>4. Reported(outcome, d)'
    BY <2>1, <2>2, Unmoved DEF Reported
  <2> QED
    BY <2>1, <2>3, <2>4 DEF TestInv, Printed
<1>7. CASE UNCHANGED testVars
  <2>1. \A outcome, d : Reported(outcome, d)' = Reported(outcome, d)
    BY <1>7, Unmoved DEF Reported, testVars, V!NoReason
  <2> QED
    BY <1>7, <2>1, Unmoved DEF testVars, TestInv, Printed
<1> QED
  BY <1>1, <1>2, <1>3, <1>4, <1>5, <1>6, <1>7 DEF TestNext

LEMMA TestInvAlways == TestSpec => []TestInv
BY TestInvInit, TestInvStep, PTL DEF TestSpec

\* The report is about the commands that the hook evaluates (ShowsWhatTheHookSees),
\* whichever rules are asked about.
THEOREM TestSeesWhatTheHookSees == TestSpec => []ShowsWhatTheHookSees
<1>1. TestInv => ShowsWhatTheHookSees
  <2> SUFFICES ASSUME TestInv, Printed PROVE report.cmds = HookSees(report.tool, args.text)
    BY DEF ShowsWhatTheHookSees
  <2>1. PICK outcome, d : report = ReportOf(outcome, d)
    BY DEF TestInv, Reported
  <2>2. report.cmds = cmds /\ report.tool = toolName
    BY <2>1 DEF ReportOf
  <2> QED
    BY <2>2 DEF TestInv
<1> QED
  BY <1>1, TestInvAlways, PTL

--------------------------------------------------------------------------------
(* What the report says *)

LEMMA RulesAreList ==
  ASSUME file \in Files
  PROVE  file.rules \in Seq(Elems(file.rules))
<1>1. CASE file.rules \in Configs
  BY <1>1, ConfigsAssumption
<1>2. CASE file.rules = << >>
  BY <1>2
<1> QED
  BY <1>1, <1>2 DEF Files

LEMMA Selection ==
  ASSUME file \in Files
  PROVE  /\ Selected \in Seq(Elems(Selected))
         /\ args.ruleNames = << >> => Selected = file.rules
         /\ args.ruleNames # << >> =>
              Elems(Selected) = {r \in Elems(file.rules) : r.name \in Elems(args.ruleNames)}
<1> DEFINE places == {n \in DOMAIN file.rules : file.rules[n].name \in Elems(args.ruleNames)}
<1>1. file.rules \in Seq(Elems(file.rules))
  BY RulesAreList
<1>2. CASE args.ruleNames = << >>
  BY <1>1, <1>2 DEF Selected, filterRules
<1>3. CASE args.ruleNames # << >>
  <2>1. Selected = AtPlaces(file.rules, places)
    BY <1>3 DEF Selected, filterRules
  <2>2. DOMAIN file.rules = 1 .. Len(file.rules) /\ Len(file.rules) \in Nat
    BY <1>1
  <2>3. IsFiniteSet(1 .. Len(file.rules)) /\ places \in SUBSET (1 .. Len(file.rules))
    BY <2>2, FS_Interval
  <2>4. IsFiniteSet(places)
    BY ONLY <2>3, FS_Subset
  <2>5. /\ AtPlaces(file.rules, places) \in Seq(ElementsOf(AtPlaces(file.rules, places)))
        /\ ElementsOf(AtPlaces(file.rules, places)) = {file.rules[p] : p \in places}
    <3>1. places \in SUBSET Nat
      BY <2>3
    <3> HIDE DEF places
    <3> QED
      BY <2>4, <3>1, PlacesReached
  <2>6. ElementsOf(Selected) = Elems(Selected)
    BY DEF ElementsOf, Elems
  <2>7. {file.rules[p] : p \in places} = {r \in Elems(file.rules) : r.name \in Elems(args.ruleNames)}
    BY DEF Elems
  <2> HIDE DEF places
  <2> QED
    BY <1>3, <2>1, <2>5, <2>6, <2>7
<1> QED
  BY <1>2, <1>3

LEMMA OutcomesPossible ==
  ASSUME NEW outcome \in PossibleOutcomes, NEW p \in TracePlaces
  PROVE  outcome[p] \in evalRule(Selected[p.rule], cmds[p.cmd])
<1> DEFINE may(q) == evalRule(Selected[q.rule], cmds[q.cmd])
           open == {q \in TracePlaces : \A o \in Outcome : may(q) # {o}}
<1>1. PICK pick \in [open -> Outcome] :
        /\ \A q \in open : pick[q] \in may(q)
        /\ outcome = [q \in TracePlaces |-> IF q \in open THEN pick[q] ELSE CHOOSE o \in Outcome : o \in may(q)]
  BY DEF PossibleOutcomes
<1> HIDE DEF may
<1>2. CASE p \in open
  BY <1>1, <1>2 DEF may
<1>3. CASE p \notin open
  <2>1. \E o \in Outcome : o \in may(p)
    BY <1>3
  <2>2. outcome[p] = CHOOSE o \in Outcome : o \in may(p)
    BY <1>1, <1>3
  <2> QED
    BY <2>1, <2>2 DEF may
<1> QED
  BY <1>2, <1>3

\* Every place of a rule that is meant for the tool has its line, and there are no others.
LEMMA Lines ==
  ASSUME NEW outcome
  PROVE  /\ \A p \in TracePlaces :
              appliesTo(Selected[p.rule], toolName) =>
                \E b \in writeRuleTrace(outcome) :
                  b.name = Selected[p.rule].name /\ LineAt(p, outcome) \in b.lines
         /\ \A b \in writeRuleTrace(outcome) : \A l \in b.lines :
              \E p \in TracePlaces : appliesTo(Selected[p.rule], toolName) /\ l = LineAt(p, outcome)
<1>1. \A name : /\ RuleBlock(name, outcome).name = name
                /\ RuleBlock(name, outcome).lines = {LineAt(p, outcome) : p \in PlacesOf(name)}
  BY DEF RuleBlock
<1>2. ASSUME NEW p \in TracePlaces, appliesTo(Selected[p.rule], toolName)
      PROVE  \E b \in writeRuleTrace(outcome) :
               b.name = Selected[p.rule].name /\ LineAt(p, outcome) \in b.lines
  <2> DEFINE name == Selected[p.rule].name
  <2>1. p \in PlacesOf(name)
    BY <1>2 DEF PlacesOf
  <2>2. name \in NamesOf(Selected)
    BY DEF TracePlaces, NamesOf, Elems
  <2> HIDE DEF name
  <2>3. RuleBlock(name, outcome) \in writeRuleTrace(outcome)
    BY <2>1, <2>2 DEF writeRuleTrace
  <2> QED
    BY <1>1, <2>1, <2>3 DEF name
<1>3. ASSUME NEW b \in writeRuleTrace(outcome), NEW l \in b.lines
      PROVE  \E p \in TracePlaces : appliesTo(Selected[p.rule], toolName) /\ l = LineAt(p, outcome)
  <2>1. PICK name : b = RuleBlock(name, outcome)
    BY DEF writeRuleTrace
  <2>2. PICK p \in PlacesOf(name) : l = LineAt(p, outcome)
    BY <1>1, <2>1
  <2> QED
    BY <2>2 DEF PlacesOf
<1> QED
  BY <1>2, <1>3

LEMMA OneName ==
  ASSUME NEW names, names \in Seq(Elems(names)), Len(names) = 1
  PROVE  names # << >> /\ names[1] \in Elems(names)
<1>1. DOMAIN names = 1 .. 1
  OBVIOUS
<1>2. Len(<< >>) = 0
  OBVIOUS
<1> QED
  BY <1>1, <1>2 DEF Elems

\* A rule named alone is about the tool that is picked, if it is one that test supports.
LEMMA OwnTool ==
  ASSUME NEW rules, NEW names, Len(names) = 1, \E i \in DOMAIN rules : rules[i].name = names[1],
         DOMAIN rules \subseteq Nat,
         \A i \in DOMAIN rules :
           rules[i].name = names[1] => rules[i].tool = "*" \/ isSupportedTestTool(rules[i].tool)
  PROVE  \E i \in DOMAIN rules :
           rules[i].name = names[1] /\ appliesTo(rules[i], resolveTool(rules, names, ""))
<1> DEFINE named == {i \in DOMAIN rules : Len(names) = 1 /\ rules[i].name = names[1]}
           first == CHOOSE i \in named : \A j \in named : i <= j
<1>1. \E i \in named : \A j \in named : i <= j
  <2>1. named \in SUBSET Nat /\ named # {}
    OBVIOUS
  <2> HIDE DEF named
  <2> QED
    BY <2>1, Least
<1>2. first \in named
  BY <1>1
<1>3. resolveTool(rules, names, "") =
        IF isSupportedTestTool(rules[first].tool) THEN rules[first].tool ELSE "Bash"
  BY <1>2 DEF resolveTool
<1> QED
  BY <1>2, <1>3 DEF appliesTo

\* A selected rule that is about the tool of the report is shown against every command,
\* and one that is named alone is, unless its tool is not supported (EveryRuleIsShown).
THEOREM TestShowsEveryRule == TestSpec => []EveryRuleIsShown
<1>1. TestInv => EveryRuleIsShown
  <2> SUFFICES ASSUME TestInv, Printed
               PROVE  /\ Elems(args.ruleNames) \subseteq NamesOf(Selected)
                      /\ \A i \in DOMAIN report.cmds : \A r \in Elems(Selected) :
                           appliesTo(r, report.tool) =>
                             \E b \in report.blocks : b.name = r.name /\
                               \E l \in b.lines :
                                 l.cmd = i /\ l.action = r.action /\ l.outcome \in evalRule(r, cmds[i])
                      /\ NamedAlone /\ (\A r \in Elems(Selected) : r.tool = "*" \/ isSupportedTestTool(r.tool))
                           => \E r \in Elems(Selected) : appliesTo(r, report.tool)
    BY DEF EveryRuleIsShown
  <2>1. Elems(args.ruleNames) \subseteq NamesOf(Selected)
    <3>1. CASE args.ruleNames = << >>
      BY <3>1 DEF Elems
    <3>2. CASE args.ruleNames # << >>
      <4>1. Elems(Selected) = {r \in Elems(file.rules) : r.name \in Elems(args.ruleNames)}
        BY <3>2, Selection DEF TestInv
      <4>2. Elems(args.ruleNames) \subseteq NamesOf(file.rules)
        BY DEF TestInv
      <4> QED
        BY <4>1, <4>2 DEF NamesOf
    <3> QED
      BY <3>1, <3>2
  <2>2. PICK outcome, d : outcome \in PossibleOutcomes /\ report = ReportOf(outcome, d)
    BY DEF TestInv, Reported
  <2>3. report.cmds = cmds /\ report.tool = toolName /\ report.blocks = writeRuleTrace(outcome)
    BY <2>2 DEF ReportOf
  <2>4. ASSUME NEW i \in DOMAIN cmds, NEW r \in Elems(Selected), appliesTo(r, toolName)
        PROVE  \E b \in writeRuleTrace(outcome) : b.name = r.name /\
                 \E l \in b.lines : l.cmd = i /\ l.action = r.action /\ l.outcome \in evalRule(r, cmds[i])
    <3>1. PICK j \in DOMAIN Selected : r = Selected[j]
      BY DEF Elems
    <3> DEFINE p == [cmd |-> i, rule |-> j]
    <3>2. p \in TracePlaces /\ p.cmd = i /\ p.rule = j
      BY DEF TracePlaces
    <3> HIDE DEF p
    <3>3. PICK b \in writeRuleTrace(outcome) : b.name = r.name /\ LineAt(p, outcome) \in b.lines
      BY <2>4, <3>1, <3>2, Lines
    <3>4. outcome[p] \in evalRule(r, cmds[i])
      BY <2>2, <3>1, <3>2, OutcomesPossible
    <3>5. LineAt(p, outcome).cmd = i /\ LineAt(p, outcome).action = r.action
          /\ LineAt(p, outcome).outcome = outcome[p]
      BY <3>1, <3>2 DEF LineAt
    <3> QED
      BY <3>3, <3>4, <3>5
  <2>5. ASSUME NamedAlone, \A r \in Elems(Selected) : r.tool = "*" \/ isSupportedTestTool(r.tool)
        PROVE  \E r \in Elems(Selected) : appliesTo(r, toolName)
    <3>1. Len(args.ruleNames) = 1 /\ args.tool = ""
      BY <2>5, Zenon DEF NamedAlone
    <3>2. args.ruleNames # << >> /\ args.ruleNames[1] \in Elems(args.ruleNames)
      BY <3>1, CommandLinesAssumption, OneName DEF TestInv
    <3>3. Elems(Selected) = {r \in Elems(file.rules) : r.name \in Elems(args.ruleNames)}
      BY <3>2, Selection DEF TestInv
    <3>4. \E i \in DOMAIN file.rules : file.rules[i].name = args.ruleNames[1]
      BY <3>2 DEF TestInv, NamesOf, Elems
    <3>5. \A i \in DOMAIN file.rules :
            file.rules[i].name = args.ruleNames[1] => file.rules[i] \in Elems(Selected)
      BY <3>3, <3>2 DEF Elems
    <3>6. DOMAIN file.rules \subseteq Nat
      BY RulesAreList DEF TestInv
    <3>7. toolName = resolveTool(file.rules, args.ruleNames, "")
      BY <3>1 DEF TestInv
    <3>8. PICK i \in DOMAIN file.rules :
            file.rules[i].name = args.ruleNames[1] /\ appliesTo(file.rules[i], toolName)
      BY <2>5, <3>1, <3>4, <3>5, <3>6, <3>7, OwnTool
    <3> QED
      BY <3>5, <3>8
  <2> QED
    BY <2>1, <2>3, <2>4, <2>5
<1> QED
  BY <1>1, TestInvAlways, PTL

\* How strong the verdict is that each place asks for.
LEMMA Strengths ==
  ASSUME file \in Files, NEW outcome
  PROVE  /\ \A p \in TracePlaces : V!strength(p) = rank(Selected[p.rule].action)
         /\ \A p \in Fired(outcome) :
              p \in TracePlaces \/ (V!strength(p) = 2 /\ anyInspectionFailed)
         /\ anyInspectionFailed => \E p \in Fired(outcome) : V!strength(p) = 2
<1>1. Len(Selected) \in Nat /\ DOMAIN Selected = 1 .. Len(Selected)
  BY Selection
<1>2. \A p \in TracePlaces : V!strength(p) = rank(Selected[p.rule].action)
  BY DEF TracePlaces, V!strength, V!rank, rank
<1>3. ASSUME NEW p, p.rule = Len(Selected) + 1
      PROVE  V!strength(p) = 2
  <2>1. p.rule \notin DOMAIN Selected
    BY <1>1, <1>3
  <2> QED
    BY <2>1 DEF V!strength, V!rank
<1>4. ASSUME NEW p \in Fired(outcome), p \notin TracePlaces
      PROVE  V!strength(p) = 2 /\ anyInspectionFailed
  <2>1. PICK i \in DOMAIN cmds : cmds[i].inspectionFailed /\ p = [cmd |-> i, rule |-> Len(Selected) + 1]
    BY <1>4 DEF Fired
  <2>2. p.rule = Len(Selected) + 1
    BY <2>1
  <2> QED
    BY <1>3, <2>1, <2>2 DEF anyInspectionFailed
<1>5. ASSUME anyInspectionFailed
      PROVE  \E p \in Fired(outcome) : V!strength(p) = 2
  <2>1. PICK i \in DOMAIN cmds : cmds[i].inspectionFailed
    BY <1>5 DEF anyInspectionFailed
  <2> DEFINE p == [cmd |-> i, rule |-> Len(Selected) + 1]
  <2>2. p \in Fired(outcome) /\ p.rule = Len(Selected) + 1
    BY <2>1 DEF Fired
  <2> QED
    BY <1>3, <2>2
<1> QED
  BY <1>2, <1>4, <1>5

\* The verdict follows from the lines above it and the mark of a failed inspection
\* (FinalIsExplained): the lines that matched are the rules that asked for it.
THEOREM TestExplainsItsVerdict == TestSpec => []FinalIsExplained
<1>1. TestInv => FinalIsExplained
  <2> DEFINE matched == {l.action : l \in {l \in UNION {b.lines : b \in report.blocks} : l.outcome = "matched"}}
  <2> SUFFICES ASSUME TestInv, Printed
               PROVE  /\ report.final = "deny" <=> "deny" \in matched
                      /\ report.final = "ask" <=> "deny" \notin matched /\ ("ask" \in matched \/ report.forced)
    BY DEF FinalIsExplained
  <2>1. PICK outcome, d, why :
          /\ V!IsVerdict(Fired(outcome), d, why) /\ why \in Fired(outcome) \cup {V!NoReason}
          /\ report = ReportOf(outcome, d)
    BY DEF TestInv, Reported
  <2>2. /\ report.final = d /\ report.blocks = writeRuleTrace(outcome)
        /\ report.forced <=> d = "ask" /\ anyInspectionFailed
    BY <2>1 DEF ReportOf
  <2> DEFINE F == Fired(outcome)
  <2>3. \A p \in TracePlaces : /\ LineAt(p, outcome).action = Selected[p.rule].action
                               /\ LineAt(p, outcome).outcome = outcome[p]
    BY DEF LineAt
  <2>4. \A p \in TracePlaces : p \in F <=> appliesTo(Selected[p.rule], toolName) /\ outcome[p] = "matched"
    <3>1. \A i : [cmd |-> i, rule |-> Len(Selected) + 1] \notin TracePlaces
      <4>1. Len(Selected) + 1 \notin DOMAIN Selected
        BY Selection DEF TestInv
      <4>2. \A p \in TracePlaces : p.rule \in DOMAIN Selected
        BY DEF TracePlaces
      <4> QED
        BY <4>1, <4>2
    <3> QED
      BY <3>1 DEF Fired
  <2>5. ASSUME NEW a
        PROVE  a \in matched <=> \E p \in TracePlaces : p \in F /\ Selected[p.rule].action = a
    <3>1. ASSUME a \in matched
          PROVE  \E p \in TracePlaces : p \in F /\ Selected[p.rule].action = a
      <4>1. PICK b \in writeRuleTrace(outcome) : \E l \in b.lines : l.outcome = "matched" /\ l.action = a
        BY <2>2, <3>1
      <4>2. PICK l \in b.lines : l.outcome = "matched" /\ l.action = a
        BY <4>1
      <4>3. PICK p \in TracePlaces : appliesTo(Selected[p.rule], toolName) /\ l = LineAt(p, outcome)
        BY Lines
      <4> QED
        BY <2>3, <2>4, <4>2, <4>3
    <3>2. ASSUME NEW p \in TracePlaces, p \in F, Selected[p.rule].action = a
          PROVE  a \in matched
      <4>1. appliesTo(Selected[p.rule], toolName) /\ outcome[p] = "matched"
        BY <2>4, <3>2
      <4>2. PICK b \in writeRuleTrace(outcome) : LineAt(p, outcome) \in b.lines
        BY <4>1, Lines
      <4> QED
        BY <2>2, <2>3, <3>2, <4>1, <4>2
    <3> QED
      BY <3>1, <3>2
  <2> HIDE DEF matched, F
  <2>6. /\ \A p \in TracePlaces : V!strength(p) = rank(Selected[p.rule].action)
        /\ \A p \in F : p \in TracePlaces \/ (V!strength(p) = 2 /\ anyInspectionFailed)
        /\ anyInspectionFailed => \E p \in F : V!strength(p) = 2
    BY Strengths DEF TestInv, F
  <2>7. \/ d = "allow" /\ \A p \in F : V!strength(p) <= 1
        \/ d = "ask" /\ why \in F /\ V!strength(why) = 2 /\ \A p \in F : V!strength(p) <= 2
        \/ d = "deny" /\ why \in F /\ V!strength(why) = 3 /\ \A p \in F : V!strength(p) <= 3
    BY <2>1 DEF V!IsVerdict, V!rank, F
  <2>8. "deny" \in matched <=> \E p \in F : V!strength(p) = 3
    <3>1. \A p \in TracePlaces : V!strength(p) = 3 <=> Selected[p.rule].action = "deny"
      BY <2>6 DEF rank
    <3> QED
      BY <2>5, <2>6, <3>1
  <2>9. "ask" \in matched \/ anyInspectionFailed <=> \E p \in F : V!strength(p) = 2
    <3>1. \A p \in TracePlaces : V!strength(p) = 2 <=> Selected[p.rule].action = "ask"
      BY <2>6 DEF rank
    <3> QED
      BY <2>5, <2>6, <3>1
  <2> QED
    BY <2>2, <2>7, <2>8, <2>9
<1> QED
  BY <1>1, TestInvAlways, PTL
================================================================================
