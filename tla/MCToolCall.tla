------------------------------ MODULE MCToolCall -------------------------------
EXTENDS ToolCall, TLC

Parts == {"a", "b"}

MCCalls ==
  {[tool |-> "Bash", parts |-> <<l>>] : l \in {"rm", "$("}}
    \cup {[tool |-> t, parts |-> <<x>>] : t \in {"Read", "Write", "Edit", "NotebookEdit", "Glob", "WebFetch", "WebSearch"}, x \in Parts}
    \cup {[tool |-> "Edit", parts |-> s] : s \in UNION {[1 .. n -> Parts] : n \in {0, 2, 3}}}
    \cup {[tool |-> "Grep", parts |-> <<x, y>>] : x \in Parts, y \in Parts}
    \cup {[tool |-> t, parts |-> << >>] : t \in {"deleteFile", "list_dir", "MCP:x"}}

Empty == [k \in {} |-> String("")]
NotAnObject == {[kind |-> k, fields |-> Empty] : k \in {"missing", "null", "other"}}

Values == {String(""), String("a"), [String("") EXCEPT !.type = "list", !.items = <<"a", "b">>],
           [String("") EXCEPT !.type = "null"], [String("") EXCEPT !.type = "other"]}

Inputs ==
  NotAnObject \cup {Object(Empty)}
    \cup {Object([k \in {key} |-> v]) : key \in {"command", "CommandLine", "file_path", "FilePath", "files"}, v \in Values}
    \cup {Object("file_path" :> v @@ k :> w) : k \in {"filePath", "FilePath", "Path"}, v \in Values, w \in Values}

MCMalformed ==
  {[tool |-> t, input |-> i] :
     t \in {"", "Bash", "Shell", "runTerminalCommand", "editFiles", "createFile", "run_command", "edit_file", "Edit", "Grep"},
     i \in Inputs}
================================================================================
