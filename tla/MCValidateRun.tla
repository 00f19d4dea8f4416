----------------------------- MODULE MCValidateRun -----------------------------
EXTENDS ValidateRun

\* etc is denied and src asked about by the strict config; the lax one asks about etc.
MCVerdicts ==
  [c \in Configs |-> [t \in Targets |->
     CASE c = "strict" /\ t = "etc" -> "deny"
       [] c = "strict" /\ t = "src" -> "ask"
       [] c = "lax" /\ t = "etc" -> "ask"
       [] OTHER -> "allow"]]

Event(knd, in, ok) == [kind |-> knd, inputs |-> in, parses |-> ok]

MCEvents ==
  {Event("bad", << >>, TRUE), Event("single", <<"etc">>, TRUE), Event("single", <<"src">>, FALSE),
   Event("editFiles", << >>, TRUE), Event("editFiles", <<"src", "etc", "nothing">>, TRUE),
   Event("editFiles", <<"nothing", "src", "src">>, TRUE)}
================================================================================
