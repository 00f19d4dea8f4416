------------------------------- MODULE MCDispatch ------------------------------
(* The calls and events of MCToolCall, and the command lines of MCTestCmd.      *)
EXTENDS Dispatch, MCToolCall, MCTestCmd
================================================================================
