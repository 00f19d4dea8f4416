------------------------------ MODULE ValidateRun ------------------------------
(* wardhook validate and then the hook (cmd/wardhook/run.go), with the same     *)
(* flags and in the same directory: validate runs to its end, with an exit code *)
(* for scripts, before the hook starts.  Config files may change during and     *)
(* between the two runs.  The hook and the files are those of module HookRun.   *)
EXTENDS HookRun

VARIABLES vpc,      \* "flags", "stat", "open" or "done"
          vk,       \* position in the candidate list
          vpath,    \* the resolved path, 0 before
          vconfig,  \* the config found good, NoConfig before
          code      \* exit code, -1 while validate runs

validateVars == <<vpc, vk, vpath, vconfig, code>>
allVars == <<vars, validateVars>>

ValidateInit ==
  /\ Init
  /\ vpc = "flags" /\ vk = 1 /\ vpath = 0 /\ vconfig = NoConfig /\ code = -1

Done(c) == vpc' = "done" /\ code' = c

ValidateFlags ==
  /\ vpc = "flags"
  /\ \/ flags = "bad" /\ Done(2) /\ UNCHANGED vpath
     \/ flags = "none" /\ vpc' = "stat" /\ UNCHANGED <<vpath, code>>
     \/ flags = "config" /\ vpath' = Explicit /\ vpc' = "open" /\ UNCHANGED code
  /\ UNCHANGED <<vars, vk, vconfig>>

\* A directory of a candidate's name is taken for the config.
MutTakesDirectory ==
  /\ vpc = "stat" /\ vk <= NumCandidates
  /\ IF fs[vk] \notin {"absent", "unreachable"}
       THEN vpath' = vk /\ vpc' = "open" /\ UNCHANGED vk
       ELSE vk' = vk + 1 /\ UNCHANGED <<vpath, vpc>>
  /\ UNCHANGED <<vars, vconfig, code>>

\* One os.Stat of resolveConfigPath.
ValidateStat ==
  /\ vpc = "stat" /\ vk <= NumCandidates
  /\ IF isRegular(fs[vk])
       THEN vpath' = vk /\ vpc' = "open" /\ UNCHANGED vk
       ELSE vk' = vk + 1 /\ UNCHANGED <<vpath, vpc>>
  /\ UNCHANGED <<vars, vconfig, code>>

ValidateNotFound ==
  /\ vpc = "stat" /\ vk > NumCandidates
  /\ Done(1)
  /\ UNCHANGED <<vars, vk, vpath, vconfig>>

\* A missing file is as good as a config, as it is for the hook.
MutMissingIsOK ==
  /\ vpc = "open"
  /\ IF fs[vpath] \in Configs \cup {"absent"}
       THEN Done(0) /\ vconfig' = fs[vpath]
       ELSE Done(1) /\ UNCHANGED vconfig
  /\ UNCHANGED <<vars, vk, vpath>>

\* rule.Load: here a missing file is an error like any other.
ValidateLoad ==
  /\ vpc = "open"
  /\ IF fs[vpath] \in Configs
       THEN Done(0) /\ vconfig' = fs[vpath]
       ELSE Done(1) /\ UNCHANGED vconfig
  /\ UNCHANGED <<vars, vk, vpath>>

Validate == ValidateFlags \/ ValidateStat \/ ValidateNotFound \/ ValidateLoad

ChangeMeanwhile == vpc \in {"stat", "open"} /\ Change /\ UNCHANGED validateVars

Hook == vpc = "done" /\ Next /\ UNCHANGED validateVars

ValidateNext == Validate \/ ChangeMeanwhile \/ Hook

\* Neither process waits for anybody, the second but for the first.
ValidateSpec == ValidateInit /\ [][ValidateNext]_allVars
                /\ WF_allVars(Validate) /\ WF_allVars(vpc = "done" /\ Step /\ UNCHANGED validateVars)

--------------------------------------------------------------------------------
\* validate's exit code tells what the hook will do: after 0 it answers by the very
\* config that was validated, after anything else by none (run.go:191-194), unless a
\* file has changed; two of validate's errors differ for the hook (no config allows,
\* a bad one asks), but neither lets it use other rules.  A hook that ended in a panic, or
\* could not read its event, may not have come to use a config and is not spoken of.
ValidateForetells ==
  pc \in {"write", "exit"} /\ changes = 0 /\ final.reason.kind \notin {"input error", "panic"} =>
    /\ code = 0 => config = vconfig /\ config # NoConfig
    /\ code # 0 => config = NoConfig
    /\ code = 2 => final.dec = "ask"

\* Whatever happens to the files, OK is about a config that was in place, and for each
\* candidate before it there was a time when it was no file.
OkIsExplained ==
  code = 0 =>
    /\ vconfig \in past[vpath] \cap Configs
    /\ vpath # Explicit => \A p \in 1 .. vpath - 1 : \E s \in past[p] : ~isRegular(s)
================================================================================
