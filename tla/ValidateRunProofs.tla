--------------------------- MODULE ValidateRunProofs ---------------------------
(* Proofs about HookRun, and about validate followed by the hook, for any number *)
(* of candidates, any configs and events and any number of changes to the files. *)
EXTENDS ValidateRun, TLAPS


\* Only the steps to the exit write: before them nothing is on stdout and no write
\* has failed.
SilentBeforeExit == pc # "exit" => out = << >> /\ ~lost

AnswersInv == SilentBeforeExit /\ OneAnswer

--------------------------------------------------------------------------------
LEMMA OneIsAppended ==
  ASSUME NEW x
  PROVE  Len(Append(<< >>, x)) = 1 /\ Append(<< >>, x) # << >> /\ Len(<< >>) = 0
<1>1. << >> \in Seq({x}) /\ Len(<< >>) = 0  OBVIOUS
<1> QED  BY <1>1

\* A step that leaves stdout alone and does not lead to the exit.
LEMMA Silent ==
  ASSUME AnswersInv, pc # "exit", pc' # "exit", UNCHANGED <<out, lost>>
  PROVE  AnswersInv'
BY OneIsAppended DEF AnswersInv, SilentBeforeExit, OneAnswer

\* The two steps that write lead to the exit, with one answer or a failed write.
LEMMA Answering ==
  ASSUME AnswersInv, pc # "exit", pc' = "exit",
         \/ out' = Append(out, final) /\ UNCHANGED lost
         \/ lost' = TRUE /\ UNCHANGED out
  PROVE  AnswersInv'
<1>1. out = << >> /\ ~lost  BY DEF AnswersInv, SilentBeforeExit
<1>2. CASE out' = Append(out, final) /\ UNCHANGED lost
  <2>1. Len(out') = 1  BY <1>1, <1>2, OneIsAppended
  <2> QED  BY <2>1 DEF AnswersInv, SilentBeforeExit, OneAnswer
<1>3. CASE lost' = TRUE /\ UNCHANGED out
  <2>1. Len(out') = 0  BY <1>1, <1>3, OneIsAppended
  <2> QED  BY <1>3, <2>1 DEF AnswersInv, SilentBeforeExit, OneAnswer
<1> QED  BY <1>2, <1>3

LEMMA AnswersInvInit == Init => AnswersInv
<1> SUFFICES ASSUME Init PROVE AnswersInv  OBVIOUS
<1>1. pc = "flags" /\ out = << >> /\ lost = FALSE  BY DEF Init
<1> QED  BY <1>1, OneIsAppended DEF AnswersInv, SilentBeforeExit, OneAnswer

LEMMA AnswersInvStep == AnswersInv /\ [Next]_vars => AnswersInv'
<1> SUFFICES ASSUME AnswersInv, [Next]_vars PROVE AnswersInv'  OBVIOUS
<1>1. CASE ParseFlags  BY <1>1, Silent DEF ParseFlags, Reply
<1>2. CASE Read        BY <1>2, Silent DEF Read, Reply
<1>3. CASE Stat        BY <1>3, Silent DEF Stat
<1>4. CASE NotFound    BY <1>4, Silent DEF NotFound, Reply
<1>5. CASE Load        BY <1>5, Silent DEF Load, Reply
<1>6. CASE Parse       BY <1>6, Silent DEF Parse, Reply
<1>7. CASE Evaluate    BY <1>7, Silent DEF Evaluate
<1>8. CASE Evaluated   BY <1>8, Silent DEF Evaluated
<1>9. CASE Panic       BY <1>9, Silent DEF Panic
<1>10. CASE Write      BY <1>10, Answering DEF Write
<1>11. CASE Recover    BY <1>11, Answering DEF Recover
<1>12. CASE ChangeFile
  <2>1. pc # "exit" /\ UNCHANGED <<pc, out, lost>>  BY <1>12 DEF ChangeFile, Change
  <2> QED  BY <2>1, Silent
<1>13. CASE UNCHANGED vars
  BY <1>13 DEF vars, AnswersInv, SilentBeforeExit, OneAnswer
<1> QED
  BY <1>1, <1>2, <1>3, <1>4, <1>5, <1>6, <1>7, <1>8, <1>9, <1>10, <1>11, <1>12, <1>13
  DEF Next, Step

\* One process answers once, whatever the event, the files, their changes and the
\* panics (run.go:57-63, the deferred recover, and every "return 0" after a write).
THEOREM AnswersOnce == Spec => []OneAnswer
<1>1. AnswersInv => OneAnswer  BY DEF AnswersInv
<1> QED  BY <1>1, AnswersInvInit, AnswersInvStep, PTL DEF Spec

--------------------------------------------------------------------------------
(* No allow without a cause. *)

\* Every invocation parses and is allowed by the loaded config.
AllAllowed == \A n \in DOMAIN invs : invs[n].parses /\ Verdicts[config][invs[n].target] = "allow"

PassedOver(p) == \E s \in past[p] : ~isRegular(s)

\* What AllowIsExplained says of an allow, but for its choice of the strictest.
Cause ==
  \/ config \in Configs /\ config \in past[path] /\ AllAllowed
  \/ config = NoConfig /\ path # 0 /\ "absent" \in past[path]
  \/ path = 0 /\ \A p \in 1 .. NumCandidates : PassedOver(p)

PastOK == \A p \in Path : fs[p] \in past[p]

\* Before a config is loaded nothing is known of it, and the scan has passed over
\* what was no file when it looked.
SearchOK ==
  /\ pc \in {"flags", "read", "stat"} => path = 0 /\ \A p \in 1 .. k - 1 : PassedOver(p)
  /\ pc \in {"flags", "read", "stat", "open"} => config = NoConfig /\ i = 1
  /\ pc = "open" => path \in Path

\* While the loop runs, allow so far means that every invocation so far is allowed.
LoopOK ==
  pc \in {"parse", "evaluate"} =>
    /\ path \in Path /\ config \in Configs /\ config \in past[path]
    /\ final.dec = "allow" =>
         \A n \in DOMAIN invs : n < i => invs[n].parses /\ Verdicts[config][invs[n].target] = "allow"
    /\ pc = "evaluate" => i \in DOMAIN invs /\ invs[i].parses

AnswerOK ==
  /\ pc \in {"write", "exit"} /\ final.dec = "allow" => Cause
  /\ pc = "recover" => final.dec = "ask"
  /\ pc # "exit" => out = << >>
  /\ out # << >> => out = <<final>>

CauseInv == TypeOK /\ event \in Events /\ PastOK /\ SearchOK /\ LoopOK /\ AnswerOK

\* An event is at least one invocation, each about a known target.
LEMMA InvsTyped ==
  ASSUME event \in Events
  PROVE  /\ Len(invs) \in Nat \ {0} /\ DOMAIN invs = 1 .. Len(invs)
         /\ \A n \in DOMAIN invs : invs[n].target \in Targets
<1>1. event.inputs \in Seq(Targets) /\ "nothing" \in Targets  BY EventsAssumption
<1>2. CASE event.kind = "single"
  <2>1. event.inputs[1] \in Targets  BY <1>1, <1>2, EventsAssumption
  <2> QED  BY <1>2, <2>1 DEF invs, ReadInvocations
<1>3. CASE event.kind # "single" /\ event.inputs = << >>
  BY <1>1, <1>3 DEF invs, ReadInvocations
<1>4. CASE event.kind # "single" /\ event.inputs # << >>
  <2>1. invs = [n \in 1 .. Len(event.inputs) |-> [target |-> event.inputs[n], parses |-> TRUE]]
    BY <1>1, <1>4 DEF invs, ReadInvocations
  <2>2. Len(event.inputs) \in Nat \ {0}  BY <1>1, <1>4
  <2>3. Len(invs) = Len(event.inputs)  BY <2>1, <2>2
  <2>4. \A n \in 1 .. Len(event.inputs) : event.inputs[n] \in Targets  BY <1>1
  <2> QED  BY <2>1, <2>2, <2>3, <2>4
<1> QED  BY <1>2, <1>3, <1>4

\* The verdict on invocations that are all allowed is allow.
LEMMA AllowedIsStrictest ==
  ASSUME event \in Events, AllAllowed
  PROVE  Strictest(config).dec = "allow"
<1> DEFINE verdict(n) == IF invs[n].parses THEN Verdicts[config][invs[n].target] ELSE "ask"
           best(n) == \A m \in DOMAIN invs :
                        /\ rank(verdict(m)) <= rank(verdict(n))
                        /\ rank(verdict(m)) = rank(verdict(n)) => n <= m
           worst == CHOOSE n \in DOMAIN invs : best(n)
<1>1. \A n \in DOMAIN invs : verdict(n) = "allow"  BY DEF AllAllowed
<1>2. 1 \in DOMAIN invs /\ \A m \in DOMAIN invs : 1 <= m  BY InvsTyped
<1>3. best(1)  BY <1>1, <1>2 DEF rank
<1>4. worst \in DOMAIN invs
  <2> HIDE DEF best
  <2> QED  BY <1>2, <1>3
<1>5. verdict(worst) = "allow"  BY <1>1, <1>4
<1>6. Strictest(config).dec = verdict(worst)  BY DEF Strictest, Answer
<1> QED  BY <1>5, <1>6

LEMMA CauseExplains == CauseInv => AllowIsExplained
<1> SUFFICES ASSUME CauseInv, out # << >>, out[1].dec = "allow" PROVE
      \/ config # NoConfig /\ config \in past[path] /\ Strictest(config).dec = "allow"
      \/ config = NoConfig /\ path # 0 /\ "absent" \in past[path]
      \/ path = 0 /\ \A p \in 1 .. NumCandidates : \E s \in past[p] : ~isRegular(s)
  BY DEF AllowIsExplained
<1>1. pc = "exit" /\ out = <<final>>  BY DEF CauseInv, AnswerOK
<1>2. Cause  BY <1>1 DEF CauseInv, AnswerOK
<1>3. event \in Events  BY DEF CauseInv
<1>4. NoConfig \notin Configs  BY NamesAssumption
<1> QED  BY <1>2, <1>3, <1>4, AllowedIsStrictest DEF Cause, PassedOver

LEMMA CauseInvInit == Init => CauseInv
<1> SUFFICES ASSUME Init PROVE CauseInv  OBVIOUS
<1>1. TypeOK
  <2>1. past \in [Path -> SUBSET FileState]  BY DEF Init
  <2>2. k \in 1 .. NumCandidates + 1 /\ path \in 0 .. Explicit /\ changes \in 0 .. MaxChanges
    BY CandidatesAssumption, ChangesAssumption DEF Init, Explicit
  <2>3. final.dec \in Decision  BY DEF Init, Answer, Decision
  <2>4. DOMAIN out = {}  BY DEF Init
  <2>5. pc = "flags" /\ fs \in [Path -> FileState] /\ config \in Configs \cup {NoConfig}
    BY DEF Init
  <2>6. i \in Nat \ {0}  BY DEF Init
  <2>7. lost \in BOOLEAN  BY DEF Init
  <2> QED  BY <2>1, <2>2, <2>3, <2>4, <2>5, <2>6, <2>7 DEF TypeOK
<1>2. event \in Events /\ PastOK  BY DEF Init, PastOK
<1>3. SearchOK
  <2>1. 1 .. k - 1 = {}  BY DEF Init
  <2> QED  BY <2>1 DEF Init, SearchOK
<1>4. LoopOK /\ AnswerOK  BY DEF Init, LoopOK, AnswerOK
<1> QED  BY <1>1, <1>2, <1>3, <1>4 DEF CauseInv

\* What a step of the process leaves alone.
LEMMA WorldKept ==
  ASSUME CauseInv, UNCHANGED world
  PROVE  event' \in Events /\ PastOK' /\ invs' = invs /\ \A p : PassedOver(p)' = PassedOver(p)
BY DEF CauseInv, PastOK, world, invs, PassedOver

\* A step to the answer, or to the handler of panics, which has a cause if it allows.
LEMMA Replying ==
  ASSUME CauseInv, pc # "exit", UNCHANGED world, UNCHANGED <<k, path, config, i, out, lost>>,
         pc' \in {"write", "recover"}, final'.dec \in Decision,
         final'.dec = "allow" => Cause, pc' = "recover" => final'.dec = "ask"
  PROVE  CauseInv'
<1>1. event' \in Events /\ PastOK'  BY WorldKept
<1>2. TypeOK'  BY DEF CauseInv, TypeOK, world
<1>3. SearchOK' /\ LoopOK'  BY DEF SearchOK, LoopOK
<1>4. Cause' = Cause  BY DEF Cause, AllAllowed, invs, PassedOver, world
<1>5. AnswerOK'  BY <1>4 DEF CauseInv, AnswerOK
<1> QED  BY <1>1, <1>2, <1>3, <1>5 DEF CauseInv

LEMMA ParseFlagsCause == CauseInv /\ ParseFlags => CauseInv'
<1> SUFFICES ASSUME CauseInv, ParseFlags PROVE CauseInv'  OBVIOUS
<1>1. CASE flags = "bad"
  <2>1. pc # "exit" /\ UNCHANGED world /\ UNCHANGED <<k, path, config, i, out, lost>>
    BY <1>1 DEF ParseFlags
  <2>2. pc' = "write" /\ final' = Answer("ask", Because("flag error"))  BY <1>1 DEF ParseFlags, Reply
  <2>3. final'.dec = "ask"  BY <2>2 DEF Answer
  <2> QED  BY <2>1, <2>2, <2>3, Replying DEF Decision
<1>2. CASE flags # "bad"
  <2>1. event' \in Events /\ PastOK' /\ \A p : PassedOver(p)' = PassedOver(p)
    BY WorldKept DEF ParseFlags
  <2>2. TypeOK'  BY <1>2 DEF CauseInv, TypeOK, world, ParseFlags
  <2>3. SearchOK'  BY <1>2, <2>1 DEF CauseInv, SearchOK, ParseFlags
  <2>4. LoopOK' /\ AnswerOK'  BY <1>2 DEF CauseInv, LoopOK, AnswerOK, ParseFlags
  <2> QED  BY <2>1, <2>2, <2>3, <2>4 DEF CauseInv
<1> QED  BY <1>1, <1>2

LEMMA ReadCause == CauseInv /\ Read => CauseInv'
<1> SUFFICES ASSUME CauseInv, Read PROVE CauseInv'  OBVIOUS
<1>1. CASE event.kind = "bad"
  <2>1. pc # "exit" /\ UNCHANGED world /\ UNCHANGED <<k, path, config, i, out, lost>>
    BY <1>1 DEF Read
  <2>2. pc' = "write" /\ final' = Answer("ask", Because("input error"))  BY <1>1 DEF Read, Reply
  <2>3. final'.dec = "ask"  BY <2>2 DEF Answer
  <2> QED  BY <2>1, <2>2, <2>3, Replying DEF Decision
<1>2. CASE event.kind # "bad"
  <2>1. event' \in Events /\ PastOK' /\ \A p : PassedOver(p)' = PassedOver(p)
    BY WorldKept DEF Read
  <2>2. Explicit \in Path /\ Explicit \in 0 .. Explicit
    BY CandidatesAssumption DEF Path, Explicit
  <2>3. TypeOK'  BY <1>2, <2>2 DEF CauseInv, TypeOK, world, Read
  <2>4. SearchOK'  BY <1>2, <2>1, <2>2 DEF CauseInv, SearchOK, Read
  <2>5. LoopOK' /\ AnswerOK'  BY <1>2 DEF CauseInv, LoopOK, AnswerOK, Read
  <2> QED  BY <2>1, <2>3, <2>4, <2>5 DEF CauseInv
<1> QED  BY <1>1, <1>2

LEMMA StatCause == CauseInv /\ Stat => CauseInv'
<1> SUFFICES ASSUME CauseInv, Stat PROVE CauseInv'  OBVIOUS
<1>1. event' \in Events /\ PastOK' /\ \A p : PassedOver(p)' = PassedOver(p)
  BY WorldKept DEF Stat
<1>2. k \in 1 .. NumCandidates /\ k \in Path /\ k \in 0 .. Explicit
  BY CandidatesAssumption DEF CauseInv, TypeOK, Stat, Path, Explicit
<1>3. TypeOK'
  BY <1>2, CandidatesAssumption DEF CauseInv, TypeOK, world, Stat
<1>4. LoopOK' /\ AnswerOK'  BY DEF CauseInv, LoopOK, AnswerOK, Stat
<1>5. SearchOK'
  <2>1. CASE isRegular(fs[k])
    BY <1>2, <2>1 DEF CauseInv, SearchOK, Stat
  <2>2. CASE ~isRegular(fs[k])
    <3>1. PassedOver(k)  BY <1>2, <2>2 DEF CauseInv, PastOK, PassedOver
    <3>2. \A p \in 1 .. k - 1 : PassedOver(p)  BY DEF CauseInv, SearchOK, Stat
    <3>3. \A p \in 1 .. k : PassedOver(p)
      <4>1. \A p \in 1 .. k : p = k \/ p \in 1 .. k - 1  BY <1>2, CandidatesAssumption
      <4> QED  BY <3>1, <3>2, <4>1
    <3>4. k' = k + 1 /\ k' - 1 = k  BY <1>2, <2>2, CandidatesAssumption DEF Stat
    <3> QED  BY <1>1, <2>2, <3>3, <3>4 DEF CauseInv, SearchOK, Stat
  <2> QED  BY <2>1, <2>2
<1> QED  BY <1>1, <1>3, <1>4, <1>5 DEF CauseInv

\* The scan is over: every candidate has been passed over.
LEMMA NotFoundCause == CauseInv /\ NotFound => CauseInv'
<1> SUFFICES ASSUME CauseInv, NotFound PROVE CauseInv'  OBVIOUS
<1>1. k - 1 = NumCandidates
  BY CandidatesAssumption DEF CauseInv, TypeOK, NotFound
<1>2. Cause  BY <1>1 DEF CauseInv, SearchOK, NotFound, Cause
<1>3. pc # "exit" /\ UNCHANGED world /\ UNCHANGED <<k, path, config, i, out, lost>>
  BY DEF NotFound
<1>4. pc' = "write" /\ final'.dec = "allow"  BY DEF NotFound, Reply, Answer
<1> QED  BY <1>2, <1>3, <1>4, Replying DEF Decision

\* An allow from here saw the file absent; a loaded config was at its path.
LEMMA LoadCause == CauseInv /\ Load => CauseInv'
<1> SUFFICES ASSUME CauseInv, Load PROVE CauseInv'  OBVIOUS
<1>1. path \in Path /\ config = NoConfig /\ i = 1 /\ fs[path] \in past[path]
  BY DEF CauseInv, SearchOK, PastOK, Load
<1>2. CASE fs[path] = "absent"
  <2>1. path # 0  BY <1>1, CandidatesAssumption DEF Path, Explicit
  <2>2. Cause  BY <1>1, <1>2, <2>1 DEF Cause
  <2>3. "absent" \notin Configs  BY NamesAssumption
  <2>4. UNCHANGED world /\ UNCHANGED <<k, path, config, i, out, lost>> /\ Reply("allow", NoReason)
    BY <1>2, <2>3 DEF Load
  <2>5. pc # "exit" /\ pc' = "write" /\ final'.dec = "allow"  BY <2>4 DEF Load, Reply, Answer
  <2> QED  BY <2>2, <2>4, <2>5, Replying DEF Decision
<1>3. CASE fs[path] \in {"unreachable", "dir", "broken"}
  <2>1. fs[path] \notin Configs  BY <1>3, NamesAssumption
  <2>2. UNCHANGED world /\ UNCHANGED <<k, path, config, i, out, lost>>
        /\ Reply("ask", Because("config error"))
    BY <1>3, <2>1 DEF Load
  <2>3. pc # "exit" /\ pc' = "write" /\ final'.dec = "ask"  BY <2>2 DEF Load, Reply, Answer
  <2> QED  BY <2>2, <2>3, Replying DEF Decision
<1>4. CASE fs[path] \in Configs
  <2>1. event' \in Events /\ PastOK'  BY WorldKept DEF Load
  <2>2. fs[path] \notin {"absent", "unreachable", "dir", "broken"}  BY <1>4, NamesAssumption
  <2>3. config' = fs[path] /\ pc' = "parse" /\ final' = final  BY <1>4, <2>2 DEF Load
  <2>4. TypeOK'  BY <1>4, <2>3 DEF CauseInv, TypeOK, world, Load
  <2>5. SearchOK' /\ AnswerOK'  BY <2>3 DEF CauseInv, SearchOK, AnswerOK, Load
  <2>6. LoopOK'
    <3>1. i' = 1 /\ path' = path /\ past' = past  BY <1>1 DEF Load, world
    <3>2. invs' = invs  BY DEF invs, Load, world
    <3>3. \A n \in DOMAIN invs : ~(n < 1)  BY InvsTyped DEF CauseInv
    <3> QED  BY <1>1, <1>4, <2>3, <3>1, <3>2, <3>3 DEF LoopOK
  <2> QED  BY <2>1, <2>4, <2>5, <2>6 DEF CauseInv
<1> QED  BY <1>2, <1>3, <1>4 DEF Load

\* A parse error asks; otherwise the invocation at hand parses.
LEMMA ParseCause == CauseInv /\ Parse => CauseInv'
<1> SUFFICES ASSUME CauseInv, Parse PROVE CauseInv'  OBVIOUS
<1>1. CASE ~invs[i].parses
  <2>1. pc # "exit" /\ UNCHANGED world /\ UNCHANGED <<k, path, config, i, out, lost>>
    BY DEF Parse
  <2>2. pc' = "write" /\ final' = Answer("ask", Because("parse error"))  BY <1>1 DEF Parse, Reply
  <2>3. final'.dec = "ask"  BY <2>2 DEF Answer
  <2> QED  BY <2>1, <2>2, <2>3, Replying DEF Decision
<1>2. CASE invs[i].parses
  <2>1. event' \in Events /\ PastOK' /\ invs' = invs /\ past' = past
    BY WorldKept DEF Parse, world
  <2>2. pc = "parse" /\ pc' = "evaluate" /\ UNCHANGED <<k, path, config, i, final, out, lost>>
    BY <1>2 DEF Parse
  <2>3. TypeOK'  BY <2>2 DEF CauseInv, TypeOK, world, Parse
  <2>4. SearchOK' /\ AnswerOK'  BY <2>2 DEF CauseInv, SearchOK, AnswerOK
  <2>5. i \in DOMAIN invs
    <3>1. i \in Nat \ {0} /\ event \in Events  BY DEF CauseInv, TypeOK
    <3>2. i <= Len(invs)  BY DEF Parse
    <3> QED  BY <3>1, <3>2, InvsTyped
  <2>6. LoopOK'  BY <1>2, <2>1, <2>2, <2>5 DEF CauseInv, LoopOK
  <2> QED  BY <2>1, <2>3, <2>4, <2>6 DEF CauseInv
<1> QED  BY <1>1, <1>2

\* If the answer still allows after this invocation, the invocation is allowed.
LEMMA EvaluateCause == CauseInv /\ Evaluate => CauseInv'
<1> SUFFICES ASSUME CauseInv, Evaluate PROVE CauseInv'  OBVIOUS
<1> DEFINE dec == Verdicts[config][invs[i].target]
<1>1. /\ pc = "evaluate" /\ pc' = "parse" /\ i' = i + 1
      /\ UNCHANGED <<k, path, config, out, lost>>
  BY DEF Evaluate
<1>2. event' \in Events /\ PastOK' /\ invs' = invs /\ past' = past
  BY WorldKept DEF Evaluate, world
<1>3. config \in Configs /\ path \in Path /\ config \in past[path] /\ i \in DOMAIN invs /\ invs[i].parses
  BY <1>1 DEF CauseInv, LoopOK
<1>4. invs[i].target \in Targets  BY <1>3, InvsTyped DEF CauseInv
<1>5. dec \in Decision  BY <1>3, <1>4, VerdictsAssumption
<1>6. final.dec \in Decision /\ i \in Nat \ {0}  BY DEF CauseInv, TypeOK
<1>7. \/ stricter(dec, final.dec) /\ final'.dec = dec
      \/ ~stricter(dec, final.dec) /\ final' = final
  BY DEF Evaluate, Answer
<1>8. final'.dec \in Decision  BY <1>5, <1>6, <1>7
<1>9. final'.dec = "allow" => final.dec = "allow" /\ dec = "allow"
  BY <1>5, <1>6, <1>7 DEF stricter, rank, Decision
<1>10. TypeOK'
  <2>1. i' \in Nat \ {0}  BY <1>1, <1>6
  <2> QED  BY <1>1, <1>8, <2>1 DEF CauseInv, TypeOK, world, Evaluate
<1>11. SearchOK' /\ AnswerOK'  BY <1>1 DEF CauseInv, SearchOK, AnswerOK
<1>12. LoopOK'
  <2>1. SUFFICES ASSUME final'.dec = "allow", NEW n \in DOMAIN invs, n < i + 1
                 PROVE  invs[n].parses /\ Verdicts[config][invs[n].target] = "allow"
    BY <1>1, <1>2, <1>3 DEF LoopOK
  <2>2. CASE n = i  BY <1>3, <1>9, <2>1, <2>2
  <2>3. CASE n # i
    <3>1. n < i  BY <1>6, <2>1, <2>3, InvsTyped DEF CauseInv
    <3> QED  BY <1>1, <1>9, <2>1, <3>1 DEF CauseInv, LoopOK
  <2> QED  BY <2>2, <2>3
<1> QED  BY <1>2, <1>10, <1>11, <1>12 DEF CauseInv

\* The loop is over: an allow by now is an allow for every invocation.
LEMMA EvaluatedCause == CauseInv /\ Evaluated => CauseInv'
<1> SUFFICES ASSUME CauseInv, Evaluated PROVE CauseInv'  OBVIOUS
<1>1. pc = "parse" /\ pc' = "write" /\ UNCHANGED world
      /\ UNCHANGED <<k, path, config, i, out, lost>> /\ final' = final
  BY DEF Evaluated
<1>2. \A n \in DOMAIN invs : n < i
  BY InvsTyped DEF CauseInv, TypeOK, Evaluated
<1>3. final.dec = "allow" => Cause  BY <1>1, <1>2 DEF CauseInv, LoopOK, Cause, AllAllowed
<1>4. final'.dec \in Decision  BY <1>1 DEF CauseInv, TypeOK
<1>5. final'.dec = "allow" => Cause  BY <1>1, <1>3
<1> QED  BY <1>1, <1>4, <1>5, Replying

LEMMA PanicCause == CauseInv /\ Panic => CauseInv'
<1> SUFFICES ASSUME CauseInv, Panic PROVE CauseInv'  OBVIOUS
<1>1. pc # "exit" /\ pc' = "recover" /\ UNCHANGED world
      /\ UNCHANGED <<k, path, config, i, out, lost>>
  BY DEF Panic
<1>2. final'.dec = "ask"  BY DEF Panic, Answer
<1> QED  BY <1>1, <1>2, Replying DEF Decision

\* The two steps that write.
LEMMA WritingCause ==
  ASSUME CauseInv, pc \in {"write", "recover"}, pc' = "exit", UNCHANGED world,
         UNCHANGED <<k, path, config, i, final>>,
         \/ out' = Append(out, final) /\ UNCHANGED lost
         \/ lost' = TRUE /\ UNCHANGED out
  PROVE  CauseInv'
<1>1. event' \in Events /\ PastOK'  BY WorldKept
<1>2. out = << >>  BY DEF CauseInv, AnswerOK
<1>3. out' = << >> \/ out' = <<final>>  BY <1>2
<1>4. TypeOK'
  <2>1. \A n \in DOMAIN out' : out'[n].dec \in Decision  BY <1>3 DEF CauseInv, TypeOK
  <2>2. lost' \in BOOLEAN  BY DEF CauseInv, TypeOK
  <2> QED  BY <2>1, <2>2 DEF CauseInv, TypeOK, world
<1>5. SearchOK' /\ LoopOK'  BY DEF SearchOK, LoopOK
<1>6. Cause' = Cause  BY DEF Cause, AllAllowed, invs, PassedOver, world
<1>7. final.dec = "allow" => Cause  BY DEF CauseInv, AnswerOK
<1>8. AnswerOK'  BY <1>3, <1>6, <1>7 DEF AnswerOK
<1> QED  BY <1>1, <1>4, <1>5, <1>8 DEF CauseInv

\* Others only add to what a path has been.
LEMMA ChangeCause ==
  ASSUME CauseInv, Change, pc \in {"flags", "stat", "open"}
  PROVE  CauseInv'
<1>1. UNCHANGED <<pc, flags, event, k, path, config, i, final, out, lost>>
  BY DEF Change
<1>2. fs' \in [Path -> FileState]
  <2>1. fs \in [Path -> FileState]  BY DEF CauseInv, TypeOK
  <2>2. PICK p \in Watched :
          \/ \E s \in FileState \ {fs[p]} : fs' = [fs EXCEPT ![p] = s]
          \/ \E q \in Watched \ {p} : fs[p] \in Configs /\ fs' = [fs EXCEPT ![q] = fs[p], ![p] = "absent"]
    BY DEF Change
  <2>3. CASE \E s \in FileState \ {fs[p]} : fs' = [fs EXCEPT ![p] = s]
    BY <2>1, <2>3
  <2>4. CASE \E q \in Watched \ {p} : fs[p] \in Configs /\ fs' = [fs EXCEPT ![q] = fs[p], ![p] = "absent"]
    <3>1. \A c \in Configs : c \in FileState  BY DEF FileState
    <3>2. "absent" \in FileState  BY DEF FileState
    <3> QED  BY <2>1, <2>4, <3>1, <3>2
  <2> QED  BY <2>2, <2>3, <2>4
<1>3. past' = [p \in Path |-> past[p] \cup {fs'[p]}]  BY DEF Change
<1>4. TypeOK'
  <2>1. past' \in [Path -> SUBSET FileState]
    <3>1. past \in [Path -> SUBSET FileState]  BY DEF CauseInv, TypeOK
    <3> QED  BY <1>2, <1>3, <3>1
  <2>2. changes' \in 0 .. MaxChanges
    BY ChangesAssumption DEF CauseInv, TypeOK, Change
  <2>3. lost' \in BOOLEAN  BY <1>1 DEF CauseInv, TypeOK
  <2> QED  BY <1>1, <1>2, <2>1, <2>2, <2>3 DEF CauseInv, TypeOK
<1>5. event' \in Events /\ PastOK'  BY <1>1, <1>3 DEF CauseInv, PastOK
<1>6. SearchOK'
  <2>1. \A p \in Path : PassedOver(p) => PassedOver(p)'  BY <1>3 DEF PassedOver
  <2>2. \A p \in 1 .. k - 1 : p \in Path
    BY CandidatesAssumption DEF CauseInv, TypeOK, Path, Explicit
  <2> QED  BY <1>1, <2>1, <2>2 DEF CauseInv, SearchOK
<1>7. LoopOK' /\ AnswerOK'  BY <1>1 DEF CauseInv, LoopOK, AnswerOK
<1> QED  BY <1>4, <1>5, <1>6, <1>7 DEF CauseInv

LEMMA CauseInvStep == CauseInv /\ [Next]_vars => CauseInv'
<1> SUFFICES ASSUME CauseInv, [Next]_vars PROVE CauseInv'  OBVIOUS
<1>1. CASE Write      BY <1>1, WritingCause DEF Write
<1>2. CASE Recover    BY <1>2, WritingCause DEF Recover
<1>3. CASE UNCHANGED vars
  BY <1>3 DEF vars, CauseInv, TypeOK, PastOK, SearchOK, LoopOK, AnswerOK, Cause, AllAllowed,
     PassedOver, invs
<1> QED
  BY <1>1, <1>2, <1>3, ParseFlagsCause, ReadCause, StatCause, NotFoundCause, LoadCause,
     ParseCause, EvaluateCause, EvaluatedCause, PanicCause, ChangeCause
  DEF Next, Step, ChangeFile

\* Every reachable state of the process is well typed.
THEOREM TypeCorrect == Spec => []TypeOK
<1>1. CauseInv => TypeOK  BY DEF CauseInv
<1> QED  BY <1>1, CauseInvInit, CauseInvStep, PTL DEF Spec

\* Whatever the events, and however often the files change meanwhile, the hook never
\* allows without one of the causes of AllowIsExplained: a config that was in place and
\* allows every invocation, a file that was gone when it was opened, or no candidate
\* that was always a file (run.go:83-128).
THEOREM AllowHasCause == Spec => []AllowIsExplained
<1> QED  BY CauseExplains, CauseInvInit, CauseInvStep, PTL DEF Spec

--------------------------------------------------------------------------------
(* While the files stay as they are, the answer is the config's. *)

\* The path to use, if there is one ...
Located ==
  IF flags = "config" THEN path = Explicit
  ELSE /\ path \in 1 .. NumCandidates /\ isRegular(fs[path])
       /\ \A p \in 1 .. path - 1 : ~isRegular(fs[p])

\* ... or there is none.
NothingThere == flags = "none" /\ \A p \in 1 .. NumCandidates : ~isRegular(fs[p])

Used == flags # "bad" /\ Located /\ fs[path] \in Configs /\ config = fs[path]

Unused == config = NoConfig /\ (flags = "bad" \/ NothingThere \/ (Located /\ fs[path] \notin Configs))

\* What an invocation is worth under the loaded config.
Judged(n) == IF invs[n].parses THEN Verdicts[config][invs[n].target] ELSE "ask"

\* No invocation is stricter, and none before it as strict.
Worst(n) ==
  /\ n \in DOMAIN invs
  /\ \A m \in DOMAIN invs :
       /\ rank(Judged(m)) <= rank(Judged(n))
       /\ rank(Judged(m)) = rank(Judged(n)) => n <= m

\* How far the process is says what it found in the flags and in the event.
StageOK ==
  /\ flags \in {"bad", "none", "config"}
  /\ pc \in {"read", "stat", "open", "parse", "evaluate"} => flags # "bad"
  /\ pc \in {"stat", "open", "parse", "evaluate"} => event.kind # "bad"
  /\ pc = "stat" => flags = "none"
  /\ pc \in {"flags", "read"} => k = 1
  /\ pc \in {"flags", "read", "stat", "open"} => final = Answer("allow", NoReason)

\* The accumulator is the first of the strictest invocations so far.
SoFarOK ==
  pc \in {"parse", "evaluate"} =>
    /\ \A n \in DOMAIN invs : n < i => invs[n].parses
    /\ \/ final = Answer("allow", NoReason) /\ \A n \in DOMAIN invs : n < i => Judged(n) = "allow"
       \/ \E w \in DOMAIN invs :
            /\ w < i /\ Judged(w) # "allow"
            /\ final = Answer(Judged(w), [kind |-> "rule", inv |-> w])
            /\ \A n \in DOMAIN invs : n < i =>
                 /\ rank(Judged(n)) <= rank(Judged(w))
                 /\ rank(Judged(n)) = rank(Judged(w)) => w <= n

\* The scan has passed over what is no file, and what was found is in use.
FoundOK ==
  /\ pc = "stat" => \A p \in 1 .. k - 1 : ~isRegular(fs[p])
  /\ pc \in {"open", "parse", "evaluate"} => Located
  /\ pc \in {"parse", "evaluate"} => config = fs[path]

Panicked == Answer("ask", Because("panic"))

Right ==
  /\ final = AnswerOn(fs)
  /\ final.reason.kind # "input error" => Used \/ Unused

ReplyOK ==
  /\ pc = "write" => Right
  /\ pc = "recover" => final = Panicked
  /\ pc = "exit" => Right \/ final = Panicked

FaithInv == CauseInv /\ StageOK /\ SoFarOK /\ (changes = 0 => FoundOK /\ ReplyOK)

\* Only an event of one invocation may fail to parse.
LEMMA UnparsedIsAlone ==
  ASSUME event \in Events, NEW n \in DOMAIN invs, ~invs[n].parses
  PROVE  DOMAIN invs = {1}
<1>1. event.inputs \in Seq(Targets)  BY EventsAssumption
<1>2. CASE event.kind = "single"
  BY <1>2 DEF invs, ReadInvocations
<1>3. CASE event.kind # "single" /\ event.inputs = << >>
  BY <1>3 DEF invs, ReadInvocations
<1>4. CASE event.kind # "single" /\ event.inputs # << >>
  <2>1. invs = [m \in DOMAIN event.inputs |-> [target |-> event.inputs[m], parses |-> TRUE]]
    BY <1>4 DEF invs, ReadInvocations
  <2> QED  BY <2>1
<1> QED  BY <1>2, <1>3, <1>4

\* The strictest invocation is the one that is worst.
LEMMA StrictestIsWorst ==
  ASSUME event \in Events, NEW n, Worst(n)
  PROVE  Strictest(config) =
           Answer(Judged(n), IF Judged(n) = "allow" THEN NoReason
                             ELSE IF invs[n].parses THEN [kind |-> "rule", inv |-> n]
                             ELSE Because("parse error"))
<1> DEFINE worst == CHOOSE m \in DOMAIN invs : \A j \in DOMAIN invs :
                      /\ rank(Judged(j)) <= rank(Judged(m))
                      /\ rank(Judged(j)) = rank(Judged(m)) => m <= j
<1>1. \A m : rank(Judged(m)) \in Int  BY DEF rank
<1>2. worst \in DOMAIN invs /\ Worst(worst)
  <2>1. worst = CHOOSE m \in DOMAIN invs : Worst(m)  BY DEF Worst
  <2> QED  BY <2>1 DEF Worst
<1>3. worst = n
  <2>1. n \in Int /\ worst \in Int  BY <1>2, InvsTyped DEF Worst
  <2> HIDE DEF worst
  <2>2. rank(Judged(worst)) = rank(Judged(n))  BY <1>1, <1>2 DEF Worst
  <2>3. n <= worst /\ worst <= n  BY <1>2, <2>2 DEF Worst
  <2> QED  BY <2>1, <2>3
<1>4. Strictest(config) =
        Answer(Judged(worst), IF Judged(worst) = "allow" THEN NoReason
                              ELSE IF invs[worst].parses THEN [kind |-> "rule", inv |-> worst]
                              ELSE Because("parse error"))
  BY DEF Strictest, Judged
<1> QED  BY <1>3, <1>4

--------------------------------------------------------------------------------
(* The answer to give, case by case. *)

LEMMA AnswerWithoutConfig ==
  /\ flags = "bad" => AnswerOn(fs) = Answer("ask", Because("flag error"))
  /\ flags # "bad" /\ event.kind = "bad" => AnswerOn(fs) = Answer("ask", Because("input error"))
  /\ NothingThere /\ event.kind # "bad" => AnswerOn(fs) = Answer("allow", NoReason)
<1>1. flags = "bad" => AnswerOn(fs) = Answer("ask", Because("flag error"))  BY DEF AnswerOn
<1>2. flags # "bad" /\ event.kind = "bad" => AnswerOn(fs) = Answer("ask", Because("input error"))
  BY DEF AnswerOn
<1>3. ASSUME NothingThere, event.kind # "bad" PROVE AnswerOn(fs) = Answer("allow", NoReason)
  <2>1. flags = "none" /\ {p \in 1 .. NumCandidates : isRegular(fs[p])} = {}
    BY <1>3 DEF NothingThere
  <2> QED  BY <1>3, <2>1 DEF AnswerOn
<1> QED  BY <1>1, <1>2, <1>3

LEMMA AnswerWhenLocated ==
  ASSUME Located, flags \in {"none", "config"}, event.kind # "bad"
  PROVE  AnswerOn(fs) = IF fs[path] \in Configs THEN Strictest(fs[path])
                        ELSE IF fs[path] = "absent" THEN Answer("allow", NoReason)
                        ELSE Answer("ask", Because("config error"))
<1> DEFINE files == {p \in 1 .. NumCandidates : isRegular(fs[p])}
           first == CHOOSE p \in files : \A q \in files : p <= q
           used == IF flags = "config" THEN Explicit ELSE first
<1>1. flags = "none" => first = path
  <2> SUFFICES ASSUME flags = "none" PROVE first = path  OBVIOUS
  <2>1. path \in files /\ \A q \in files : path <= q
    <3>1. path \in 1 .. NumCandidates /\ \A p \in 1 .. path - 1 : ~isRegular(fs[p])
      BY DEF Located
    <3>2. \A q \in 1 .. NumCandidates : path <= q \/ q \in 1 .. path - 1
      BY <3>1, CandidatesAssumption
    <3> QED  BY <3>1, <3>2 DEF Located
  <2>2. files \subseteq Int  OBVIOUS
  <2> HIDE DEF files
  <2>3. first \in files /\ \A q \in files : first <= q  BY <2>1
  <2>4. first <= path /\ path <= first /\ first \in Int /\ path \in Int
    BY <2>1, <2>2, <2>3
  <2> HIDE DEF first
  <2> QED  BY <2>4
<1>2. used = path  BY <1>1 DEF Located
<1>3. flags = "none" => files # {}
  <2>1. flags = "none" => path \in files  BY DEF Located
  <2> QED  BY <2>1
<1>4. AnswerOn(fs) = IF fs[used] \in Configs THEN Strictest(fs[used])
                     ELSE IF fs[used] = "absent" THEN Answer("allow", NoReason)
                     ELSE Answer("ask", Because("config error"))
  <2>1. flags # "bad" /\ ~(flags = "none" /\ files = {})  BY <1>3
  <2> QED  BY <2>1 DEF AnswerOn
<1> HIDE DEF used
<1> QED  BY <1>2, <1>4

\* Everything the properties of an answer depend on.
LEMMA AnswerKept ==
  ASSUME UNCHANGED world, UNCHANGED <<path, config>>
  PROVE  /\ AnswerOn(fs)' = AnswerOn(fs) /\ Used' = Used /\ Unused' = Unused
         /\ Located' = Located /\ invs' = invs /\ \A n : Judged(n)' = Judged(n)
<1>1. AnswerOn(fs)' = AnswerOn(fs)  BY DEF AnswerOn, Strictest, invs, world
<1>2. Located' = Located  BY DEF Located, world
<1>3. NothingThere' = NothingThere  BY DEF NothingThere, world
<1> QED  BY <1>1, <1>2, <1>3 DEF Used, Unused, Judged, invs, world

--------------------------------------------------------------------------------
LEMMA FaithInit == Init => FaithInv
<1> SUFFICES ASSUME Init PROVE FaithInv  OBVIOUS
<1>1. CauseInv  BY CauseInvInit
<1>2. /\ pc = "flags" /\ flags \in {"bad", "none", "config"} /\ k = 1
      /\ final = Answer("allow", NoReason)
  BY DEF Init
<1> QED  BY <1>1, <1>2 DEF FaithInv, StageOK, SoFarOK, FoundOK, ReplyOK

\* A step that leads to the right answer.
LEMMA AnswersRight ==
  ASSUME FaithInv, CauseInv', pc # "exit", UNCHANGED world, UNCHANGED <<path, config>>,
         pc' = "write",
         changes = 0 => final' = AnswerOn(fs) /\ (final'.reason.kind # "input error" => Used \/ Unused)
  PROVE  FaithInv'
<1>1. changes' = changes /\ flags' = flags  BY DEF world
<1>2. changes = 0 => Right'  BY AnswerKept DEF Right
<1> QED  BY <1>1, <1>2 DEF FaithInv, StageOK, SoFarOK, FoundOK, ReplyOK

LEMMA ParseFlagsFaith == FaithInv /\ ParseFlags => FaithInv'
<1> SUFFICES ASSUME FaithInv, ParseFlags PROVE FaithInv'  OBVIOUS
<1>1. CauseInv'  BY ParseFlagsCause DEF FaithInv
<1>2. config = NoConfig /\ UNCHANGED world /\ UNCHANGED <<path, config>> /\ pc = "flags"
  BY DEF FaithInv, CauseInv, SearchOK, ParseFlags
<1>3. CASE flags = "bad"
  <2>1. pc' = "write" /\ final' = Answer("ask", Because("flag error"))
    BY <1>3 DEF ParseFlags, Reply
  <2>2. final' = AnswerOn(fs)  BY <1>3, <2>1, AnswerWithoutConfig
  <2>3. Unused  BY <1>2, <1>3 DEF Unused
  <2> QED  BY <1>1, <1>2, <2>1, <2>2, <2>3, AnswersRight
<1>4. CASE flags # "bad"
  BY <1>1, <1>4 DEF ParseFlags, FaithInv, StageOK, SoFarOK, FoundOK, ReplyOK, world
<1> QED  BY <1>3, <1>4

LEMMA ReadFaith == FaithInv /\ Read => FaithInv'
<1> SUFFICES ASSUME FaithInv, Read PROVE FaithInv'  OBVIOUS
<1>1. CauseInv'  BY ReadCause DEF FaithInv
<1>2. pc = "read" /\ UNCHANGED world /\ config' = config /\ flags \in {"none", "config"}
  BY DEF FaithInv, StageOK, Read
<1>3. CASE event.kind = "bad"
  <2>1. pc' = "write" /\ final' = Answer("ask", Because("input error")) /\ path' = path
    BY <1>3 DEF Read, Reply
  <2>2. final' = AnswerOn(fs)  BY <1>2, <1>3, <2>1, AnswerWithoutConfig
  <2>3. final'.reason.kind = "input error"  BY <2>1 DEF Answer, Because
  <2> QED  BY <1>1, <1>2, <2>1, <2>2, <2>3, AnswersRight
<1>4. CASE event.kind # "bad" /\ flags = "config"
  <2>1. pc' = "open" /\ path' = Explicit /\ final' = final  BY <1>4 DEF Read
  <2>2. Located'  BY <1>2, <1>4, <2>1 DEF Located, world, Explicit
  <2> QED  BY <1>1, <1>2, <1>4, <2>1, <2>2 DEF FaithInv, StageOK, SoFarOK, FoundOK, ReplyOK, world
<1>5. CASE event.kind # "bad" /\ flags = "none"
  <2>1. pc' = "stat" /\ k' = k /\ fs' = fs /\ final' = final  BY <1>5 DEF Read, world
  <2>2. changes = 0 => \A p \in 1 .. k - 1 : ~isRegular(fs[p])
    <3>1. k = 1  BY <1>2 DEF FaithInv, StageOK
    <3> QED  BY <3>1
  <2> QED  BY <1>1, <1>2, <1>5, <2>1, <2>2 DEF FaithInv, StageOK, SoFarOK, FoundOK, ReplyOK, world
<1> QED  BY <1>2, <1>3, <1>4, <1>5

\* The scan is the search of Located, one candidate at a time.
LEMMA StatFaith == FaithInv /\ Stat => FaithInv'
<1> SUFFICES ASSUME FaithInv, Stat PROVE FaithInv'  OBVIOUS
<1>1. CauseInv'  BY StatCause DEF FaithInv
<1>2. /\ pc = "stat" /\ flags = "none" /\ event.kind # "bad" /\ k \in 1 .. NumCandidates
      /\ UNCHANGED <<flags, event, fs, changes, final>>
  BY CandidatesAssumption DEF FaithInv, StageOK, CauseInv, TypeOK, Stat, world
<1>3. changes = 0 => \A p \in 1 .. k - 1 : ~isRegular(fs[p])  BY <1>2 DEF FaithInv, FoundOK
<1>4. CASE isRegular(fs[k])
  <2>1. pc' = "open" /\ path' = k  BY <1>4 DEF Stat
  <2>2. changes = 0 => Located'  BY <1>2, <1>3, <1>4, <2>1 DEF Located
  <2> QED  BY <1>1, <1>2, <2>1, <2>2 DEF FaithInv, StageOK, SoFarOK, FoundOK, ReplyOK
<1>5. CASE ~isRegular(fs[k])
  <2>1. pc' = "stat" /\ k' = k + 1  BY <1>2, <1>5 DEF Stat
  <2>2. changes = 0 => \A p \in 1 .. k' - 1 : ~isRegular(fs'[p])
    <3>1. \A p \in 1 .. k' - 1 : p = k \/ p \in 1 .. k - 1  BY <1>2, <2>1, CandidatesAssumption
    <3> QED  BY <1>2, <1>3, <1>5, <3>1
  <2> QED  BY <1>1, <1>2, <2>1, <2>2 DEF FaithInv, StageOK, SoFarOK, FoundOK, ReplyOK
<1> QED  BY <1>4, <1>5

LEMMA NotFoundFaith == FaithInv /\ NotFound => FaithInv'
<1> SUFFICES ASSUME FaithInv, NotFound PROVE FaithInv'  OBVIOUS
<1>1. CauseInv'  BY NotFoundCause DEF FaithInv
<1>2. /\ pc = "stat" /\ pc' = "write" /\ final' = Answer("allow", NoReason) /\ UNCHANGED world
      /\ UNCHANGED <<path, config>> /\ flags = "none" /\ event.kind # "bad" /\ config = NoConfig
  BY DEF FaithInv, StageOK, CauseInv, SearchOK, NotFound, Reply
<1>3. k - 1 = NumCandidates
  BY CandidatesAssumption DEF FaithInv, CauseInv, TypeOK, NotFound
<1>4. changes = 0 => NothingThere  BY <1>2, <1>3 DEF FaithInv, FoundOK, NothingThere
<1>5. changes = 0 => final' = AnswerOn(fs) /\ Unused
  BY <1>2, <1>4, AnswerWithoutConfig DEF Unused
<1> QED  BY <1>1, <1>2, <1>5, AnswersRight

LEMMA LoadFaith == FaithInv /\ Load => FaithInv'
<1> SUFFICES ASSUME FaithInv, Load PROVE FaithInv'  OBVIOUS
<1>1. CauseInv'  BY LoadCause DEF FaithInv
<1>2. /\ pc = "open" /\ UNCHANGED world /\ path' = path /\ i' = i /\ i = 1 /\ event \in Events
      /\ flags \in {"none", "config"} /\ event.kind # "bad" /\ config = NoConfig
  BY DEF FaithInv, StageOK, CauseInv, SearchOK, Load
<1>3. changes = 0 => Located  BY <1>2 DEF FaithInv, FoundOK
<1>4. Configs \cap {"absent", "unreachable", "dir", "broken"} = {}  BY NamesAssumption
<1>5. CASE fs[path] \notin Configs
  <2>1. /\ pc' = "write" /\ config' = config
        /\ final' = IF fs[path] = "absent" THEN Answer("allow", NoReason)
                    ELSE Answer("ask", Because("config error"))
    BY <1>5 DEF Load, Reply
  <2>2. changes = 0 => final' = AnswerOn(fs) /\ Unused
    <3>1. SUFFICES ASSUME changes = 0 PROVE final' = AnswerOn(fs) /\ Unused  OBVIOUS
    <3>2. Located  BY <1>3, <3>1
    <3> QED  BY <1>2, <1>5, <2>1, <3>2, AnswerWhenLocated DEF Unused
  <2> QED  BY <1>1, <1>2, <2>1, <2>2, AnswersRight
<1>6. CASE fs[path] \in Configs
  <2>1. pc' = "parse" /\ config' = fs[path] /\ final' = final  BY <1>4, <1>6 DEF Load
  <2>2. StageOK'  BY <1>2, <2>1 DEF FaithInv, StageOK, world
  <2>3. Located' = Located  BY <1>2 DEF Located, world
  <2>4. changes' = 0 => FoundOK' /\ ReplyOK'
    BY <1>2, <1>3, <2>1, <2>3 DEF FoundOK, ReplyOK, world
  <2>5. SoFarOK'
    <3>1. final = Answer("allow", NoReason)  BY <1>2 DEF FaithInv, StageOK
    <3>2. invs' = invs  BY <1>2 DEF invs, world
    <3>3. \A n \in DOMAIN invs : ~(n < 1)  BY <1>2, InvsTyped
    <3> QED  BY <1>2, <2>1, <3>1, <3>2, <3>3 DEF SoFarOK
  <2> QED  BY <1>1, <2>2, <2>4, <2>5 DEF FaithInv
<1> QED  BY <1>5, <1>6

\* The config in use is the one at the path located, and it is one.
LEMMA InUse ==
  ASSUME FaithInv, pc \in {"parse", "evaluate"}, changes = 0
  PROVE  Used /\ AnswerOn(fs) = Strictest(config)
<1>1. Located /\ config = fs[path] /\ config \in Configs /\ flags \in {"none", "config"}
      /\ event.kind # "bad"
  BY DEF FaithInv, FoundOK, StageOK, CauseInv, LoopOK
<1>2. Used  BY <1>1 DEF Used
<1> QED  BY <1>1, <1>2, AnswerWhenLocated

\* An invocation that does not parse is the only one, so nothing stricter is lost.
LEMMA ParseFaith == FaithInv /\ Parse => FaithInv'
<1> SUFFICES ASSUME FaithInv, Parse PROVE FaithInv'  OBVIOUS
<1>1. CauseInv'  BY ParseCause DEF FaithInv
<1>2. /\ pc = "parse" /\ UNCHANGED world /\ UNCHANGED <<path, config, i>> /\ event \in Events
  BY DEF FaithInv, CauseInv, Parse
<1>3. CASE ~invs[i].parses
  <2>1. pc' = "write" /\ final' = Answer("ask", Because("parse error"))
    BY <1>3 DEF Parse, Reply
  <2>2. i \in DOMAIN invs
    <3>1. i \in Nat \ {0}  BY DEF FaithInv, CauseInv, TypeOK
    <3>2. i <= Len(invs)  BY DEF Parse
    <3> QED  BY <1>2, <3>1, <3>2, InvsTyped
  <2>3. DOMAIN invs = {1} /\ i = 1  BY <1>2, <1>3, <2>2, UnparsedIsAlone
  <2>4. Worst(1) /\ Judged(1) = "ask"  BY <1>3, <2>3 DEF Worst, Judged, rank
  <2>5. Strictest(config) = final'  BY <1>2, <1>3, <2>1, <2>3, <2>4, StrictestIsWorst
  <2>6. changes = 0 => final' = AnswerOn(fs) /\ Used  BY <1>2, <2>5, InUse
  <2> QED  BY <1>1, <1>2, <2>1, <2>6, AnswersRight
<1>4. CASE invs[i].parses
  <2>1. pc' = "evaluate" /\ final' = final  BY <1>4 DEF Parse
  <2>2. StageOK'  BY <1>2, <2>1 DEF FaithInv, StageOK, world
  <2>3. invs' = invs /\ Located' = Located /\ \A n : Judged(n)' = Judged(n)
    BY <1>2, AnswerKept
  <2>4. SoFarOK'  BY <1>2, <2>1, <2>3 DEF FaithInv, SoFarOK
  <2>5. changes' = 0 => FoundOK' /\ ReplyOK'
    BY <1>2, <2>1, <2>3 DEF FaithInv, FoundOK, ReplyOK, world
  <2> QED  BY <1>1, <2>2, <2>4, <2>5 DEF FaithInv
<1> QED  BY <1>3, <1>4

\* The accumulator stays the first of the strictest.
LEMMA EvaluateFaith == FaithInv /\ Evaluate => FaithInv'
<1> SUFFICES ASSUME FaithInv, Evaluate PROVE FaithInv'  OBVIOUS
<1>1. CauseInv'  BY EvaluateCause DEF FaithInv
<1>2. /\ pc = "evaluate" /\ pc' = "parse" /\ i' = i + 1 /\ UNCHANGED world
      /\ UNCHANGED <<path, config>> /\ event \in Events
      /\ i \in DOMAIN invs /\ invs[i].parses /\ config \in Configs
  BY DEF FaithInv, CauseInv, LoopOK, Evaluate
<1>3. Judged(i) = Verdicts[config][invs[i].target]  BY <1>2 DEF Judged
<1>4. DOMAIN invs \subseteq Nat  BY <1>2, InvsTyped
<1>5. \A n \in DOMAIN invs : n < i + 1 => n < i \/ n = i  BY <1>2, <1>4
<1>6. \A n \in DOMAIN invs : n < i => invs[n].parses  BY <1>2 DEF FaithInv, SoFarOK
<1>7. \A d : rank(d) \in 0 .. 3  BY DEF rank
<1>8. \A n \in DOMAIN invs : Judged(n) \in Decision
  <2>1. SUFFICES ASSUME NEW n \in DOMAIN invs PROVE Judged(n) \in Decision  OBVIOUS
  <2>2. invs[n].target \in Targets  BY <1>2, InvsTyped
  <2> QED  BY <1>2, <2>2, VerdictsAssumption DEF Judged, Decision
<1>9. \/ stricter(Judged(i), final.dec) /\ final' = Answer(Judged(i), [kind |-> "rule", inv |-> i])
      \/ ~stricter(Judged(i), final.dec) /\ final' = final
  BY <1>3 DEF Evaluate
<1>10. \/ final = Answer("allow", NoReason) /\ \A n \in DOMAIN invs : n < i => Judged(n) = "allow"
       \/ \E w \in DOMAIN invs :
            /\ w < i /\ Judged(w) # "allow"
            /\ final = Answer(Judged(w), [kind |-> "rule", inv |-> w])
            /\ \A n \in DOMAIN invs : n < i =>
                 /\ rank(Judged(n)) <= rank(Judged(w))
                 /\ rank(Judged(n)) = rank(Judged(w)) => w <= n
  BY <1>2 DEF FaithInv, SoFarOK
<1>11. \A n \in DOMAIN invs : n < i => rank(Judged(n)) <= rank(final.dec)
  BY <1>7, <1>10 DEF Answer
<1>12. \/ final' = Answer("allow", NoReason) /\ \A n \in DOMAIN invs : n < i + 1 => Judged(n) = "allow"
       \/ \E w \in DOMAIN invs :
            /\ w < i + 1 /\ Judged(w) # "allow"
            /\ final' = Answer(Judged(w), [kind |-> "rule", inv |-> w])
            /\ \A n \in DOMAIN invs : n < i + 1 =>
                 /\ rank(Judged(n)) <= rank(Judged(w))
                 /\ rank(Judged(n)) = rank(Judged(w)) => w <= n
  <2>1. CASE stricter(Judged(i), final.dec)
    <3>1. final' = Answer(Judged(i), [kind |-> "rule", inv |-> i])  BY <1>9, <2>1
    <3>2. rank(final.dec) < rank(Judged(i))  BY <1>7, <2>1 DEF stricter
    <3>3. Judged(i) # "allow"
      <4>1. final.dec \in Decision  BY DEF FaithInv, CauseInv, TypeOK
      <4> QED  BY <3>2, <4>1 DEF rank, Decision
    <3>4. \A n \in DOMAIN invs : n < i => rank(Judged(n)) < rank(Judged(i))
      BY <1>7, <1>11, <3>2
    <3>5. \A n \in DOMAIN invs : n < i + 1 =>
            /\ rank(Judged(n)) <= rank(Judged(i))
            /\ rank(Judged(n)) = rank(Judged(i)) => i <= n
      BY <1>2, <1>4, <1>5, <1>7, <3>4
    <3>6. i < i + 1  BY <1>2, <1>4
    <3> QED  BY <1>2, <3>1, <3>3, <3>5, <3>6
  <2>2. CASE ~stricter(Judged(i), final.dec)
    <3>1. final' = final  BY <1>9, <2>2
    <3>2. rank(Judged(i)) <= rank(final.dec)  BY <1>7, <2>2 DEF stricter
    <3>3. CASE final = Answer("allow", NoReason) /\ \A n \in DOMAIN invs : n < i => Judged(n) = "allow"
      <4>1. Judged(i) = "allow"  BY <1>2, <1>8, <3>2, <3>3 DEF rank, Answer, Decision
      <4> QED  BY <1>5, <3>1, <3>3, <4>1
    <3>4. ASSUME NEW w \in DOMAIN invs, w < i, Judged(w) # "allow",
                 final = Answer(Judged(w), [kind |-> "rule", inv |-> w]),
                 \A n \in DOMAIN invs : n < i =>
                   /\ rank(Judged(n)) <= rank(Judged(w))
                   /\ rank(Judged(n)) = rank(Judged(w)) => w <= n
          PROVE  \E v \in DOMAIN invs :
                   /\ v < i + 1 /\ Judged(v) # "allow"
                   /\ final' = Answer(Judged(v), [kind |-> "rule", inv |-> v])
                   /\ \A n \in DOMAIN invs : n < i + 1 =>
                        /\ rank(Judged(n)) <= rank(Judged(v))
                        /\ rank(Judged(n)) = rank(Judged(v)) => v <= n
      <4>1. final.dec = Judged(w)  BY <3>4 DEF Answer
      <4>2. w < i + 1 /\ w <= i  BY <1>2, <1>4, <3>4
      <4>3. \A n \in DOMAIN invs : n < i + 1 =>
              /\ rank(Judged(n)) <= rank(Judged(w))
              /\ rank(Judged(n)) = rank(Judged(w)) => w <= n
        BY <1>5, <3>2, <3>4, <4>1, <4>2
      <4> QED  BY <3>1, <3>4, <4>2, <4>3
    <3> QED  BY <1>10, <3>3, <3>4
  <2> QED  BY <2>1, <2>2
<1>13. invs' = invs /\ Located' = Located /\ \A n : Judged(n)' = Judged(n)
  BY <1>2, AnswerKept
<1>14. SoFarOK'
  <2>1. \A n \in DOMAIN invs : n < i + 1 => invs[n].parses  BY <1>2, <1>5, <1>6
  <2> QED  BY <1>2, <1>12, <1>13, <2>1 DEF SoFarOK
<1>15. StageOK'  BY <1>2 DEF FaithInv, StageOK, world
<1>16. changes' = 0 => FoundOK' /\ ReplyOK'
  BY <1>2, <1>13 DEF FaithInv, FoundOK, ReplyOK, world
<1> QED  BY <1>1, <1>14, <1>15, <1>16 DEF FaithInv

\* The loop is over: the first of the strictest is the config's answer.
LEMMA EvaluatedFaith == FaithInv /\ Evaluated => FaithInv'
<1> SUFFICES ASSUME FaithInv, Evaluated PROVE FaithInv'  OBVIOUS
<1>1. CauseInv'  BY EvaluatedCause DEF FaithInv
<1>2. /\ pc = "parse" /\ pc' = "write" /\ UNCHANGED world /\ UNCHANGED <<path, config, final>>
      /\ event \in Events
  BY DEF FaithInv, CauseInv, Evaluated
<1>3. \A n \in DOMAIN invs : n < i
  BY InvsTyped DEF FaithInv, CauseInv, TypeOK, Evaluated
<1>4. \A n \in DOMAIN invs : invs[n].parses  BY <1>2, <1>3 DEF FaithInv, SoFarOK
<1>5. final = Strictest(config)
  <2>1. CASE final = Answer("allow", NoReason) /\ \A n \in DOMAIN invs : n < i => Judged(n) = "allow"
    <3>1. 1 \in DOMAIN invs /\ \A n \in DOMAIN invs : 1 <= n  BY <1>2, InvsTyped
    <3>2. \A n \in DOMAIN invs : Judged(n) = "allow"  BY <1>3, <2>1
    <3>3. Worst(1)  BY <3>1, <3>2 DEF Worst, rank
    <3> QED  BY <1>2, <2>1, <3>1, <3>2, <3>3, StrictestIsWorst
  <2>2. ASSUME NEW w \in DOMAIN invs, Judged(w) # "allow",
               final = Answer(Judged(w), [kind |-> "rule", inv |-> w]),
               \A n \in DOMAIN invs : n < i =>
                 /\ rank(Judged(n)) <= rank(Judged(w))
                 /\ rank(Judged(n)) = rank(Judged(w)) => w <= n
        PROVE  final = Strictest(config)
    <3>1. Worst(w)  BY <1>3, <2>2 DEF Worst
    <3> QED  BY <1>2, <1>4, <2>2, <3>1, StrictestIsWorst
  <2> QED  BY <1>2, <2>1, <2>2 DEF FaithInv, SoFarOK
<1>6. changes = 0 => final' = AnswerOn(fs) /\ Used  BY <1>2, <1>5, InUse
<1> QED  BY <1>1, <1>2, <1>6, AnswersRight

LEMMA PanicFaith == FaithInv /\ Panic => FaithInv'
<1> SUFFICES ASSUME FaithInv, Panic PROVE FaithInv'  OBVIOUS
<1>1. CauseInv'  BY PanicCause DEF FaithInv
<1>2. pc' = "recover" /\ final' = Panicked /\ flags' = flags  BY DEF Panic, Panicked, world
<1> QED  BY <1>1, <1>2 DEF FaithInv, StageOK, SoFarOK, FoundOK, ReplyOK

\* The two steps that write leave the answer as it is.
LEMMA WritingFaith ==
  ASSUME FaithInv, pc \in {"write", "recover"}, pc' = "exit", UNCHANGED world,
         UNCHANGED <<k, path, config, i, final>>,
         \/ out' = Append(out, final) /\ UNCHANGED lost
         \/ lost' = TRUE /\ UNCHANGED out
  PROVE  FaithInv'
<1>1. CauseInv'  BY WritingCause DEF FaithInv
<1>2. Right' = Right  BY AnswerKept DEF Right
<1>3. Panicked' = Panicked  BY DEF Panicked
<1>4. changes' = changes /\ flags' = flags  BY DEF world
<1> QED  BY <1>1, <1>2, <1>3, <1>4 DEF FaithInv, StageOK, SoFarOK, FoundOK, ReplyOK

\* Once a file has been changed, only what does not depend on the files remains.
LEMMA ChangeFaith ==
  ASSUME FaithInv, Change, pc \in {"flags", "stat", "open"}
  PROVE  FaithInv'
<1>1. CauseInv'  BY ChangeCause DEF FaithInv
<1>2. UNCHANGED <<pc, flags, event, k, final>>  BY DEF Change
<1>3. changes' # 0  BY DEF FaithInv, CauseInv, TypeOK, Change
<1> QED  BY <1>1, <1>2, <1>3 DEF FaithInv, StageOK, SoFarOK

LEMMA FaithStep == FaithInv /\ [Next]_vars => FaithInv'
<1> SUFFICES ASSUME FaithInv, [Next]_vars PROVE FaithInv'  OBVIOUS
<1>1. CASE Write    BY <1>1, WritingFaith DEF Write
<1>2. CASE Recover  BY <1>2, WritingFaith DEF Recover
<1>3. CASE UNCHANGED vars
  <2>1. CauseInv'  BY <1>3, CauseInvStep DEF FaithInv
  <2>2. UNCHANGED world /\ UNCHANGED <<pc, k, path, config, i, final>>  BY <1>3 DEF vars, world
  <2>3. Located' = Located /\ invs' = invs /\ (\A n : Judged(n)' = Judged(n)) /\ Right' = Right
    BY <2>2, AnswerKept DEF Right
  <2>4. StageOK' /\ SoFarOK'  BY <2>2, <2>3 DEF FaithInv, StageOK, SoFarOK, world
  <2>5. changes' = 0 => FoundOK' /\ ReplyOK'
    BY <2>2, <2>3 DEF FaithInv, FoundOK, ReplyOK, Panicked, world
  <2> QED  BY <2>1, <2>4, <2>5 DEF FaithInv
<1> QED
  BY <1>1, <1>2, <1>3, ParseFlagsFaith, ReadFaith, StatFaith, NotFoundFaith, LoadFaith,
     ParseFaith, EvaluateFaith, EvaluatedFaith, PanicFaith, ChangeFaith
  DEF Next, Step, ChangeFile

LEMMA FaithAnswers == FaithInv => AnswersItsConfig
<1> SUFFICES ASSUME FaithInv, changes = 0, out # << >>
             PROVE  out[1] \in {AnswerOn(fs), Answer("ask", Because("panic"))}
  BY DEF AnswersItsConfig
<1>1. pc = "exit" /\ out = <<final>>  BY DEF FaithInv, CauseInv, AnswerOK
<1>2. final = AnswerOn(fs) \/ final = Panicked  BY <1>1 DEF FaithInv, ReplyOK, Right
<1> QED  BY <1>1, <1>2 DEF Panicked

\* While nobody touches the files, the hook answers what its config says: the file
\* --config names or the first candidate that is one, the strictest verdict over the
\* invocations and the first of them as strict, or the answer of the error met on the
\* way (run.go:65-143); only a panic answers otherwise.
THEOREM HookFollowsItsConfig == Spec => []AnswersItsConfig
<1> QED  BY FaithAnswers, FaithInit, FaithStep, PTL DEF Spec

--------------------------------------------------------------------------------
(* validate and then the hook: FaithInv is kept while validate runs, for the hook  *)
(* has not started then and only the files may change.                             *)

\* p is the path to use: --config's, or the first candidate that is a file.
LocatedAt(p) ==
  IF flags = "config" THEN p = Explicit
  ELSE /\ p \in 1 .. NumCandidates /\ isRegular(fs[p])
       /\ \A q \in 1 .. p - 1 : ~isRegular(fs[q])

PassedBefore(p) == p # Explicit => \A q \in 1 .. p - 1 : PassedOver(q)

\* Until validate is done the hook waits.
Waiting == vpc # "done" => pc = "flags" /\ code = -1

\* What the scan of validate has found, whatever happens to the files ...
ScanOK ==
  /\ vpc \in {"flags", "stat", "open", "done"}
  /\ vk \in 1 .. NumCandidates + 1 /\ (vpc = "flags" => vk = 1)
  /\ vpc = "stat" => flags = "none" /\ \A p \in 1 .. vk - 1 : PassedOver(p)
  /\ vpc = "open" => flags # "bad" /\ vpath \in Path /\ PassedBefore(vpath)
  /\ vpc = "done" => code \in {0, 1, 2}
  /\ code = 0 => vpath \in Path /\ vconfig \in past[vpath] \cap Configs /\ PassedBefore(vpath)

\* ... and while they stay as they are.
ScanTrue ==
  /\ vpc = "stat" => \A p \in 1 .. vk - 1 : ~isRegular(fs[p])
  /\ vpc = "open" => LocatedAt(vpath)
  /\ code = 0 => flags # "bad" /\ LocatedAt(vpath) /\ vconfig = fs[vpath] /\ vconfig \in Configs
  /\ code = 1 => flags # "bad" /\ (NothingThere \/ (LocatedAt(vpath) /\ fs[vpath] \notin Configs))
  /\ code = 2 => flags = "bad"

ValidateInv == FaithInv /\ Waiting /\ ScanOK /\ (changes = 0 => ScanTrue)

--------------------------------------------------------------------------------
\* There is at most one path to use, and none if nothing is there.
LEMMA OnePath ==
  ASSUME NEW p, LocatedAt(p), LocatedAt(path)
  PROVE  p = path /\ ~NothingThere
<1>1. CASE flags = "config"  BY <1>1 DEF LocatedAt, NothingThere
<1>2. CASE flags # "config"
  <2>1. p \in 1 .. NumCandidates /\ path \in 1 .. NumCandidates
        /\ isRegular(fs[p]) /\ isRegular(fs[path])
    BY <1>2 DEF LocatedAt
  <2>2. ~(p < path) /\ ~(path < p)
    BY <1>2, <2>1, CandidatesAssumption DEF LocatedAt
  <2> QED  BY <2>1, <2>2, CandidatesAssumption DEF NothingThere
<1> QED  BY <1>1, <1>2

LEMMA LocatedHere == Located = LocatedAt(path)
BY DEF Located, LocatedAt

\* The invariant says enough.
LEMMA ValidateExplains == ValidateInv => ValidateForetells
<1> SUFFICES ASSUME ValidateInv, pc \in {"write", "exit"}, changes = 0,
                    final.reason.kind \notin {"input error", "panic"}
             PROVE  /\ code = 0 => config = vconfig /\ config # NoConfig
                    /\ code # 0 => config = NoConfig
                    /\ code = 2 => final.dec = "ask"
  BY DEF ValidateForetells
<1>1. code \in {0, 1, 2} /\ ScanTrue  BY DEF ValidateInv, Waiting, ScanOK
<1>2. final # Panicked
  <2>1. Panicked.reason.kind = "panic"  BY DEF Panicked, Answer, Because
  <2> QED  BY <2>1
<1>3. final = AnswerOn(fs) /\ (Used \/ Unused)
  BY <1>2 DEF ValidateInv, FaithInv, ReplyOK, Right
<1>4. NoConfig \notin Configs  BY NamesAssumption
<1>5. code = 2 => final.dec = "ask"
  <2>1. SUFFICES ASSUME code = 2 PROVE final.dec = "ask"  OBVIOUS
  <2>2. final = Answer("ask", Because("flag error"))
    BY <1>1, <1>3, <2>1, AnswerWithoutConfig DEF ScanTrue
  <2> QED  BY <2>2 DEF Answer
<1>6. CASE Used
  <2>1. flags # "bad" /\ LocatedAt(path) /\ config = fs[path] /\ config \in Configs
    BY <1>6, LocatedHere DEF Used
  <2>2. LocatedAt(vpath) => vpath = path  BY <2>1, OnePath
  <2>3. ~NothingThere  BY <2>1, OnePath
  <2>4. code = 0  BY <1>1, <2>1, <2>2, <2>3 DEF ScanTrue
  <2> QED  BY <1>1, <1>4, <1>5, <2>1, <2>2, <2>4 DEF ScanTrue
<1>7. CASE Unused
  <2>1. config = NoConfig /\ (flags = "bad" \/ NothingThere \/ (LocatedAt(path) /\ fs[path] \notin Configs))
    BY <1>7, LocatedHere DEF Unused
  <2>2. code # 0
    <3>1. SUFFICES ASSUME code = 0 PROVE FALSE  OBVIOUS
    <3>2. flags # "bad" /\ LocatedAt(vpath) /\ fs[vpath] \in Configs  BY <1>1, <3>1 DEF ScanTrue
    <3>3. ~NothingThere
      <4>1. NothingThere => flags # "config" /\ vpath \in 1 .. NumCandidates /\ isRegular(fs[vpath])
        BY <3>2 DEF LocatedAt, NothingThere
      <4> QED  BY <4>1 DEF NothingThere
    <3>4. LocatedAt(path) => vpath = path  BY <3>2, OnePath
    <3> QED  BY <2>1, <3>2, <3>3, <3>4
  <2> QED  BY <1>5, <2>1, <2>2
<1> QED  BY <1>3, <1>6, <1>7

LEMMA OkExplains == ValidateInv => OkIsExplained
BY DEF ValidateInv, ScanOK, OkIsExplained, PassedBefore, PassedOver

--------------------------------------------------------------------------------
LEMMA ValidateInvInit == ValidateInit => ValidateInv
<1> SUFFICES ASSUME ValidateInit PROVE ValidateInv  OBVIOUS
<1>1. FaithInv  BY FaithInit DEF ValidateInit
<1>2. /\ vpc = "flags" /\ vk = 1 /\ code = -1 /\ pc = "flags"
      /\ 1 \in 1 .. NumCandidates + 1
  BY CandidatesAssumption DEF ValidateInit, Init
<1> QED  BY <1>1, <1>2 DEF ValidateInv, Waiting, ScanOK, ScanTrue

\* validate leaves the hook and the files alone.
LEMMA HookKept ==
  ASSUME ValidateInv, UNCHANGED vars
  PROVE  /\ FaithInv' /\ (NothingThere' = NothingThere) /\ UNCHANGED <<pc, flags, fs, changes, past>>
         /\ \A p : /\ PassedOver(p)' = PassedOver(p) /\ PassedBefore(p)' = PassedBefore(p)
                   /\ LocatedAt(p)' = LocatedAt(p)
<1>1. UNCHANGED <<pc, flags, fs, changes, past>>  BY DEF vars
<1>2. FaithInv'  BY FaithStep DEF ValidateInv
<1> QED  BY <1>1, <1>2 DEF NothingThere, PassedOver, PassedBefore, LocatedAt

LEMMA ValidateFlagsStep == ValidateInv /\ ValidateFlags => ValidateInv'
<1> SUFFICES ASSUME ValidateInv, ValidateFlags PROVE ValidateInv'  OBVIOUS
<1>1. /\ vpc = "flags" /\ UNCHANGED vars /\ vk' = vk /\ vk = 1 /\ 1 \in 1 .. NumCandidates + 1
      /\ code = -1 /\ pc = "flags"
  BY CandidatesAssumption DEF ValidateInv, ScanOK, Waiting, ValidateFlags
<1>2. CASE flags = "bad"
  <2>1. vpc' = "done" /\ code' = 2  BY <1>2 DEF ValidateFlags, Done
  <2> QED  BY <1>1, <1>2, <2>1, HookKept DEF ValidateInv, Waiting, ScanOK, ScanTrue
<1>3. CASE flags = "none"
  <2>1. vpc' = "stat" /\ code' = code  BY <1>3 DEF ValidateFlags
  <2> QED  BY <1>1, <1>3, <2>1, HookKept DEF ValidateInv, Waiting, ScanOK, ScanTrue
<1>4. CASE flags = "config"
  <2>1. vpc' = "open" /\ vpath' = Explicit /\ code' = code  BY <1>4 DEF ValidateFlags
  <2>2. Explicit \in Path  BY CandidatesAssumption DEF Path, Explicit
  <2>3. PassedBefore(Explicit) /\ LocatedAt(Explicit)  BY <1>4 DEF PassedBefore, LocatedAt
  <2>4. vpath' \in Path /\ PassedBefore(vpath)' /\ LocatedAt(vpath)' /\ flags' = "config"
    BY <1>1, <1>4, <2>1, <2>2, <2>3 DEF PassedBefore, LocatedAt, PassedOver, vars
  <2> QED  BY <1>1, <2>1, <2>4, HookKept DEF ValidateInv, Waiting, ScanOK, ScanTrue
<1> QED  BY <1>2, <1>3, <1>4 DEF ValidateFlags

LEMMA ValidateStatStep == ValidateInv /\ ValidateStat => ValidateInv'
<1> SUFFICES ASSUME ValidateInv, ValidateStat PROVE ValidateInv'  OBVIOUS
<1>1. /\ vpc = "stat" /\ flags = "none" /\ vk \in 1 .. NumCandidates /\ UNCHANGED vars
      /\ code' = code /\ vconfig' = vconfig /\ code = -1 /\ pc = "flags" /\ vk \in Path
      /\ vk # Explicit /\ \A p \in 1 .. vk - 1 : PassedOver(p)
  BY CandidatesAssumption DEF ValidateInv, ScanOK, Waiting, ValidateStat, Path, Explicit
<1>2. changes = 0 => \A p \in 1 .. vk - 1 : ~isRegular(fs[p])  BY <1>1 DEF ValidateInv, ScanTrue
<1>3. CASE isRegular(fs[vk])
  <2>1. vpc' = "open" /\ vpath' = vk /\ vk' = vk  BY <1>3 DEF ValidateStat
  <2>2. PassedBefore(vk) /\ (changes = 0 => LocatedAt(vk))
    BY <1>1, <1>2, <1>3 DEF PassedBefore, LocatedAt
  <2>3. PassedBefore(vpath)' /\ (changes = 0 => LocatedAt(vpath)')
    BY <1>1, <2>1, <2>2 DEF PassedBefore, LocatedAt, PassedOver, vars
  <2> QED  BY <1>1, <2>1, <2>3, HookKept DEF ValidateInv, Waiting, ScanOK, ScanTrue
<1>4. CASE ~isRegular(fs[vk])
  <2>1. vpc' = "stat" /\ vk' = vk + 1 /\ vk' \in 1 .. NumCandidates + 1 /\ vk' - 1 = vk
    BY <1>1, <1>4, CandidatesAssumption DEF ValidateStat
  <2>2. \A p \in 1 .. vk : p = vk \/ p \in 1 .. vk - 1  BY <1>1, CandidatesAssumption
  <2>3. fs[vk] \in past[vk]  BY <1>1 DEF ValidateInv, FaithInv, CauseInv, PastOK
  <2>4. PassedOver(vk)  BY <1>4, <2>3 DEF PassedOver
  <2>5. \A p \in 1 .. vk' - 1 : PassedOver(p)' /\ (changes = 0 => ~isRegular(fs'[p]))
    BY <1>1, <1>2, <1>4, <2>1, <2>2, <2>4, HookKept
  <2> QED  BY <1>1, <2>1, <2>5, HookKept DEF ValidateInv, Waiting, ScanOK, ScanTrue
<1> QED  BY <1>3, <1>4

LEMMA ValidateNotFoundStep == ValidateInv /\ ValidateNotFound => ValidateInv'
<1> SUFFICES ASSUME ValidateInv, ValidateNotFound PROVE ValidateInv'  OBVIOUS
<1>1. /\ vpc = "stat" /\ flags = "none" /\ vk - 1 = NumCandidates /\ UNCHANGED vars
      /\ UNCHANGED <<vk, vpath, vconfig>> /\ vpc' = "done" /\ code' = 1
  BY CandidatesAssumption DEF ValidateInv, ScanOK, ValidateNotFound, Done
<1>2. changes = 0 => NothingThere  BY <1>1 DEF ValidateInv, ScanTrue, NothingThere
<1> QED  BY <1>1, <1>2, HookKept DEF ValidateInv, Waiting, ScanOK, ScanTrue

LEMMA ValidateLoadStep == ValidateInv /\ ValidateLoad => ValidateInv'
<1> SUFFICES ASSUME ValidateInv, ValidateLoad PROVE ValidateInv'  OBVIOUS
<1>1. /\ vpc = "open" /\ flags # "bad" /\ vpath \in Path /\ PassedBefore(vpath) /\ UNCHANGED vars
      /\ UNCHANGED <<vk, vpath>> /\ vpc' = "done" /\ (changes = 0 => LocatedAt(vpath))
      /\ fs[vpath] \in past[vpath]
  BY DEF ValidateInv, ScanOK, ScanTrue, ValidateLoad, Done, FaithInv, CauseInv, PastOK
<1>2. \/ fs[vpath] \in Configs /\ code' = 0 /\ vconfig' = fs[vpath]
      \/ fs[vpath] \notin Configs /\ code' = 1
  BY DEF ValidateLoad, Done
<1>3. PassedBefore(vpath)' /\ (changes = 0 => LocatedAt(vpath)')
  BY <1>1 DEF PassedBefore, LocatedAt, PassedOver, vars
<1> QED  BY <1>1, <1>2, <1>3, HookKept DEF ValidateInv, Waiting, ScanOK, ScanTrue

\* A change adds to what the paths have been.
LEMMA PastGrows ==
  ASSUME Change, NEW p \in Path
  PROVE  past[p] \subseteq past'[p] /\ (PassedOver(p) => PassedOver(p)')
BY DEF Change, PassedOver

LEMMA MeanwhileScan ==
  ASSUME ValidateInv, Change, UNCHANGED validateVars
  PROVE  Waiting' /\ ScanOK' /\ (changes' = 0 => ScanTrue')
<1>1. UNCHANGED <<pc, flags, vpc, vk, vpath, vconfig, code>>  BY DEF Change, validateVars
<1>2. changes' # 0  BY DEF ValidateInv, FaithInv, CauseInv, TypeOK, Change
<1>3. \A q \in 1 .. NumCandidates : q \in Path  BY CandidatesAssumption DEF Path, Explicit
<1>4. \A q \in 1 .. vk - 1 : q \in Path
  BY <1>3, CandidatesAssumption DEF ValidateInv, ScanOK
<1>5. ASSUME vpath \in Path, PassedBefore(vpath) PROVE PassedBefore(vpath)'
  <2>1. SUFFICES ASSUME vpath # Explicit, NEW q \in 1 .. vpath - 1 PROVE PassedOver(q)'
    BY <1>1 DEF PassedBefore
  <2>2. PassedOver(q)  BY <1>5, <2>1 DEF PassedBefore
  <2>3. q \in Path  BY <1>5, CandidatesAssumption DEF Path, Explicit
  <2> QED  BY <2>2, <2>3, PastGrows
<1>6. ScanOK'
  BY <1>1, <1>4, <1>5, PastGrows DEF ValidateInv, ScanOK
<1> QED  BY <1>1, <1>2, <1>6 DEF ValidateInv, Waiting

LEMMA MeanwhileStep == ValidateInv /\ ChangeMeanwhile => ValidateInv'
<1> SUFFICES ASSUME ValidateInv, ChangeMeanwhile PROVE ValidateInv'  OBVIOUS
<1>1. Change /\ UNCHANGED validateVars /\ pc = "flags"
  BY DEF ChangeMeanwhile, ValidateInv, Waiting
<1>2. FaithInv'  BY <1>1, ChangeFaith DEF ValidateInv
<1> QED  BY <1>1, <1>2, MeanwhileScan DEF ValidateInv

\* A step of the hook changes no file, or is a change.
LEMMA HookWorld == Next => UNCHANGED <<flags, fs, changes, past>> \/ Change
BY DEF Next, Step, ParseFlags, Read, Stat, NotFound, Load, Parse, Evaluate, Evaluated, Write,
   Recover, Panic, ChangeFile, world

LEMMA HookStep == ValidateInv /\ Hook => ValidateInv'
<1> SUFFICES ASSUME ValidateInv, Hook PROVE ValidateInv'  OBVIOUS
<1>1. vpc = "done" /\ Next /\ UNCHANGED validateVars  BY DEF Hook
<1>2. FaithInv'  BY <1>1, FaithStep DEF ValidateInv
<1>3. CASE Change  BY <1>1, <1>2, <1>3, MeanwhileScan DEF ValidateInv
<1>4. CASE UNCHANGED <<flags, fs, changes, past>>
  <2>1. /\ NothingThere' = NothingThere
        /\ \A p : PassedOver(p)' = PassedOver(p)
    BY <1>4 DEF NothingThere, PassedOver
  <2>2. UNCHANGED <<vpc, vk, vpath, vconfig, code>>  BY <1>1 DEF validateVars
  <2>3. PassedBefore(vpath)' = PassedBefore(vpath) /\ LocatedAt(vpath)' = LocatedAt(vpath)
    BY <1>4, <2>1, <2>2 DEF PassedBefore, LocatedAt
  <2> QED
    BY <1>1, <1>2, <1>4, <2>1, <2>2, <2>3 DEF ValidateInv, Waiting, ScanOK, ScanTrue
<1> QED  BY <1>1, <1>3, <1>4, HookWorld

LEMMA ValidateInvStep == ValidateInv /\ [ValidateNext]_allVars => ValidateInv'
<1> SUFFICES ASSUME ValidateInv, [ValidateNext]_allVars PROVE ValidateInv'  OBVIOUS
<1>1. CASE UNCHANGED allVars
  <2>1. UNCHANGED vars /\ UNCHANGED <<vpc, vk, vpath, vconfig, code>>
    BY <1>1 DEF allVars, validateVars
  <2>2. PassedBefore(vpath)' = PassedBefore(vpath) /\ LocatedAt(vpath)' = LocatedAt(vpath)
    BY <2>1, HookKept DEF PassedBefore, LocatedAt, vars
  <2> QED  BY <2>1, <2>2, HookKept DEF ValidateInv, Waiting, ScanOK, ScanTrue
<1> QED
  BY <1>1, ValidateFlagsStep, ValidateStatStep, ValidateNotFoundStep, ValidateLoadStep,
     MeanwhileStep, HookStep
  DEF ValidateNext, Validate

\* validate's exit code foretells, for any config files and any event, what the hook
\* does with the same flags as long as no file changes: 0, it answers by the config
\* that was found good; 1 or 2, by none (run.go:84 and run.go:204: both
\* share resolveConfigPath and rule.Load).
THEOREM ExitCodeForetells == ValidateSpec => []ValidateForetells
<1> QED  BY ValidateExplains, ValidateInvInit, ValidateInvStep, PTL DEF ValidateSpec

\* However often the files change meanwhile, OK is about a config that was at the path
\* it names, and none of the candidates before it was a file all along.
THEOREM OkHasCause == ValidateSpec => []OkIsExplained
<1> QED  BY OkExplains, ValidateInvInit, ValidateInvStep, PTL DEF ValidateSpec
================================================================================
