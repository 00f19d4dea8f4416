---------------------------- MODULE InspectProofs -----------------------------
(* Proofs about BashParse and Inspect, for any lexicon, specs, rules, depth     *)
(* limit and lines.  The first two parts are about the walk alone and need not  *)
(* know which words make a call or what a wrapper's targets are; the others     *)
(* are about the calls of a text, what they deserve and what the hook answers.  *)
EXTENDS Inspect, CommonProofs

--------------------------------------------------------------------------------
(* Sequences of whatever elements. *)

Sequential(s) == s \in Seq(Range(s))

LEMMA SequentialLen ==
  ASSUME NEW s, Sequential(s)
  PROVE  Len(s) \in Nat /\ DOMAIN s = 1 .. Len(s) /\ (s # << >> => Len(s) \in DOMAIN s)
<1>1. Len(s) \in Nat /\ DOMAIN s = 1 .. Len(s)  BY LenProperties DEF Sequential
<1>2. s # << >> => Len(s) # 0  BY EmptySeq DEF Sequential
<1> QED  BY <1>1, <1>2

LEMMA SequentialOf ==
  ASSUME NEW S, NEW s \in Seq(S)
  PROVE  Sequential(s)
BY SeqOfRange DEF Sequential

LEMMA Appended ==
  ASSUME NEW s, Sequential(s), NEW x
  PROVE  LET t == Append(s, x)
         IN  /\ Sequential(t) /\ Len(t) = Len(s) + 1 /\ DOMAIN t = 1 .. Len(s) + 1
             /\ \A i \in 1 .. Len(s) : t[i] = s[i]
             /\ t[Len(s) + 1] = x
<1> DEFINE S == Range(s) \cup {x}
<1>1. s \in Seq(S)
  <2>1. Range(s) \subseteq S  OBVIOUS
  <2> QED  BY <2>1, SeqMonotonic DEF Sequential
<1>2. x \in S  OBVIOUS
<1> HIDE DEF S
<1>3. Append(s, x) \in Seq(S)  BY <1>1, <1>2, AppendProperties
<1>4. Sequential(Append(s, x))  BY <1>3, SequentialOf
<1>5. Len(Append(s, x)) = Len(s) + 1  BY <1>1, <1>2, AppendProperties
<1> QED  BY <1>1, <1>2, <1>4, <1>5, AppendProperties, SequentialLen

\* Other elements at the same places.
LEMMA Refilled ==
  ASSUME NEW s, Sequential(s), NEW T, NEW t \in [DOMAIN s -> T]
  PROVE  Sequential(t) /\ Len(t) = Len(s) /\ DOMAIN t = DOMAIN s
<1>1. Len(s) \in Nat /\ DOMAIN s = 1 .. Len(s)  BY SequentialLen
<1>2. t \in Seq(T) /\ Len(t) = Len(s)  BY <1>1
<1> QED  BY <1>2, SequentialOf

LEMMA Popped ==
  ASSUME NEW s, Sequential(s), s # << >>
  PROVE  LET t == Front(s)
         IN  /\ Sequential(t) /\ Len(t) = Len(s) - 1 /\ DOMAIN t = 1 .. Len(s) - 1
             /\ \A j \in 1 .. Len(s) - 1 : t[j] = s[j]
<1> DEFINE n == Len(s) - 1
<1>1. n \in Nat /\ 1 .. n \subseteq DOMAIN s  BY SequentialLen
<1>2. \A j \in 1 .. n : s[j] \in Range(s)  BY <1>1 DEF Range
<1>3. Front(s) = SubSeq(s, 1, n)  BY DEF Front
<1> HIDE DEF n
<1>4. 1 \in Int /\ n \in Int  BY <1>1
<1>5. /\ Front(s) \in Seq(Range(s))
      /\ Len(Front(s)) = (IF 1 <= n THEN n - 1 + 1 ELSE 0)
      /\ \A j \in 1 .. n - 1 + 1 : Front(s)[j] = s[1 + j - 1]
  BY <1>2, <1>3, <1>4, SubSeqProperties
<1>6. Len(Front(s)) = n  BY <1>1, <1>5
<1>7. \A j \in 1 .. n : Front(s)[j] = s[j]
  <2>1. n - 1 + 1 = n /\ \A j \in 1 .. n : 1 + j - 1 = j  BY <1>1
  <2> QED  BY <1>5, <2>1
<1>8. Sequential(Front(s))  BY <1>5, SequentialOf
<1> QED  BY <1>6, <1>7, <1>8, SequentialLen DEF n

LEMMA Tailed ==
  ASSUME NEW s, Sequential(s), s # << >>
  PROVE  /\ Sequential(Tail(s)) /\ Range(Tail(s)) \subseteq Range(s) /\ Head(s) \in Range(s)
         /\ \A t \in Range(s) : t = Head(s) \/ t \in Range(Tail(s))
<1>1. Len(s) \in Nat /\ Len(s) # 0 /\ DOMAIN s = 1 .. Len(s)  BY SequentialLen
<1>2. /\ Head(s) \in Range(s) /\ Tail(s) \in Seq(Range(s)) /\ Len(Tail(s)) = Len(s) - 1
      /\ \A i \in 1 .. Len(Tail(s)) : Tail(s)[i] = s[i + 1]
  BY HeadTailProperties DEF Sequential
<1>3. Sequential(Tail(s)) /\ DOMAIN Tail(s) = 1 .. Len(s) - 1
  BY <1>2, SequentialOf, SequentialLen
<1>4. Head(s) = s[1]  BY DEF Sequential
<1>5. \A t \in Range(s) : t = Head(s) \/ t \in Range(Tail(s))
  <2>1. SUFFICES ASSUME NEW i \in 1 .. Len(s), i # 1 PROVE s[i] \in Range(Tail(s))
    BY <1>1, <1>4 DEF Range
  <2>2. i - 1 \in 1 .. Len(s) - 1 /\ Tail(s)[i - 1] = s[i]  BY <1>1, <1>2, <2>1
  <2> QED  BY <1>3, <2>2 DEF Range
<1>6. Range(Tail(s)) \subseteq Range(s)  BY <1>2, RangeOfSeq
<1> QED  BY <1>2, <1>3, <1>5, <1>6

\* What Descend does with at most one more element.
LEMMA Descending ==
  ASSUME NEW s, Sequential(s), NEW x
  PROVE  s \o << >> = s /\ s \o <<x>> = Append(s, x)
<1>1. s \o << >> = s  BY ConcatEmptySeq DEF Sequential
<1>2. s \in Seq(Range(s) \cup {x})
  <2>1. Range(s) \subseteq Range(s) \cup {x}  OBVIOUS
  <2> QED  BY <2>1, SeqMonotonic DEF Sequential
<1>3. s \o <<x>> = Append(s, x)  BY <1>2, AppendIsConcat
<1> QED  BY <1>1, <1>3

--------------------------------------------------------------------------------
(* The walk is nested. *)

CommandOK(k) ==
  LET c == cmds[k]
  IN  /\ c \in [words : {c.words}, depth : Nat, owner : Nat, inspectionFailed : BOOLEAN]
      /\ c.owner < k
      /\ c.depth = IF c.owner = 0 THEN 0 ELSE cmds[c.owner].depth + 1
      /\ \A j \in c.owner + 1 .. k - 1 : cmds[j].owner >= c.owner

\* A level's owner is one level up, and since it was emitted the walk has been below it.
LevelOK(n) ==
  LET l == levels[n]
  IN  /\ l \in [targets : {l.targets}, calls : {l.calls}, depth : {n - 1}, owner : 0 .. Len(cmds)]
      /\ IF n = 1 THEN l.owner = 0 /\ l.targets = << >>
         ELSE l.owner # 0 /\ cmds[l.owner].depth = n - 2
      /\ \A m \in 1 .. n - 1 : levels[m].owner < l.owner
      /\ \A j \in l.owner + 1 .. Len(cmds) : cmds[j].owner >= l.owner

NestInv ==
  /\ Sequential(cmds) /\ \A k \in DOMAIN cmds : CommandOK(k)
  /\ Sequential(levels) /\ \A n \in DOMAIN levels : LevelOK(n)
  /\ outcome # "running" => levels = << >>

LEMMA NestInvNests == NestInv => NestedInOrder
BY DEF NestInv, CommandOK, NestedInOrder

LEMMA EmptyIsSequential == Sequential(<< >>) /\ Len(<< >>) = 0 /\ DOMAIN << >> = {}
<1>1. << >> \in Seq({}) /\ Len(<< >>) = 0  BY EmptySeq
<1>2. Sequential(<< >>)  BY <1>1, SequentialOf
<1> QED  BY <1>1, <1>2

LEMMA NestInvInit == Init => NestInv
BY EmptyIsSequential DEF Init, NestInv

LEMMA StartNests == NestInv /\ Start => NestInv'
<1> SUFFICES ASSUME NestInv, Start PROVE NestInv'  OBVIOUS
<1>1. levels = << >> /\ cmds' = cmds  BY DEF NestInv, Start
<1>2. CASE line = NotShell  BY <1>1, <1>2 DEF NestInv, Start, CommandOK, LevelOK
<1>3. CASE line # NotShell
  <2> DEFINE l == Level(<< >>, line, 0, 0)
  <2>1. levels' = <<l>> /\ outcome' = "running"  BY <1>3 DEF Start
  <2>2. <<l>> \in Seq({l}) /\ Len(<<l>>) = 1 /\ <<l>>[1] = l  OBVIOUS
  <2>3. l = [targets |-> << >>, calls |-> line, depth |-> 0, owner |-> 0]  BY DEF Level
  <2> HIDE DEF l
  <2>4. Sequential(levels') /\ DOMAIN levels' = {1} /\ levels'[1] = l
    <3>1. Sequential(<<l>>)  BY <2>2, SequentialOf
    <3> QED  BY <2>1, <2>2, <3>1
  <2>5. Len(cmds) \in Nat /\ \A j \in 1 .. Len(cmds) : cmds[j].owner \in Nat
    BY SequentialLen DEF NestInv, CommandOK
  <2>6. LevelOK(1)'  BY <1>1, <2>3, <2>4, <2>5 DEF LevelOK
  <2> QED  BY <1>1, <2>1, <2>4, <2>6 DEF NestInv, CommandOK
<1> QED  BY <1>2, <1>3

\* A command emitted at the top level is in its place.
LEMMA EmitNests ==
  ASSUME NestInv, levels # << >>, NEW c, cmds' = Append(cmds, c),
         c \in [words : {c.words}, depth : {Top.depth}, owner : {Top.owner}, inspectionFailed : BOOLEAN]
  PROVE  /\ Sequential(cmds') /\ DOMAIN cmds' = 1 .. Len(cmds) + 1 /\ Len(cmds') = Len(cmds) + 1
         /\ Len(cmds) \in Nat /\ cmds'[Len(cmds) + 1] = c
         /\ \A k \in 1 .. Len(cmds) : cmds'[k] = cmds[k]
         /\ \A k \in DOMAIN cmds' : CommandOK(k)'
         /\ \A n \in DOMAIN levels : \A j \in levels[n].owner + 1 .. Len(cmds') :
              cmds'[j].owner >= levels[n].owner
<1> DEFINE K == Len(cmds)
<1>1. K \in Nat /\ DOMAIN cmds = 1 .. K  BY SequentialLen DEF NestInv
<1>2. /\ Sequential(cmds') /\ DOMAIN cmds' = 1 .. K + 1 /\ Len(cmds') = K + 1
      /\ cmds'[K + 1] = c /\ \A k \in 1 .. K : cmds'[k] = cmds[k]
  BY Appended DEF NestInv
<1>3. Len(levels) \in Nat /\ DOMAIN levels = 1 .. Len(levels) /\ Len(levels) \in DOMAIN levels
  BY SequentialLen DEF NestInv
<1>4. LevelOK(Len(levels)) /\ Top = levels[Len(levels)]  BY <1>3 DEF NestInv, Top
<1>5. ASSUME NEW k \in 1 .. K PROVE CommandOK(k)'
  <2>1. CommandOK(k)  BY <1>1 DEF NestInv
  <2>2. \A j \in 1 .. k : cmds'[j] = cmds[j]  BY <1>1, <1>2
  <2>3. cmds[k].owner # 0 => cmds[k].owner \in 1 .. k  BY <1>1, <2>1 DEF CommandOK
  <2>4. cmds[k].owner \in Nat /\ \A j \in cmds[k].owner + 1 .. k - 1 : j \in 1 .. k
    BY <1>1, <2>1 DEF CommandOK
  <2> QED  BY <1>1, <2>1, <2>2, <2>3, <2>4 DEF CommandOK
<1>6. ASSUME NEW k, k = K + 1 PROVE CommandOK(k)'
  <2>1. /\ c.owner = Top.owner /\ c.owner \in 0 .. K /\ c.depth = Len(levels) - 1
        /\ IF Len(levels) = 1 THEN c.owner = 0 ELSE c.owner # 0 /\ cmds[c.owner].depth = Len(levels) - 2
        /\ \A j \in c.owner + 1 .. K : cmds[j].owner >= c.owner
    BY <1>4 DEF LevelOK
  <2>2. c \in [words : {c.words}, depth : Nat, owner : Nat, inspectionFailed : BOOLEAN]
    BY <1>1, <1>3, <1>4, <2>1 DEF LevelOK
  <2>3. c.depth = IF c.owner = 0 THEN 0 ELSE cmds'[c.owner].depth + 1
    <3>1. CASE c.owner = 0  BY <1>3, <2>1, <3>1
    <3>2. CASE c.owner # 0
      <4>1. cmds'[c.owner] = cmds[c.owner]  BY <1>1, <1>2, <2>1, <3>2
      <4> QED  BY <1>3, <2>1, <3>2, <4>1
    <3> QED  BY <3>1, <3>2
  <2>4. \A j \in c.owner + 1 .. K : cmds'[j] = cmds[j]  BY <1>1, <1>2, <2>1
  <2>5. k - 1 = K /\ c.owner < k  BY <1>1, <1>6, <2>1
  <2>6. \A j \in c.owner + 1 .. k - 1 : cmds'[j].owner >= c.owner
    BY <2>1, <2>4, <2>5
  <2>7. cmds'[k] = c  BY <1>2, <1>6
  <2> QED  BY <2>2, <2>3, <2>5, <2>6, <2>7 DEF CommandOK
<1>7. ASSUME NEW n \in DOMAIN levels, NEW j \in levels[n].owner + 1 .. K + 1
      PROVE  cmds'[j].owner >= levels[n].owner
  <2>1. LevelOK(n) /\ n \in 1 .. Len(levels) /\ levels[n].owner \in 0 .. K
    BY <1>3 DEF NestInv, LevelOK
  <2>2. CASE j \in levels[n].owner + 1 .. K
    <3>1. cmds'[j] = cmds[j]  BY <1>1, <1>2, <2>1, <2>2
    <3> QED  BY <2>1, <2>2, <3>1 DEF LevelOK
  <2>3. CASE j = K + 1
    <3>1. n = Len(levels) \/ n \in 1 .. Len(levels) - 1  BY <1>3, <2>1
    <3>2. Top.owner \in 0 .. K /\ (n # Len(levels) => levels[n].owner < Top.owner)
      BY <1>4, <3>1 DEF LevelOK
    <3>3. levels[n].owner <= Top.owner  BY <1>1, <1>4, <2>1, <3>1, <3>2
    <3> QED  BY <1>1, <1>2, <2>1, <2>3, <3>2, <3>3
  <2> QED  BY <1>1, <2>1, <2>2, <2>3
<1>8. \A k \in DOMAIN cmds' : CommandOK(k)'
  <2>1. \A k \in 1 .. K + 1 : k \in 1 .. K \/ k = K + 1  BY <1>1
  <2> QED  BY <1>2, <1>5, <1>6, <2>1
<1> QED  BY <1>1, <1>2, <1>7, <1>8

\* A level that keeps its owner and its depth keeps its place.
LEMMA LevelKept ==
  ASSUME NestInv, NEW n \in DOMAIN levels, NEW t,
         levels'[n] \in [targets : {t}, calls : {levels'[n].calls},
                         depth : {levels[n].depth}, owner : {levels[n].owner}],
         n = 1 => t = << >>,
         \A m \in 1 .. n - 1 : levels'[m].owner = levels[m].owner,
         Len(cmds') \in Nat, Len(cmds) <= Len(cmds'),
         \A k \in DOMAIN cmds : cmds'[k].depth = cmds[k].depth,
         \A j \in levels[n].owner + 1 .. Len(cmds') : cmds'[j].owner >= levels[n].owner
  PROVE  LevelOK(n)'
<1>1. LevelOK(n) /\ Len(cmds) \in Nat /\ DOMAIN cmds = 1 .. Len(cmds)
  BY SequentialLen DEF NestInv
<1>2. /\ levels'[n].targets = t /\ levels'[n].depth = n - 1
      /\ levels'[n].owner = levels[n].owner /\ levels[n].owner \in 0 .. Len(cmds')
      /\ levels'[n] \in [targets : {levels'[n].targets}, calls : {levels'[n].calls},
                          depth : {n - 1}, owner : 0 .. Len(cmds')]
  BY <1>1 DEF LevelOK
<1>3. IF n = 1 THEN levels'[n].owner = 0 /\ levels'[n].targets = << >>
      ELSE levels'[n].owner # 0 /\ cmds'[levels'[n].owner].depth = n - 2
  <2>1. levels[n].owner # 0 => levels[n].owner \in DOMAIN cmds  BY <1>1 DEF LevelOK
  <2> QED  BY <1>1, <1>2, <2>1 DEF LevelOK
<1>4. \A m \in 1 .. n - 1 : levels'[m].owner < levels'[n].owner
  BY <1>1, <1>2 DEF LevelOK
<1> QED  BY <1>2, <1>3, <1>4 DEF LevelOK

\* The top of the levels, and what is known of it.
LEMMA TopIs ==
  ASSUME NestInv, levels # << >>
  PROVE  /\ Len(levels) \in Nat /\ Len(levels) # 0 /\ DOMAIN levels = 1 .. Len(levels)
         /\ Top = levels[Len(levels)] /\ LevelOK(Len(levels))
         /\ Top = [targets |-> Top.targets, calls |-> Top.calls, depth |-> Len(levels) - 1, owner |-> Top.owner]
         /\ Top.owner \in 0 .. Len(cmds) /\ (Top.targets # << >> => Len(levels) > 1 /\ Top.owner \in DOMAIN cmds)
         /\ \A n \in DOMAIN levels : levels[n].owner \in 0 .. Len(cmds)
<1>1. Len(levels) \in Nat /\ Len(levels) # 0 /\ DOMAIN levels = 1 .. Len(levels)
      /\ Len(cmds) \in Nat /\ DOMAIN cmds = 1 .. Len(cmds)
  BY SequentialLen DEF NestInv
<1>2. Top = levels[Len(levels)]  BY DEF Top
<1>3. \A n \in DOMAIN levels : LevelOK(n)  BY DEF NestInv
<1>4. LevelOK(Len(levels))  BY <1>1, <1>3
<1>5. \A n \in DOMAIN levels : levels[n].owner \in 0 .. Len(cmds)  BY <1>3 DEF LevelOK
<1>6. Top.owner \in 0 .. Len(cmds)  BY <1>1, <1>2, <1>5
<1>7. Top.targets # << >> => Len(levels) > 1 /\ Top.owner \in DOMAIN cmds
  BY <1>1, <1>2, <1>4, <1>6 DEF LevelOK
<1>8. Top = [targets |-> Top.targets, calls |-> Top.calls, depth |-> Len(levels) - 1, owner |-> Top.owner]
  BY <1>2, <1>4 DEF LevelOK
<1> QED  BY <1>1, <1>2, <1>4, <1>5, <1>6, <1>7, <1>8

\* The targets of a call that are more than nothing, none or one list of them.
Found(call) == {x.targets : x \in {x \in Extractions(call) : x.targets # << >>}}

\* The level of the targets of a call just emitted, if there are any.
Opened(call) == Level(CHOOSE t \in Found(call) : TRUE, << >>, Top.depth + 1, Len(cmds) + 1)

\* What a visit does: a command, a top that goes on, and a level for the targets.
LEMMA Visiting ==
  ASSUME NestInv, Visit
  PROVE  \E call, c, u :
           /\ levels # << >> /\ Top.calls # << >> /\ call = Head(Top.calls)
           /\ u[Len(levels)].calls = Substituted(call) \o Tail(Top.calls)
           /\ c = [words |-> call, depth |-> Top.depth, owner |-> Top.owner,
                   inspectionFailed |-> \/ ~Normalize(call, resolveValueTaking(call[1])).ok
                                        \/ \E x \in Extractions(call) : x.failed
                                        \/ Found(call) # {} /\ Top.depth + 1 > maxDepth]
           /\ cmds' = Append(cmds, c)
           /\ Sequential(u) /\ Len(u) = Len(levels) /\ DOMAIN u = DOMAIN levels
           /\ \A n \in 1 .. Len(levels) - 1 : u[n] = levels[n]
           /\ u[Len(levels)] \in [targets : {Top.targets}, calls : {u[Len(levels)].calls},
                                  depth : {Top.depth}, owner : {Top.owner}]
           /\ IF Found(call) = {} \/ Top.depth + 1 > maxDepth THEN levels' = u
              ELSE levels' = Append(u, Opened(call))
<1> DEFINE call == Head(Top.calls)
           tooDeep == Found(call) # {} /\ Top.depth + 1 > maxDepth
           failed == \/ ~Normalize(call, resolveValueTaking(call[1])).ok
                     \/ \E x \in Extractions(call) : x.failed
                     \/ tooDeep
           c == [words |-> call, depth |-> Top.depth, owner |-> Top.owner, inspectionFailed |-> failed]
           top == [Top EXCEPT !.calls = Substituted(call) \o Tail(@)]
           opened == IF Found(call) = {} \/ tooDeep THEN << >> ELSE <<Opened(call)>>
           u == SetTop(top)
<1>1. levels # << >> /\ Top.calls # << >>  BY DEF Visit
<1>2. cmds' = Append(cmds, c)  BY DEF Visit, Found, Extractions
<1>3. levels' = u \o opened  BY DEF Visit, Found, Extractions, Descend, Child, Opened
<1>4. /\ top \in [targets : {Top.targets}, calls : {top.calls}, depth : {Top.depth}, owner : {Top.owner}]
      /\ top.calls = Substituted(call) \o Tail(Top.calls)
  <2>1. Top = [targets |-> Top.targets, calls |-> Top.calls, depth |-> Len(levels) - 1, owner |-> Top.owner]
    BY <1>1, TopIs
  <2> HIDE DEF call
  <2> QED  BY <2>1
<1> HIDE DEF top
<1>5. /\ Len(levels) \in Nat /\ Len(levels) # 0 /\ DOMAIN levels = 1 .. Len(levels) /\ Sequential(levels)
      /\ levels \in [DOMAIN levels -> Range(levels)]
  BY <1>1, TopIs, LenProperties DEF NestInv, Sequential
<1>6. /\ u \in [DOMAIN levels -> Range(levels) \cup {top}]
      /\ \A n \in DOMAIN levels : u[n] = IF n = Len(levels) THEN top ELSE levels[n]
  BY <1>5 DEF SetTop
<1> HIDE DEF u, call
<1>7. Sequential(u) /\ Len(u) = Len(levels) /\ DOMAIN u = DOMAIN levels
  BY <1>5, <1>6, Refilled
<1>8. u[Len(levels)] = top /\ \A n \in 1 .. Len(levels) - 1 : u[n] = levels[n]
  BY <1>5, <1>6
<1>9. IF Found(call) = {} \/ Top.depth + 1 > maxDepth THEN levels' = u
      ELSE levels' = Append(u, Opened(call))
  <2>1. CASE Found(call) = {} \/ Top.depth + 1 > maxDepth
    <3>1. opened = << >>  BY <2>1
    <3>2. levels' = u \o << >>  BY <1>3, <3>1
    <3> QED  BY <1>7, <2>1, <3>2, Descending
  <2>2. CASE ~(Found(call) = {} \/ Top.depth + 1 > maxDepth)
    <3>1. opened = <<Opened(call)>>  BY <2>2
    <3>2. levels' = u \o <<Opened(call)>>  BY <1>3, <3>1
    <3> QED  BY <1>7, <2>2, <3>2, Descending
  <2> QED  BY <2>1, <2>2
<1>10. u[Len(levels)] \in [targets : {Top.targets}, calls : {u[Len(levels)].calls},
                          depth : {Top.depth}, owner : {Top.owner}]
  BY <1>4, <1>8
<1> HIDE DEF failed, opened
<1>11. c = [words |-> call, depth |-> Top.depth, owner |-> Top.owner,
           inspectionFailed |-> \/ ~Normalize(call, resolveValueTaking(call[1])).ok
                                \/ \E x \in Extractions(call) : x.failed
                                \/ Found(call) # {} /\ Top.depth + 1 > maxDepth]
  BY DEF failed
<1>12. u[Len(levels)].calls = Substituted(call) \o Tail(Top.calls)  BY <1>4, <1>8
<1>13. call = Head(Top.calls)  BY DEF call
<1> HIDE DEF c
<1> QED  BY <1>1, <1>2, <1>7, <1>8, <1>9, <1>10, <1>11, <1>12, <1>13

LEMMA VisitNests == NestInv /\ Visit => NestInv'
<1> SUFFICES ASSUME NestInv, Visit PROVE NestInv'  OBVIOUS
<1>1. PICK call, c, u :
           /\ levels # << >>
           /\ c = [words |-> call, depth |-> Top.depth, owner |-> Top.owner,
                   inspectionFailed |-> \/ ~Normalize(call, resolveValueTaking(call[1])).ok
                                        \/ \E x \in Extractions(call) : x.failed
                                        \/ Found(call) # {} /\ Top.depth + 1 > maxDepth]
           /\ cmds' = Append(cmds, c)
           /\ Sequential(u) /\ Len(u) = Len(levels) /\ DOMAIN u = DOMAIN levels
           /\ \A n \in 1 .. Len(levels) - 1 : u[n] = levels[n]
           /\ u[Len(levels)] \in [targets : {Top.targets}, calls : {u[Len(levels)].calls},
                                  depth : {Top.depth}, owner : {Top.owner}]
           /\ IF Found(call) = {} \/ Top.depth + 1 > maxDepth THEN levels' = u
              ELSE levels' = Append(u, Opened(call))
  BY Visiting
<1> DEFINE K == Len(cmds)
           L == Len(levels)
           x == Opened(call)
<1>2. c \in [words : {c.words}, depth : {Top.depth}, owner : {Top.owner}, inspectionFailed : BOOLEAN]
  BY <1>1
<1>3. /\ Sequential(cmds') /\ DOMAIN cmds' = 1 .. K + 1 /\ Len(cmds') = K + 1
      /\ K \in Nat /\ cmds'[K + 1] = c
      /\ \A k \in 1 .. K : cmds'[k] = cmds[k]
      /\ \A k \in DOMAIN cmds' : CommandOK(k)'
      /\ \A n \in DOMAIN levels : \A j \in levels[n].owner + 1 .. Len(cmds') :
           cmds'[j].owner >= levels[n].owner
  BY <1>1, <1>2, EmitNests
<1>4. /\ L \in Nat /\ L # 0 /\ DOMAIN levels = 1 .. L /\ Top = levels[L] /\ LevelOK(L)
      /\ Top.depth = L - 1 /\ DOMAIN cmds = 1 .. K
      /\ \A n \in DOMAIN levels : levels[n].owner \in 0 .. K
  BY <1>1, <1>3, TopIs, SequentialLen DEF NestInv, LevelOK
<1> HIDE DEF x
<1>5. /\ Sequential(levels') /\ (\A n \in DOMAIN levels : n \in DOMAIN levels' /\ levels'[n] = u[n])
      /\ \A n \in DOMAIN levels' : n \in DOMAIN levels \/ (n = L + 1 /\ levels'[n] = x)
  <2>1. CASE levels' = u  BY <1>1, <2>1
  <2>2. CASE levels' = Append(u, x)
    <3>1. /\ Sequential(levels') /\ DOMAIN levels' = 1 .. L + 1
          /\ \A n \in 1 .. L : levels'[n] = u[n]
          /\ levels'[L + 1] = x
      <4>1. Sequential(u) /\ Len(u) = L  BY <1>1
      <4> QED  BY <2>2, <4>1, Appended
    <3>2. \A n \in 1 .. L + 1 : n \in 1 .. L \/ n = L + 1  BY <1>4
    <3> QED  BY <1>4, <3>1, <3>2
  <2> QED  BY <1>1, <2>1, <2>2 DEF x
<1>6. \A n \in DOMAIN levels : n = L \/ n \in 1 .. L - 1  BY <1>4
<1>7. \A n \in DOMAIN levels :
        /\ levels'[n].owner = levels[n].owner
        /\ levels'[n] \in [targets : {levels[n].targets}, calls : {levels'[n].calls},
                           depth : {levels[n].depth}, owner : {levels[n].owner}]
  <2>1. SUFFICES ASSUME NEW n \in DOMAIN levels
                 PROVE  levels'[n] \in [targets : {levels[n].targets}, calls : {levels'[n].calls},
                                        depth : {levels[n].depth}, owner : {levels[n].owner}]
    OBVIOUS
  <2>2. CASE n = L  BY <1>1, <1>4, <1>5, <2>2
  <2>3. CASE n # L
    <3>1. levels'[n] = levels[n]  BY <1>1, <1>5, <1>6, <2>3
    <3>2. LevelOK(n)  BY DEF NestInv
    <3> QED  BY <3>1, <3>2 DEF LevelOK
  <2> QED  BY <2>2, <2>3
<1>8. ASSUME NEW n \in DOMAIN levels PROVE LevelOK(n)'
  <2>1. n = 1 => levels[n].targets = << >>  BY DEF NestInv, LevelOK
  <2>2. \A m \in 1 .. n - 1 : levels'[m].owner = levels[m].owner
    <3>1. \A m \in 1 .. n - 1 : m \in DOMAIN levels  BY <1>4
    <3> QED  BY <1>7, <3>1
  <2>3. Len(cmds') \in Nat /\ Len(cmds) <= Len(cmds')
        /\ \A k \in DOMAIN cmds : cmds'[k].depth = cmds[k].depth
    BY <1>3, <1>4
  <2> HIDE DEF K, L
  <2> QED  BY <1>3, <1>7, <2>1, <2>2, <2>3, LevelKept
<1>9. ASSUME NEW n, n = L + 1, levels'[n] = x PROVE LevelOK(n)'
  <2> DEFINE T == CHOOSE t \in Found(call) : TRUE
  <2>1. x = [targets |-> T, calls |-> << >>, depth |-> n - 1, owner |-> K + 1]
    <3>1. Top.depth + 1 = n - 1  BY <1>4, <1>9
    <3> QED  BY <3>1 DEF Level, Opened, x
  <2>2. \A m \in 1 .. n - 1 : levels'[m].owner < K + 1
    BY <1>3, <1>4, <1>7, <1>9
  <2>3. n # 1 /\ K + 1 # 0  BY <1>3, <1>4, <1>9
  <2>4. cmds'[K + 1].depth = n - 2
    <3>1. cmds'[K + 1].depth = L - 1  BY <1>1, <1>3, <1>4
    <3> QED  BY <1>4, <1>9, <3>1
  <2>5. K + 1 \in 0 .. Len(cmds') /\ \A j \in (K + 1) + 1 .. Len(cmds') : FALSE
    BY <1>3
  <2> HIDE DEF K, T
  <2>6. levels'[n].targets = T /\ levels'[n].calls = << >> /\ levels'[n].depth = n - 1
        /\ levels'[n].owner = K + 1
    BY <1>9, <2>1
  <2>7. levels'[n] \in [targets : {levels'[n].targets}, calls : {levels'[n].calls}, depth : {n - 1},
                        owner : 0 .. Len(cmds')]
    BY <1>9, <2>1, <2>5, <2>6
  <2> QED  BY <2>2, <2>3, <2>4, <2>5, <2>6, <2>7 DEF LevelOK
<1>10. outcome' = "running"  BY DEF Visit
<1>11. \A n \in DOMAIN levels' : LevelOK(n)'  BY <1>5, <1>8, <1>9
<1> QED  BY <1>3, <1>5, <1>10, <1>11 DEF NestInv

\* What parsing a target does: perhaps a mark on its wrapper, and a top that goes on.
LEMMA Marking ==
  ASSUME NestInv, ParseTarget
  PROVE  /\ levels # << >> /\ Top.targets # << >> /\ Top.owner \in DOMAIN cmds
         /\ Sequential(cmds') /\ Len(cmds') = Len(cmds) /\ DOMAIN cmds' = DOMAIN cmds
         /\ \A k \in DOMAIN cmds :
              /\ cmds'[k] \in [words : {cmds[k].words}, depth : {cmds[k].depth}, owner : {cmds[k].owner},
                               inspectionFailed : BOOLEAN]
              /\ cmds'[k].words = cmds[k].words /\ cmds'[k].depth = cmds[k].depth
              /\ cmds'[k].owner = cmds[k].owner
              /\ cmds'[k].inspectionFailed <=> \/ cmds[k].inspectionFailed
                                               \/ k = Top.owner /\ Broken(Head(Top.targets))
         /\ Sequential(levels') /\ DOMAIN levels' = DOMAIN levels
         /\ \A n \in 1 .. Len(levels) - 1 : levels'[n] = levels[n]
         /\ levels'[Len(levels)] =
              [targets |-> Tail(Top.targets), calls |-> levels'[Len(levels)].calls,
               depth |-> Top.depth, owner |-> Top.owner]
<1>1. levels # << >> /\ Top.targets # << >>  BY DEF ParseTarget
<1>2. /\ Len(levels) \in Nat /\ Len(levels) # 0 /\ DOMAIN levels = 1 .. Len(levels)
      /\ Sequential(levels) /\ levels \in [DOMAIN levels -> Range(levels)]
      /\ Top = [targets |-> Top.targets, calls |-> Top.calls, depth |-> Len(levels) - 1, owner |-> Top.owner]
      /\ Top.owner \in DOMAIN cmds
      /\ Sequential(cmds) /\ cmds \in [DOMAIN cmds -> Range(cmds)]
  BY <1>1, TopIs, LenProperties DEF NestInv, Sequential
<1> DEFINE o == Top.owner
           b == Broken(Head(Top.targets))
           marked == MarkIfBroken(Head(Top.targets), cmds[o])
           next == NextTarget(Top)
<1>3. cmds' = [cmds EXCEPT ![o] = marked]  BY DEF ParseTarget
<1>4. levels' = [levels EXCEPT ![Len(levels)] = next]  BY DEF ParseTarget, SetTop
<1>5. \A k \in DOMAIN cmds :
        /\ cmds[k] = [words |-> cmds[k].words, depth |-> cmds[k].depth, owner |-> cmds[k].owner,
                      inspectionFailed |-> cmds[k].inspectionFailed]
        /\ cmds[k].inspectionFailed \in BOOLEAN
  BY DEF NestInv, CommandOK
<1>6. marked = [words |-> cmds[o].words, depth |-> cmds[o].depth, owner |-> cmds[o].owner,
               inspectionFailed |-> cmds[o].inspectionFailed \/ b]
  <2>1. cmds[o] = [words |-> cmds[o].words, depth |-> cmds[o].depth, owner |-> cmds[o].owner,
                   inspectionFailed |-> cmds[o].inspectionFailed]
    BY <1>2, <1>5
  <2>2. \A r, f : r = [words |-> r.words, depth |-> r.depth, owner |-> r.owner, inspectionFailed |-> r.inspectionFailed]
         => [r EXCEPT !.inspectionFailed = f] =
              [words |-> r.words, depth |-> r.depth, owner |-> r.owner, inspectionFailed |-> f]
    OBVIOUS
  <2>3. marked = [cmds[o] EXCEPT !.inspectionFailed = cmds[o].inspectionFailed \/ b]
    BY DEF MarkIfBroken
  <2> HIDE DEF marked, b, o
  <2> QED  BY <2>1, <2>2, <2>3
<1>7. \E cs : next = [targets |-> Tail(Top.targets), calls |-> cs, depth |-> Top.depth, owner |-> Top.owner]
  BY DEF NextTarget, Level
<1> HIDE DEF o, marked, next, b
<1>8. /\ cmds' \in [DOMAIN cmds -> Range(cmds) \cup {marked}]
      /\ \A k \in DOMAIN cmds : cmds'[k] = IF k = o THEN marked ELSE cmds[k]
  BY <1>2, <1>3
<1>9. /\ levels' \in [DOMAIN levels -> Range(levels) \cup {next}]
      /\ \A n \in DOMAIN levels : levels'[n] = IF n = Len(levels) THEN next ELSE levels[n]
  BY <1>2, <1>4
<1>10. Sequential(cmds') /\ Len(cmds') = Len(cmds) /\ DOMAIN cmds' = DOMAIN cmds
  BY <1>2, <1>8, Refilled
<1>11. Sequential(levels') /\ DOMAIN levels' = DOMAIN levels  BY <1>2, <1>9, Refilled
<1>12. ASSUME NEW k \in DOMAIN cmds
       PROVE  /\ cmds'[k] \in [words : {cmds[k].words}, depth : {cmds[k].depth}, owner : {cmds[k].owner},
                               inspectionFailed : BOOLEAN]
              /\ cmds'[k].words = cmds[k].words /\ cmds'[k].depth = cmds[k].depth
              /\ cmds'[k].owner = cmds[k].owner
              /\ cmds'[k].inspectionFailed <=> cmds[k].inspectionFailed \/ (k = o /\ b)
  <2>1. CASE k = o
    <3>1. PICK f \in BOOLEAN : f = (cmds[o].inspectionFailed \/ b)  OBVIOUS
    <3>2. cmds'[k] = [words |-> cmds[k].words, depth |-> cmds[k].depth, owner |-> cmds[k].owner,
                     inspectionFailed |-> f]
      BY <1>6, <1>8, <2>1, <3>1
    <3>3. cmds'[k].inspectionFailed = f  BY <3>2
    <3>4. cmds'[k].inspectionFailed <=> cmds[k].inspectionFailed \/ (k = o /\ b)  BY <2>1, <3>1, <3>3
    <3> QED  BY <3>2, <3>4
  <2>2. CASE k # o
    <3>1. cmds'[k] = cmds[k]  BY <1>8, <2>2
    <3> QED  BY <1>5, <2>2, <3>1
  <2> QED  BY <2>1, <2>2
<1>13. levels'[Len(levels)] = next /\ \A n \in 1 .. Len(levels) - 1 : levels'[n] = levels[n]
  BY <1>2, <1>9
<1>14. levels'[Len(levels)] = [targets |-> Tail(Top.targets), calls |-> levels'[Len(levels)].calls,
                             depth |-> Top.depth, owner |-> Top.owner]
  BY <1>7, <1>13
<1>15. o \in DOMAIN cmds  BY <1>2 DEF o
<1> QED  BY <1>1, <1>10, <1>11, <1>12, <1>13, <1>14, <1>15 DEF o, b

LEMMA ParseTargetNests == NestInv /\ ParseTarget => NestInv'
<1> SUFFICES ASSUME NestInv, ParseTarget PROVE NestInv'  OBVIOUS
<1> DEFINE L == Len(levels)
<1>1. /\ Sequential(cmds') /\ Len(cmds') = Len(cmds) /\ DOMAIN cmds' = DOMAIN cmds
      /\ Sequential(levels') /\ DOMAIN levels' = DOMAIN levels
      /\ \A n \in 1 .. L - 1 : levels'[n] = levels[n]
      /\ levels'[L] = [targets |-> Tail(Top.targets), calls |-> levels'[L].calls,
                       depth |-> Top.depth, owner |-> Top.owner]
  BY Marking
<1>2. \A k \in DOMAIN cmds :
        /\ cmds'[k].depth = cmds[k].depth /\ cmds'[k].owner = cmds[k].owner
        /\ cmds'[k] \in [words : {cmds'[k].words}, depth : {cmds[k].depth},
                         owner : {cmds[k].owner}, inspectionFailed : BOOLEAN]
  BY Marking
<1>3. levels # << >> /\ Top.targets # << >>  BY DEF ParseTarget
<1>4. /\ L \in Nat /\ L # 0 /\ DOMAIN levels = 1 .. L /\ Top = levels[L] /\ L # 1
      /\ Len(cmds) \in Nat /\ DOMAIN cmds = 1 .. Len(cmds)
      /\ \A n \in DOMAIN levels : levels[n].owner \in 0 .. Len(cmds)
  BY <1>3, TopIs, SequentialLen DEF NestInv
<1>5. ASSUME NEW k \in DOMAIN cmds PROVE CommandOK(k)'
  <2>1. CommandOK(k)  BY DEF NestInv
  <2>2. cmds[k].owner # 0 => cmds[k].owner \in DOMAIN cmds  BY <1>4, <2>1 DEF CommandOK
  <2>3. \A j \in cmds[k].owner + 1 .. k - 1 : j \in DOMAIN cmds  BY <1>4, <2>1 DEF CommandOK
  <2> QED  BY <1>2, <2>1, <2>2, <2>3 DEF CommandOK
<1>6. \A n \in DOMAIN levels : n = L \/ n \in 1 .. L - 1  BY <1>4
<1>7. \A n \in DOMAIN levels : LevelOK(n)  BY DEF NestInv
<1>8. \A n \in DOMAIN levels :
        /\ levels'[n].owner = levels[n].owner
        /\ levels'[n] \in [targets : {levels'[n].targets}, calls : {levels'[n].calls},
                           depth : {levels[n].depth}, owner : {levels[n].owner}]
  <2>1. SUFFICES ASSUME NEW n \in DOMAIN levels
                 PROVE  levels'[n] \in [targets : {levels'[n].targets}, calls : {levels'[n].calls},
                                        depth : {levels[n].depth}, owner : {levels[n].owner}]
    OBVIOUS
  <2>2. CASE n = L  BY <1>1, <1>4, <2>2
  <2>3. CASE n # L  BY <1>1, <1>6, <1>7, <2>3 DEF LevelOK
  <2> QED  BY <2>2, <2>3
<1>9. ASSUME NEW n \in DOMAIN levels PROVE LevelOK(n)'
  <2>1. n = 1 => levels'[n].targets = << >>
    <3>1. n = 1 => levels'[n] = levels[n]  BY <1>1, <1>4, <1>6
    <3> QED  BY <1>7, <3>1 DEF LevelOK
  <2>2. \A m \in 1 .. n - 1 : levels'[m].owner = levels[m].owner
    <3>1. \A m \in 1 .. n - 1 : m \in DOMAIN levels  BY <1>4
    <3> QED  BY <1>8, <3>1
  <2>3. \A j \in levels[n].owner + 1 .. Len(cmds') : cmds'[j].owner >= levels[n].owner
    <3>1. \A j \in levels[n].owner + 1 .. Len(cmds) : j \in DOMAIN cmds  BY <1>4
    <3> QED  BY <1>1, <1>2, <1>7, <3>1 DEF LevelOK
  <2>4. Len(cmds') \in Nat /\ Len(cmds) <= Len(cmds')
        /\ \A k \in DOMAIN cmds : cmds'[k].depth = cmds[k].depth
    BY <1>1, <1>2, <1>4
  <2> HIDE DEF L
  <2> QED  BY <1>8, <2>1, <2>2, <2>3, <2>4, LevelKept
<1>10. outcome' = "running"  BY DEF ParseTarget
<1> QED  BY <1>1, <1>5, <1>9, <1>10 DEF NestInv

LEMMA UpNests == NestInv /\ Up => NestInv'
<1> SUFFICES ASSUME NestInv, Up PROVE NestInv'  OBVIOUS
<1>1. levels # << >> /\ cmds' = cmds /\ outcome' = "running" /\ levels' = Front(levels)
  BY DEF Up
<1>2. /\ Sequential(levels') /\ DOMAIN levels' = 1 .. Len(levels) - 1
      /\ \A n \in 1 .. Len(levels) - 1 : levels'[n] = levels[n]
  BY <1>1, Popped DEF NestInv
<1>3. Len(levels) \in Nat /\ DOMAIN levels = 1 .. Len(levels)  BY SequentialLen DEF NestInv
<1>4. ASSUME NEW n \in DOMAIN levels' PROVE LevelOK(n)'
  <2>1. n \in DOMAIN levels /\ levels'[n] = levels[n] /\ \A m \in 1 .. n - 1 : levels'[m] = levels[m]
    BY <1>2, <1>3, <1>4
  <2>2. LevelOK(n)  BY <2>1 DEF NestInv
  <2> QED  BY <1>1, <2>1, <2>2 DEF LevelOK
<1> QED  BY <1>1, <1>2, <1>4 DEF NestInv, CommandOK

LEMMA NestInvStep == NestInv /\ [Next]_vars => NestInv'
<1> SUFFICES ASSUME NestInv, [Next]_vars PROVE NestInv'  OBVIOUS
<1>1. CASE Return
  BY <1>1 DEF Return, NestInv, CommandOK, LevelOK
<1>2. CASE UNCHANGED vars  BY <1>2 DEF vars, NestInv, CommandOK, LevelOK
<1> QED  BY <1>1, <1>2, StartNests, VisitNests, ParseTargetNests, UpNests DEF Next

\* However deep the wrappers and whatever they hold, each command comes after the
\* wrapper it was found in, one level below it, and until the wrapper's last target
\* is done nothing from outside it is emitted (bash_parser.go:53-78 and 147-187).
THEOREM WalkIsNested == Spec => []NestedInOrder
<1> QED  BY NestInvNests, NestInvInit, NestInvStep, PTL DEF Spec

LEMMA MarksStayStep ==
  ASSUME NestInv, [Next]_vars
  PROVE  \/ /\ Len(cmds) <= Len(cmds')
            /\ \A i \in DOMAIN cmds :
                 /\ cmds'[i].words = cmds[i].words
                 /\ cmds[i].inspectionFailed => cmds'[i].inspectionFailed
         \/ UNCHANGED vars
<1>1. Len(cmds) \in Nat /\ DOMAIN cmds = 1 .. Len(cmds)  BY SequentialLen DEF NestInv
<1>2. CASE cmds' = cmds  BY <1>1, <1>2
<1>3. CASE Visit
  <2>1. PICK c : cmds' = Append(cmds, c)  BY <1>3, Visiting
  <2>2. Len(cmds') = Len(cmds) + 1 /\ \A i \in 1 .. Len(cmds) : cmds'[i] = cmds[i]
    BY <2>1, Appended DEF NestInv
  <2> QED  BY <1>1, <2>2
<1>4. CASE ParseTarget  BY <1>1, <1>4, Marking
<1>5. cmds' = cmds \/ Visit \/ ParseTarget  BY DEF Next, Start, Up, Return, vars
<1> QED  BY <1>2, <1>3, <1>4, <1>5

\* A command once emitted keeps its place, its words and its mark, whatever its own
\* targets and those of others turn out to be (bash_parser.go:176-187).
THEOREM MarksAreKept == Spec => MarksStay
<1> QED  BY NestInvInit, NestInvStep, MarksStayStep, PTL DEF Spec, MarksStay

--------------------------------------------------------------------------------
(* Marks are where something was not inspected. *)

\* A target of cmds[k] that will mark it once it is parsed.
Pending(k) == \E n \in DOMAIN levels : levels[n].owner = k /\ \E t \in Range(levels[n].targets) : Broken(t)

\* Between the visit of a call and the last of its targets the mark may still be owed.
MarkOK(k) ==
  /\ cmds[k].inspectionFailed => Unseen(cmds[k].words, cmds[k].depth)
  /\ Unseen(cmds[k].words, cmds[k].depth) => cmds[k].inspectionFailed \/ Pending(k)

\* The targets of a level are some of its owner's, and it is within the depth limit.
TargetsOK(n) ==
  /\ Sequential(levels[n].targets)
  /\ n - 1 <= maxDepth
  /\ Range(levels[n].targets) \subseteq
       IF n = 1 THEN {} ELSE TargetsOf(cmds[levels[n].owner].words)

MarkInv ==
  /\ parser \in Parsers
  /\ \A k \in DOMAIN cmds : MarkOK(k)
  /\ \A n \in DOMAIN levels : TargetsOK(n)

\* The texts that are kept are a sequence, whatever they are.
LEMMA NonEmptyIsSequential ==
  ASSUME NEW texts, Sequential(texts)
  PROVE  Sequential(nonEmpty(texts))
<1> DEFINE kept == {n \in DOMAIN texts : texts[n] \notin {<< >>, <<EmptyWord>>}}
           nth(n) == CHOOSE m \in kept : Cardinality({j \in kept : j <= m}) = n
           N == Cardinality(kept)
           result == [n \in 1 .. N |-> texts[nth(n)]]
<1>1. Len(texts) \in Nat /\ kept \subseteq 1 .. Len(texts)  BY SequentialLen
<1>2. IsFiniteSet(kept)
  <2>1. IsFiniteSet(1 .. Len(texts))  BY <1>1, FS_Interval
  <2> HIDE DEF kept
  <2> QED  BY <1>1, <2>1, FS_Subset
<1> HIDE DEF kept
<1>3. N \in Nat  BY <1>2, FS_CardinalityType
<1> HIDE DEF N, nth
<1>4. result \in Seq({texts[nth(n)] : n \in 1 .. N})  BY <1>3
<1>5. Sequential(result)  BY <1>4, SequentialOf
<1>6. nonEmpty(texts) = result
  <2> DEFINE select(t) == AtPlaces(t, {n \in DOMAIN t : t[n] \notin {<< >>, <<EmptyWord>>}})
  <2>1. nonEmpty(texts) = [t \in {texts} |-> select(t)][texts]  BY DEF nonEmpty
  <2>2. select(texts) = result  BY DEF kept, N, nth, AtPlaces
  <2> HIDE DEF select
  <2> QED  BY <2>1, <2>2
<1> QED  BY <1>5, <1>6

\* What a wrapper's targets are, is a list, and there is one list at most.
LEMMA OneList ==
  ASSUME parser \in Parsers, NEW call
  PROVE  /\ \A x \in Extractions(call) : Sequential(x.targets)
         /\ \A x, y \in Extractions(call) : x = y
<1>1. \A s, t \in recurseOf(call[1]) : s = t  BY ParsersAssumption DEF recurseOf
<1>2. \A s \in recurseOf(call[1]) : Sequential(s.flags)
  BY ParsersAssumption DEF recurseOf, Sequential
<1>3. ASSUME NEW s \in recurseOf(call[1]), NEW flags
      PROVE  Sequential(extractRecursionTargets(call, s, flags).targets)
  <2> DEFINE looked == [n \in DOMAIN s.flags |-> lookupFlag(call, s.flags[n])]
             verb == extractSubcommandTarget(call, flags, s.subcommands)
             a == [n \in DOMAIN looked |-> <<looked[n].value>>]
             b1 == IF s.terminator THEN terminatorTail(call) ELSE << >>
             b2 == subcommandTail(call, verb)
             S == {a[n] : n \in DOMAIN s.flags} \cup {b1, b2}
  <2>1. Len(s.flags) \in Nat /\ DOMAIN s.flags = 1 .. Len(s.flags)  BY <1>2, SequentialLen
  <2>2. a \in Seq(S)
    <3>1. a \in [1 .. Len(s.flags) -> S]  BY <2>1
    <3> HIDE DEF a, S
    <3> QED  BY <2>1, <3>1
  <2>3. <<b1, b2>> \in Seq(S)
    <3>1. b1 \in S /\ b2 \in S  OBVIOUS
    <3> HIDE DEF b1, b2, S
    <3> QED  BY <3>1
  <2> HIDE DEF S
  <2>4. Sequential(a \o <<b1, b2>>)
    <3> HIDE DEF a, b1, b2
    <3>1. a \o <<b1, b2>> \in Seq(S)  BY <2>2, <2>3, ConcatProperties
    <3> QED  BY <3>1, SequentialOf
  <2>5. extractRecursionTargets(call, s, flags).targets = nonEmpty(a \o <<b1, b2>>)
    BY DEF extractRecursionTargets
  <2> HIDE DEF a, b1, b2
  <2> QED  BY <2>4, <2>5, NonEmptyIsSequential
<1> QED  BY <1>1, <1>3 DEF Extractions

\* A wrapper has targets exactly when one is found.
LEMMA FoundIs ==
  ASSUME parser \in Parsers, NEW call
  PROVE  /\ Found(call) # {} <=> TargetsOf(call) # {}
         /\ Found(call) # {} =>
              LET targets == CHOOSE t \in Found(call) : TRUE
              IN  Sequential(targets) /\ Range(targets) = TargetsOf(call)
<1>1. \A s : Sequential(s) => (s # << >> <=> Range(s) # {})
  <2>1. SUFFICES ASSUME NEW s, Sequential(s) PROVE s # << >> <=> Range(s) # {}  OBVIOUS
  <2>2. s # << >> => Range(s) # {}  BY <2>1, SequentialLen DEF Range
  <2>3. s = << >> => Range(s) = {}  BY EmptyIsSequential DEF Range
  <2> QED  BY <2>2, <2>3
<1>2. \A x \in Extractions(call) : Sequential(x.targets)  BY OneList
<1>3. \A x, y \in Extractions(call) : x = y  BY OneList
<1>4. \A t \in Found(call) : Sequential(t) /\ Range(t) = TargetsOf(call)
  BY <1>2, <1>3 DEF Found, TargetsOf
<1>5. Found(call) # {} <=> TargetsOf(call) # {}
  <2>1. Found(call) # {} => TargetsOf(call) # {}
    BY <1>1, <1>2 DEF Found, TargetsOf
  <2>2. TargetsOf(call) # {} => Found(call) # {}
    BY <1>1, <1>2 DEF Found, TargetsOf
  <2> QED  BY <2>1, <2>2
<1> QED  BY <1>4, <1>5

\* All that is said of a call depends on the parser alone.
LEMMA SameParser ==
  ASSUME parser' = parser
  PROVE  /\ maxDepth' = maxDepth
         /\ \A w : TargetsOf(w)' = TargetsOf(w)
         /\ \A w, d : Unseen(w, d)' <=> Unseen(w, d)
BY DEF maxDepth, TargetsOf, Extractions, Unseen, resolveValueTaking, CliFlags, Named, recurseOf

LEMMA MarkInvInit == Init => MarkInv
BY EmptyIsSequential DEF Init, MarkInv

LEMMA StartMarks == NestInv /\ MarkInv /\ Start => MarkInv'
<1> SUFFICES ASSUME NestInv, MarkInv, Start PROVE MarkInv'  OBVIOUS
<1>1. levels = << >> /\ cmds' = cmds /\ parser' = parser  BY DEF NestInv, Start
<1>2. DOMAIN levels = {}  BY <1>1, EmptyIsSequential
<1>3. \A k \in DOMAIN cmds : MarkOK(k)'
  <2>1. SUFFICES ASSUME NEW k \in DOMAIN cmds PROVE MarkOK(k)'  OBVIOUS
  <2>2. MarkOK(k) /\ ~Pending(k)  BY <1>2 DEF MarkInv, Pending
  <2>3. cmds[k].inspectionFailed <=> Unseen(cmds[k].words, cmds[k].depth)  BY <2>2 DEF MarkOK
  <2> QED  BY <1>1, <2>3, SameParser DEF MarkOK
<1>4. \A n \in DOMAIN levels' : TargetsOK(n)'
  <2>1. CASE line = NotShell  BY <1>1, <1>2, <2>1 DEF Start
  <2>2. CASE line # NotShell
    <3>1. levels' = <<Level(<< >>, line, 0, 0)>>  BY <2>2 DEF Start
    <3>2. DOMAIN levels' = {1} /\ levels'[1].targets = << >>  BY <3>1 DEF Level
    <3>3. 0 <= maxDepth /\ maxDepth' = maxDepth
      BY <1>1, ParsersAssumption, SameParser DEF MarkInv, maxDepth
    <3>4. Range(<< >>) = {}  BY EmptyIsSequential DEF Range
    <3> QED  BY <3>2, <3>3, <3>4, EmptyIsSequential DEF TargetsOK
  <2> QED  BY <2>1, <2>2
<1> QED  BY <1>1, <1>3, <1>4 DEF MarkInv

LEMMA ParseTargetMarks == NestInv /\ MarkInv /\ ParseTarget => MarkInv'
<1> SUFFICES ASSUME NestInv, MarkInv, ParseTarget PROVE MarkInv'  OBVIOUS
<1> DEFINE L == Len(levels)
           o == Top.owner
           target == Head(Top.targets)
<1>1. /\ levels # << >> /\ Top.targets # << >> /\ o \in DOMAIN cmds
      /\ DOMAIN cmds' = DOMAIN cmds
      /\ \A k \in DOMAIN cmds :
           /\ cmds'[k].words = cmds[k].words /\ cmds'[k].depth = cmds[k].depth
           /\ cmds'[k].inspectionFailed <=> cmds[k].inspectionFailed \/ (k = o /\ Broken(target))
      /\ DOMAIN levels' = DOMAIN levels
      /\ \A n \in 1 .. L - 1 : levels'[n] = levels[n]
      /\ levels'[L].targets = Tail(Top.targets) /\ levels'[L].owner = o
  <2>1. levels'[L] = [targets |-> Tail(Top.targets), calls |-> levels'[L].calls,
                     depth |-> Top.depth, owner |-> o]
    BY Marking
  <2>2. levels'[L].targets = Tail(Top.targets) /\ levels'[L].owner = o
    <3>1. PICK level, t, cs, d : level = levels'[L] /\ t = Tail(Top.targets)
            /\ level = [targets |-> t, calls |-> cs, depth |-> d, owner |-> o]
      BY <2>1
    <3>2. level.targets = t /\ level.owner = o  BY <3>1
    <3> QED  BY <3>1, <3>2
  <2> QED  BY <2>2, Marking
<1>2. L \in Nat /\ L # 0 /\ L # 1 /\ DOMAIN levels = 1 .. L /\ Top = levels[L] /\ L \in DOMAIN levels
  BY <1>1, TopIs
<1>3. \A n \in DOMAIN levels : n # L => n \in 1 .. L - 1  BY <1>2
<1>4. parser' = parser  BY DEF ParseTarget
<1>5. TargetsOK(L) /\ LevelOK(L)  BY <1>2 DEF MarkInv, NestInv
<1>6. /\ Sequential(Tail(Top.targets)) /\ Range(Tail(Top.targets)) \subseteq Range(Top.targets)
      /\ target \in Range(Top.targets)
      /\ \A t \in Range(Top.targets) : t = target \/ t \in Range(Tail(Top.targets))
  BY <1>1, <1>2, <1>5, Tailed DEF TargetsOK
<1>7. target \in TargetsOf(cmds[o].words)  BY <1>2, <1>5, <1>6 DEF TargetsOK
<1> HIDE DEF L, o, target
<1>8. ASSUME NEW k \in DOMAIN cmds PROVE MarkOK(k)'
  <2>1. MarkOK(k)  BY DEF MarkInv
  <2>2. cmds'[k].inspectionFailed => Unseen(cmds[k].words, cmds[k].depth)
    BY <1>1, <1>7, <2>1 DEF MarkOK, Unseen
  <2>3. Pending(k) => cmds'[k].inspectionFailed \/ Pending(k)'
    <3>1. SUFFICES ASSUME NEW n \in DOMAIN levels, levels[n].owner = k,
                          NEW t \in Range(levels[n].targets), Broken(t)
                   PROVE  cmds'[k].inspectionFailed \/ Pending(k)'
      BY DEF Pending
    <3>2. Broken(t)'  BY <3>1 DEF Broken
    <3>3. CASE n # L
      <4>1. levels'[n] = levels[n]  BY <1>1, <1>3, <3>3
      <4> QED  BY <1>1, <3>1, <3>2, <4>1 DEF Pending
    <3>4. CASE n = L /\ t = target
      <4>1. k = o  BY <1>2, <3>1, <3>4 DEF o
      <4> QED  BY <1>1, <3>1, <3>4, <4>1
    <3>5. CASE n = L /\ t # target
      <4>1. k = o /\ t \in Range(levels'[L].targets)  BY <1>1, <1>2, <1>6, <3>1, <3>5 DEF o
      <4> QED  BY <1>1, <1>2, <3>2, <4>1 DEF Pending
    <3> QED  BY <3>3, <3>4, <3>5
  <2>4. Unseen(cmds[k].words, cmds[k].depth) => cmds'[k].inspectionFailed \/ Pending(k)'
    BY <1>1, <2>1, <2>3 DEF MarkOK
  <2>5. \A w, d : Unseen(w, d)' <=> Unseen(w, d)  BY <1>4, SameParser
  <2> QED  BY <1>1, <2>2, <2>4, <2>5 DEF MarkOK
<1>9. ASSUME NEW n \in DOMAIN levels PROVE TargetsOK(n)'
  <2>1. TargetsOK(n) /\ LevelOK(n)  BY DEF MarkInv, NestInv
  <2>2. Sequential(levels'[n].targets) /\ Range(levels'[n].targets) \subseteq Range(levels[n].targets)
        /\ levels'[n].owner = levels[n].owner
    <3>1. CASE n = L  BY <1>1, <1>2, <1>6, <3>1 DEF o
    <3>2. CASE n # L
      <4>1. levels'[n] = levels[n]  BY <1>1, <1>3, <3>2
      <4> QED  BY <2>1, <4>1 DEF TargetsOK
    <3> QED  BY <3>1, <3>2
  <2>3. n # 1 => levels[n].owner \in DOMAIN cmds
    <3>1. Len(cmds) \in Nat /\ DOMAIN cmds = 1 .. Len(cmds)  BY SequentialLen DEF NestInv
    <3> QED  BY <2>1, <3>1 DEF LevelOK
  <2>4. n # 1 => cmds'[levels'[n].owner].words = cmds[levels[n].owner].words  BY <1>1, <2>2, <2>3
  <2>5. maxDepth' = maxDepth /\ \A w : TargetsOf(w)' = TargetsOf(w)  BY <1>4, SameParser
  <2> QED  BY <2>1, <2>2, <2>4, <2>5 DEF TargetsOK
<1> QED  BY <1>1, <1>4, <1>8, <1>9 DEF MarkInv

LEMMA UpMarks == NestInv /\ MarkInv /\ Up => MarkInv'
<1> SUFFICES ASSUME NestInv, MarkInv, Up PROVE MarkInv'  OBVIOUS
<1>1. levels # << >> /\ cmds' = cmds /\ parser' = parser /\ levels' = Front(levels)
      /\ Top.targets = << >>
  BY DEF Up
<1>2. /\ DOMAIN levels' = 1 .. Len(levels) - 1
      /\ \A n \in 1 .. Len(levels) - 1 : levels'[n] = levels[n]
  BY <1>1, Popped DEF NestInv
<1>3. Len(levels) \in Nat /\ DOMAIN levels = 1 .. Len(levels) /\ Top = levels[Len(levels)]
  BY <1>1, TopIs
<1>4. \A k : Pending(k) => Pending(k)'
  <2>1. SUFFICES ASSUME NEW n \in DOMAIN levels, NEW t \in Range(levels[n].targets), Broken(t)
                 PROVE  n \in DOMAIN levels' /\ levels'[n] = levels[n] /\ Broken(t)'
    BY DEF Pending
  <2>2. Range(<< >>) = {}  BY EmptyIsSequential DEF Range
  <2>3. n # Len(levels)  BY <1>1, <1>3, <2>2
  <2> QED  BY <1>2, <1>3, <2>1, <2>3 DEF Broken
<1>5. maxDepth' = maxDepth /\ \A w : TargetsOf(w)' = TargetsOf(w)  BY <1>1, SameParser
<1>6. \A w, d : Unseen(w, d)' <=> Unseen(w, d)  BY <1>1, SameParser
<1>7. \A k \in DOMAIN cmds : MarkOK(k)'  BY <1>1, <1>4, <1>6 DEF MarkInv, MarkOK
<1>8. ASSUME NEW n \in DOMAIN levels' PROVE TargetsOK(n)'
  <2>1. n \in DOMAIN levels /\ levels'[n] = levels[n]  BY <1>2, <1>3
  <2>2. TargetsOK(n)  BY <2>1 DEF MarkInv
  <2> QED  BY <1>1, <1>5, <2>1, <2>2 DEF TargetsOK
<1> QED  BY <1>1, <1>7, <1>8 DEF MarkInv

LEMMA VisitMarks == NestInv /\ MarkInv /\ Visit => MarkInv'
<1> SUFFICES ASSUME NestInv, MarkInv, Visit PROVE MarkInv'  OBVIOUS
<1>1. PICK call, c, u :
           /\ levels # << >>
           /\ c = [words |-> call, depth |-> Top.depth, owner |-> Top.owner,
                   inspectionFailed |-> \/ ~Normalize(call, resolveValueTaking(call[1])).ok
                                        \/ \E x \in Extractions(call) : x.failed
                                        \/ Found(call) # {} /\ Top.depth + 1 > maxDepth]
           /\ cmds' = Append(cmds, c)
           /\ Sequential(u) /\ Len(u) = Len(levels) /\ DOMAIN u = DOMAIN levels
           /\ \A n \in 1 .. Len(levels) - 1 : u[n] = levels[n]
           /\ u[Len(levels)] \in [targets : {Top.targets}, calls : {u[Len(levels)].calls},
                                  depth : {Top.depth}, owner : {Top.owner}]
           /\ IF Found(call) = {} \/ Top.depth + 1 > maxDepth THEN levels' = u
              ELSE levels' = Append(u, Opened(call))
  BY Visiting
<1> DEFINE K == Len(cmds)
           L == Len(levels)
           T == CHOOSE t \in Found(call) : TRUE
           tooDeep == Top.depth + 1 > maxDepth
<1>2. /\ L \in Nat /\ L # 0 /\ DOMAIN levels = 1 .. L /\ L \in DOMAIN levels /\ Top = levels[L]
      /\ Top.depth = L - 1 /\ K \in Nat /\ DOMAIN cmds = 1 .. K
  BY <1>1, TopIs, SequentialLen DEF NestInv, LevelOK
<1>3. /\ DOMAIN cmds' = 1 .. K + 1 /\ cmds'[K + 1] = c /\ \A k \in 1 .. K : cmds'[k] = cmds[k]
  BY <1>1, Appended DEF NestInv
<1>4. \A n \in DOMAIN levels : u[n].targets = levels[n].targets /\ u[n].owner = levels[n].owner
  <2>1. \A n \in DOMAIN levels : n = L \/ n \in 1 .. L - 1  BY <1>2
  <2>2. u[L].targets = levels[L].targets /\ u[L].owner = levels[L].owner  BY <1>1, <1>2
  <2> QED  BY <1>1, <2>1, <2>2
<1>5. /\ \A n \in DOMAIN levels :
           /\ n \in DOMAIN levels'
           /\ levels'[n].targets = levels[n].targets /\ levels'[n].owner = levels[n].owner
      /\ \A n \in DOMAIN levels' :
           \/ n \in DOMAIN levels
           \/ n = L + 1 /\ Found(call) # {} /\ ~tooDeep
      /\ Found(call) # {} /\ ~tooDeep =>
           L + 1 \in DOMAIN levels' /\ levels'[L + 1].targets = T /\ levels'[L + 1].owner = K + 1
  <2>1. CASE Found(call) = {} \/ tooDeep  BY <1>1, <1>4, <2>1
  <2>2. CASE ~(Found(call) = {} \/ tooDeep)
    <3>1. levels' = Append(u, Opened(call))  BY <1>1, <2>2
    <3>2. Opened(call).targets = T /\ Opened(call).owner = K + 1  BY DEF Opened, Level
    <3> HIDE DEF T
    <3>3. /\ DOMAIN levels' = 1 .. L + 1 /\ \A n \in 1 .. L : levels'[n] = u[n]
          /\ levels'[L + 1] = Opened(call)
      <4>1. PICK x : x = Opened(call)  OBVIOUS
      <4>2. levels' = Append(u, x)  BY <3>1, <4>1
      <4>3. Sequential(u) /\ Len(u) = L  BY <1>1
      <4> HIDE DEF L
      <4>4. /\ DOMAIN levels' = 1 .. L + 1 /\ \A n \in 1 .. L : levels'[n] = u[n]
            /\ levels'[L + 1] = x
        BY <4>2, <4>3, Appended
      <4> QED  BY <4>1, <4>4
    <3>4. \A n \in 1 .. L + 1 : n \in 1 .. L \/ n = L + 1  BY <1>2
    <3>5. L + 1 \in 1 .. L + 1 /\ \A n \in 1 .. L : n \in 1 .. L + 1  BY <1>2
    <3> QED  BY <1>2, <1>4, <2>2, <3>2, <3>3, <3>4, <3>5
  <2> QED  BY <2>1, <2>2
<1>6. parser' = parser /\ parser \in Parsers  BY DEF Visit, MarkInv
<1>7. maxDepth' = maxDepth /\ \A w : TargetsOf(w)' = TargetsOf(w)  BY <1>6, SameParser
<1>8. \A w, d : Unseen(w, d)' <=> Unseen(w, d)  BY <1>6, SameParser
<1>9. /\ Found(call) # {} <=> TargetsOf(call) # {}
      /\ Found(call) # {} => Sequential(T) /\ Range(T) = TargetsOf(call)
  BY <1>6, FoundIs
<1>10. maxDepth \in Int  BY <1>6, ParsersAssumption DEF maxDepth
<1>11. L - 1 <= maxDepth  BY <1>2 DEF MarkInv, TargetsOK
<1>12. tooDeep <=> Top.depth = maxDepth
  <2>1. Top.depth \in Int /\ Top.depth <= maxDepth  BY <1>2, <1>11
  <2>2. \A a, b \in Int : a <= b => (a + 1 > b <=> a = b)  OBVIOUS
  <2> QED  BY <1>10, <2>1, <2>2
<1>13. c.words = call /\ c.depth = Top.depth
  <2>1. PICK f : c = [words |-> call, depth |-> Top.depth, owner |-> Top.owner, inspectionFailed |-> f]
    BY <1>1
  <2> QED  BY <2>1
<1>14. c.inspectionFailed <=> \/ ~Normalize(call, resolveValueTaking(call[1])).ok
                              \/ \E x \in Extractions(call) : x.failed
                              \/ Found(call) # {} /\ tooDeep
  <2>1. PICK f \in BOOLEAN : f = (\/ ~Normalize(call, resolveValueTaking(call[1])).ok
                                  \/ \E x \in Extractions(call) : x.failed
                                  \/ Found(call) # {} /\ tooDeep)
    OBVIOUS
  <2>2. c = [words |-> call, depth |-> Top.depth, owner |-> Top.owner, inspectionFailed |-> f]
    BY <1>1, <2>1
  <2>3. c.inspectionFailed = f  BY <2>2
  <2> QED  BY <2>1, <2>3
<1> HIDE DEF K, L, T, tooDeep
<1>15. ASSUME NEW k \in 1 .. K PROVE MarkOK(k)'
  <2>1. MarkOK(k)  BY <1>2 DEF MarkInv
  <2>2. cmds'[k] = cmds[k]  BY <1>3
  <2>3. Pending(k) => Pending(k)'
    <3>1. SUFFICES ASSUME NEW n \in DOMAIN levels, levels[n].owner = k,
                          NEW t \in Range(levels[n].targets), Broken(t)
                   PROVE  Pending(k)'
      BY DEF Pending
    <3>2. Broken(t)'  BY <3>1 DEF Broken
    <3> QED  BY <1>5, <3>1, <3>2 DEF Pending
  <2> QED  BY <1>8, <2>1, <2>2, <2>3 DEF MarkOK
<1>16. ASSUME NEW k, k = K + 1 PROVE MarkOK(k)'
  <2>1. cmds'[k] = c  BY <1>3, <1>16
  <2>2. c.inspectionFailed => Unseen(call, Top.depth)
    BY <1>9, <1>12, <1>14 DEF Unseen
  <2>3. Unseen(call, Top.depth) => c.inspectionFailed \/ Pending(k)'
    <3>1. SUFFICES ASSUME NEW t \in TargetsOf(call), Broken(t), ~tooDeep PROVE Pending(k)'
      BY <1>9, <1>12, <1>14 DEF Unseen
    <3>2. Found(call) # {}  BY <1>9, <3>1
    <3>3. Broken(t)'  BY <3>1 DEF Broken
    <3>4. t \in Range(levels'[L + 1].targets)  BY <1>5, <1>9, <3>1, <3>2
    <3> QED  BY <1>5, <1>16, <3>1, <3>2, <3>3, <3>4 DEF Pending
  <2> QED  BY <1>8, <1>13, <2>1, <2>2, <2>3 DEF MarkOK
<1>17. ASSUME NEW n \in DOMAIN levels PROVE TargetsOK(n)'
  <2>1. TargetsOK(n) /\ LevelOK(n)  BY DEF MarkInv, NestInv
  <2>2. levels'[n].targets = levels[n].targets /\ levels'[n].owner = levels[n].owner  BY <1>5
  <2>3. n # 1 => cmds'[levels[n].owner] = cmds[levels[n].owner]
    BY <1>2, <1>3, <2>1 DEF LevelOK, K
  <2> QED  BY <1>7, <2>1, <2>2, <2>3 DEF TargetsOK
<1>18. ASSUME NEW n, n = L + 1, Found(call) # {}, ~tooDeep PROVE TargetsOK(n)'
  <2>1. n # 1 /\ n - 1 <= maxDepth  BY <1>2, <1>10, <1>18 DEF tooDeep
  <2>2. levels'[n].targets = T /\ levels'[n].owner = K + 1  BY <1>5, <1>18
  <2>3. cmds'[levels'[n].owner].words = call  BY <1>3, <1>13, <2>2
  <2> QED  BY <1>7, <1>9, <1>18, <2>1, <2>2, <2>3 DEF TargetsOK
<1>19. \A k \in DOMAIN cmds' : MarkOK(k)'
  <2>1. \A k \in 1 .. K + 1 : k \in 1 .. K \/ k = K + 1  BY <1>2
  <2> QED  BY <1>3, <1>15, <1>16, <2>1
<1> QED  BY <1>5, <1>6, <1>17, <1>18, <1>19 DEF MarkInv

LEMMA MarkInvStep == NestInv /\ MarkInv /\ [Next]_vars => MarkInv'
<1> SUFFICES ASSUME NestInv, MarkInv, [Next]_vars PROVE MarkInv'  OBVIOUS
<1>1. CASE Return \/ UNCHANGED vars
  <2>1. levels' = levels /\ cmds' = cmds /\ parser' = parser  BY <1>1 DEF Return, vars
  <2>2. maxDepth' = maxDepth /\ \A w : TargetsOf(w)' = TargetsOf(w)  BY <2>1, SameParser
  <2>3. \A w, d : Unseen(w, d)' <=> Unseen(w, d)  BY <2>1, SameParser
  <2>4. \A k : Pending(k)' <=> Pending(k)  BY <2>1 DEF Pending, Broken
  <2> QED  BY <2>1, <2>2, <2>3, <2>4 DEF MarkInv, MarkOK, TargetsOK
<1> QED  BY <1>1, StartMarks, VisitMarks, ParseTargetMarks, UpMarks DEF Next

LEMMA MarkInvMarks == NestInv /\ MarkInv => MarkedWhenUnseen
<1> SUFFICES ASSUME NestInv, MarkInv, outcome = "parsed", NEW k \in DOMAIN cmds
             PROVE  cmds[k].inspectionFailed <=> Unseen(cmds[k].words, cmds[k].depth)
  BY DEF MarkedWhenUnseen, Unseen
<1>1. DOMAIN levels = {}  BY EmptyIsSequential DEF NestInv
<1>2. ~Pending(k)  BY <1>1 DEF Pending
<1> QED  BY <1>2 DEF MarkInv, MarkOK

\* Whatever the specs, the depth limit and the nesting of wrappers, a command of the
\* list is marked exactly when something in it went uninspected, and it is the wrapper
\* whose target was lost that is marked, at the level where the limit bites
\* (bash_parser.go:147-187).
THEOREM MarkedMeansUnseen == Spec => []MarkedWhenUnseen
<1>1. Init => NestInv /\ MarkInv  BY NestInvInit, MarkInvInit
<1>2. (NestInv /\ MarkInv) /\ [Next]_vars => (NestInv /\ MarkInv)'
  BY NestInvStep, MarkInvStep
<1> QED  BY <1>1, <1>2, MarkInvMarks, PTL DEF Spec

--------------------------------------------------------------------------------
(* The calls of a text *)

\* Lists, one after the other, are a list.
LEMMA Flattened ==
  ASSUME NEW S, NEW lists \in Seq(Seq(S))
  PROVE  FlattenSeq(lists) \in Seq(S)
<1> DEFINE n == Len(lists)
           body(f, i) == IF i = 1 THEN lists[i] ELSE f[i - 1] \o lists[i]
           flatten == CHOOSE f : f = [i \in 1 .. n |-> body(f, i)]
           T == Seq(S)
           D == 1 .. n
           H == [p \in [D -> T] \X D |-> body(p[1], p[2])]
           left == [i \in D |-> i]
<1>1. n \in Nat /\ \A i \in D : lists[i] \in T
  OBVIOUS
<1>2. FlattenSeq(lists) = IF n = 0 THEN lists ELSE flatten[n]
  BY Zenon DEF FlattenSeq
<1>3. CASE n = 0
  BY <1>2, <1>3
<1>4. CASE n # 0
  <2>1. ASSUME NEW f \in [D -> T], NEW i \in D PROVE body(f, i) \in T
    <3>1. CASE i = 1
      BY <1>1, <3>1
    <3>2. CASE i # 1
      <4>1. i - 1 \in D
        BY <1>1, <3>2
      <4>2. f[i - 1] \in T /\ lists[i] \in T
        BY <1>1, <4>1
      <4>3. f[i - 1] \o lists[i] \in Seq(S)
        BY <4>2, ConcatProperties
      <4> QED
        BY <3>2, <4>3
    <3> QED
      BY <3>1, <3>2
  <2>2. ASSUME NEW f, NEW g, NEW i \in D, \A j \in D : left[j] < left[i] => f[j] = g[j]
        PROVE  body(f, i) = body(g, i)
    <3>1. CASE i = 1
      BY <3>1
    <3>2. CASE i # 1
      <4>1. i - 1 \in D /\ left[i - 1] < left[i]
        BY <1>1, <3>2
      <4>2. f[i - 1] = g[i - 1]
        BY <2>2, <4>1
      <4> QED
        BY <3>2, <4>2
    <3> QED
      BY <3>1, <3>2
  <2>3. left \in [D -> 0 .. n] /\ \A i \in D : left[i] \in Nat
    BY <1>1
  <2> HIDE DEF body, left
  <2>4. \A f \in [D -> T], i \in D : H[<<f, i>>] = body(f, i)
    OBVIOUS
  <2>10. flatten = CHOOSE f : f = [i \in D |-> body(f, i)]
    OBVIOUS
  <2>9. n \in D
    BY <1>1, <1>4
  <2>11. T # {}
    BY <1>1, <1>4
  <2> HIDE DEF H, T, n, D, flatten
  <2>5. PICK f \in [D -> T] : \A i \in D : f[i] = H[<<f, i>>]
    <3>1. \A g \in [D -> T], i \in D : H[<<g, i>>] \in T
      BY <2>1, <2>4
    <3>2. \A g, h \in [D -> T], i \in D :
            (\A j \in D : left[j] < left[i] => g[j] = h[j]) => H[<<g, i>>] = H[<<h, i>>]
      BY <2>2, <2>4
    <3>3. IsRecursion(D, T, n, left, H)
      BY <1>1, <2>3, <3>1, <3>2, <2>11 DEF IsRecursion
    <3> QED
      BY <3>3, RecursionIsSound
  <2>6. f = [i \in D |-> body(f, i)]
    BY <2>4, <2>5
  <2>7. flatten = [i \in D |-> body(flatten, i)]
    BY <2>6, <2>10
  <2>8. \A i \in D : flatten[i] = f[i]
    <3>1. \A i \in D : flatten[i] = body(flatten, i) /\ f[i] = body(f, i)
      BY <2>6, <2>7
    <3>2. \A i \in D : (\A j \in D : left[j] < left[i] => flatten[j] = f[j]) => flatten[i] = f[i]
      BY <2>2, <3>1
    <3>3. AgreeStepwise(D, left, flatten, f)
      BY <2>3, <3>2 DEF AgreeStepwise
    <3> QED
      BY <3>3, RecursionIsUnique
  <2> QED
    BY <1>2, <1>4, <2>5, <2>8, <2>9 DEF T
<1> QED
  BY <1>3, <1>4

\* The calls of a text are calls.
Ends(tokens, i) == {e \in i .. Len(tokens) + 1 : e = Len(tokens) + 1 \/ tokens[e] = Separator}

LEMMA CallsTyped ==
  ASSUME NEW target \in Seq(Words)
  PROVE  Calls(target) \in Seq(Seq(Words))
<1> DEFINE tokens == FlattenSeq([i \in DOMAIN target |-> Tokens[target[i]]])
           n == Len(tokens)
           end(i) == CHOOSE e \in i .. n + 1 :
                       /\ e = n + 1 \/ tokens[e] = Separator
                       /\ \A j \in i .. e - 1 : tokens[j] # Separator
           body(f, i) == IF i > n THEN << >>
                         ELSE IF tokens[i] = Separator THEN f[i + 1]
                         ELSE <<SubSeq(tokens, i, end(i) - 1)>> \o f[end(i)]
           callsFrom == CHOOSE f : f = [i \in 1 .. n + 1 |-> body(f, i)]
           T == Seq(Seq(Words))
           D == 1 .. n + 1
           H == [p \in [D -> T] \X D |-> body(p[1], p[2])]
           left == [i \in D |-> n + 1 - i]
<1>1. Calls(target) = callsFrom[1]
  BY Zenon DEF Calls
<1>2. tokens \in Seq(Words) /\ n \in Nat
  <2> DEFINE lists == [i \in DOMAIN target |-> Tokens[target[i]]]
  <2>1. \A i \in 1 .. Len(target) : Tokens[target[i]] \in Seq(Words)
    BY ShapeAssumption
  <2>2. lists \in Seq(Seq(Words))
    BY <2>1
  <2> HIDE DEF lists
  <2>3. FlattenSeq(lists) \in Seq(Words)
    BY <2>2, Flattened
  <2> QED
    BY <2>3 DEF lists
<1> HIDE DEF tokens
<1>3. ASSUME NEW i \in D, i <= n, tokens[i] # Separator
      PROVE  /\ end(i) \in D /\ i < end(i)
             /\ SubSeq(tokens, i, end(i) - 1) \in Seq(Words)
  <2> DEFINE E == Ends(tokens, i)
  <2>1. E \in SUBSET Nat /\ E # {}
    <3>1. n + 1 \in E
      BY <1>2, <1>3 DEF Ends
    <3> QED
      BY <1>2, <3>1 DEF Ends
  <2>2. PICK e \in E : \A k \in E : e <= k
    <3> HIDE DEF E
    <3> QED
      BY <2>1, Least
  <2>3. e \in i .. n + 1 /\ (e = n + 1 \/ tokens[e] = Separator)
    BY <2>2 DEF Ends
  <2>4. \A j \in i .. e - 1 : tokens[j] # Separator
    <3> SUFFICES ASSUME NEW j \in i .. e - 1, tokens[j] = Separator PROVE FALSE
      OBVIOUS
    <3>1. j \in E /\ j < e
      BY <1>2, <2>3 DEF Ends
    <3> HIDE DEF E
    <3> QED
      BY <1>2, <2>2, <2>3, <3>1
  <2>5. end(i) \in i .. n + 1 /\ (end(i) = n + 1 \/ tokens[end(i)] = Separator)
    BY <2>3, <2>4
  <2> HIDE DEF end
  <2>6. end(i) \in D /\ i < end(i)
    BY <1>2, <1>3, <2>5
  <2>7. \A k \in i .. end(i) - 1 : tokens[k] \in Words
    BY <1>2, <2>6
  <2>8. SubSeq(tokens, i, end(i) - 1) \in Seq(Words)
    BY <1>2, <2>6, <2>7, SubSeqProperties
  <2> QED
    BY <2>6, <2>8
<1> HIDE DEF end
<1>4. ASSUME NEW f \in [D -> T], NEW i \in D PROVE body(f, i) \in T
  <2>1. CASE i > n
    BY <2>1
  <2>2. CASE ~(i > n) /\ tokens[i] = Separator
    <3>1. i + 1 \in D
      BY <1>2, <2>2
    <3> QED
      BY <2>2, <3>1
  <2>3. CASE ~(i > n) /\ tokens[i] # Separator
    <3> DEFINE call == SubSeq(tokens, i, end(i) - 1)
               more == f[end(i)]
    <3>1. i <= n
      BY <1>2, <2>3
    <3>2. call \in Seq(Words) /\ more \in Seq(Seq(Words))
      BY <1>3, <2>3, <3>1
    <3> HIDE DEF call, more
    <3>3. <<call>> \in Seq(Seq(Words))
      BY <3>2
    <3>4. <<call>> \o more \in Seq(Seq(Words))
      BY <3>2, <3>3, ConcatProperties
    <3> QED
      BY <2>3, <3>4 DEF call, more
  <2> QED
    BY <2>1, <2>2, <2>3
<1>5. ASSUME NEW f, NEW g, NEW i \in D, \A j \in D : left[j] < left[i] => f[j] = g[j]
      PROVE  body(f, i) = body(g, i)
  <2>1. CASE i > n
    BY <2>1
  <2>2. CASE ~(i > n) /\ tokens[i] = Separator
    <3>1. i + 1 \in D /\ left[i + 1] < left[i]
      BY <1>2, <2>2
    <3> QED
      BY <1>5, <2>2, <3>1
  <2>3. CASE ~(i > n) /\ tokens[i] # Separator
    <3>1. end(i) \in D /\ i < end(i)
      BY <1>2, <1>3, <2>3
    <3>2. left[end(i)] < left[i]
      BY <1>2, <3>1
    <3> QED
      BY <1>5, <2>3, <3>1, <3>2
  <2> QED
    BY <2>1, <2>2, <2>3
<1>6. left \in [D -> 0 .. n] /\ \A i \in D : left[i] \in Nat
  BY <1>2
<1> HIDE DEF body, left
<1>7. \A f \in [D -> T], i \in D : H[<<f, i>>] = body(f, i)
  OBVIOUS
<1>8. 1 \in D /\ << >> \in T
  BY <1>2
<1>11. callsFrom = CHOOSE f : f = [i \in D |-> body(f, i)]
  OBVIOUS
<1> HIDE DEF H, T, n, D, callsFrom
<1>9. PICK f \in [D -> T] : \A i \in D : f[i] = H[<<f, i>>]
  <2>1. \A g \in [D -> T], i \in D : H[<<g, i>>] \in T
    BY <1>4, <1>7
  <2>2. \A g, h \in [D -> T], i \in D :
          (\A j \in D : left[j] < left[i] => g[j] = h[j]) => H[<<g, i>>] = H[<<h, i>>]
    BY <1>5, <1>7
  <2>3. IsRecursion(D, T, n, left, H)
    BY <1>2, <1>6, <1>8, <2>1, <2>2 DEF IsRecursion
  <2> QED
    BY <2>3, RecursionIsSound
<1>10. f = [i \in D |-> body(f, i)]
  BY <1>7, <1>9
<1>12. callsFrom = [i \in D |-> body(callsFrom, i)]
  BY <1>10, <1>11
<1>13. \A i \in D : callsFrom[i] = f[i]
  <2>1. \A i \in D : callsFrom[i] = body(callsFrom, i) /\ f[i] = body(f, i)
    BY <1>10, <1>12
  <2>2. \A i \in D : (\A j \in D : left[j] < left[i] => callsFrom[j] = f[j]) => callsFrom[i] = f[i]
    BY <1>5, <2>1
  <2>3. AgreeStepwise(D, left, callsFrom, f)
    BY <1>6, <2>2 DEF AgreeStepwise
  <2> QED
    BY <2>3, RecursionIsUnique
<1> QED
  BY <1>1, <1>8, <1>9, <1>13 DEF T

\* Each target is one of the texts, not an empty one.
LEMMA TextsKept ==
  ASSUME NEW texts, NEW m \in Nat, DOMAIN texts = 1 .. m, NEW t \in Range(nonEmpty(texts))
  PROVE  \E n \in 1 .. m : t = texts[n] /\ t # <<EmptyWord>>
<1>1. t \in ElementsOf(nonEmpty(texts))
  BY DEF ElementsOf, Range
<1> QED
  BY <1>1, TextsAreTargets

LEMMA FromPlace ==
  ASSUME NEW ws \in Seq(Words), NEW i \in Nat, i >= 1
  PROVE  Suffix(ws, i) \in Seq(Words)
<1>1. Len(ws) \in Nat /\ \A k \in i .. Len(ws) : ws[k] \in Words
  OBVIOUS
<1> QED
  BY <1>1, SubSeqProperties DEF Suffix

LEMMA LookupTyped ==
  ASSUME NEW ws \in Seq(Words), NEW key
  PROVE  lookupFlag(ws, key).value \in Words \cup {EmptyWord}
<1> DEFINE here == {i \in DOMAIN ws : isFlag(Shape[ws[i]], key)}
           i == CHOOSE i \in here : \A j \in here : i <= j
           value == IF Shape[ws[i]].eq THEN Shape[ws[i]].value
                    ELSE IF i < Len(ws) THEN ws[i + 1] ELSE EmptyWord
<1>1. lookupFlag(ws, key).value = IF here = {} THEN EmptyWord ELSE value
  BY DEF lookupFlag
<1>2. Len(ws) \in Nat /\ DOMAIN ws = 1 .. Len(ws) /\ \A k \in 1 .. Len(ws) : ws[k] \in Words
  OBVIOUS
<1>3. here \in SUBSET Nat /\ here \subseteq 1 .. Len(ws)
  BY <1>2
<1>4. CASE here = {}
  BY <1>1, <1>4
<1>5. CASE here # {}
  <2> HIDE DEF here
  <2>1. i \in here
    BY <1>3, <1>5, Least
  <2> HIDE DEF i
  <2>2. ws[i] \in Words /\ (i < Len(ws) => ws[i + 1] \in Words)
    BY <1>2, <1>3, <2>1
  <2>3. value \in Words \cup {EmptyWord}
    BY <2>2, ShapeAssumption
  <2> QED
    BY <1>1, <1>5, <2>3
<1> QED
  BY <1>4, <1>5

LEMMA TerminatorTailTyped ==
  ASSUME NEW ws \in Seq(Words)
  PROVE  terminatorTail(ws) \in Seq(Words)
<1> DEFINE stops == {i \in DOMAIN ws : Shape[ws[i]].kind = "terminator"}
           i == CHOOSE i \in stops : \A j \in stops : i <= j
<1>1. stops \in SUBSET Nat
  OBVIOUS
<1>2. terminatorTail(ws) = IF stops = {} THEN << >> ELSE Suffix(ws, 1 + i)
  BY DEF terminatorTail
<1> HIDE DEF stops
<1>3. CASE stops = {}
  BY <1>2, <1>3
<1>4. CASE stops # {}
  <2>1. i \in stops
    BY <1>1, <1>4, Least
  <2> HIDE DEF i
  <2>2. 1 + i \in Nat /\ 1 + i >= 1
    BY <1>1, <2>1
  <2> QED
    BY <1>2, <1>4, <2>2, FromPlace
<1> QED
  BY <1>3, <1>4

\* Where an inner command begins there is a word, or the end.
LEMMA StartLater ==
  ASSUME NEW ws, HasLength(ws), NEW vt
  PROVE  \A j \in 2 .. Len(ws) + 2 : findInnerStart(ws, j, vt) >= 1
<1> DEFINE n == Len(ws) + 1
<1>1. PICK starts : Starts(starts, ws, vt) /\ \A j \in Nat : findInnerStart(ws, j, vt) = starts[j]
  BY StartUnfolds
<1> DEFINE Good == {j \in 2 .. n + 1 : starts[j] >= 1}
<1>2. Len(ws) \in Nat /\ n \in Nat /\ n + 1 = Len(ws) + 2
  BY DEF HasLength
<1>3. ASSUME NEW i \in 2 .. n + 1, \A j \in 2 .. n + 1 : i < j => j \in Good
      PROVE  i \in Good
  <2>1. i \in Nat /\ starts[i] = IF i > Len(ws) THEN Len(ws) + 1
                      ELSE IF isFlagToken(ws[i]) THEN starts[consumeFlag(ws, i, vt)] ELSE i
    <3>1. i \in Nat
      BY <1>2
    <3> HIDE DEF n
    <3> QED
      BY <1>1, <3>1 DEF Starts
  <2>2. CASE i > Len(ws) \/ ~isFlagToken(ws[i])
    BY <1>2, <2>1, <2>2
  <2>3. CASE ~(i > Len(ws)) /\ isFlagToken(ws[i])
    <3>1. consumeFlag(ws, i, vt) \in {i + 1, i + 2}
      BY <2>1, Consumed
    <3>2. consumeFlag(ws, i, vt) \in 2 .. n + 1 /\ i < consumeFlag(ws, i, vt)
      BY <1>2, <2>1, <2>3, <3>1
    <3>3. starts[consumeFlag(ws, i, vt)] >= 1
      BY <1>3, <3>2
    <3> QED
      BY <2>1, <2>3, <3>3
  <2> QED
    BY <2>2, <2>3
<1>4. \A j \in 2 .. n + 1 : j \in Good
  <2> HIDE DEF Good, n
  <2>1. n \in Nat
    BY <1>2
  <2>2. \A i \in 2 .. n + 1 : (\A j \in 2 .. n + 1 : i < j => j \in Good) => i \in Good
    BY <1>3
  <2> QED
    BY <2>1, <2>2, FromTheEnd
<1>5. \A j \in 2 .. n + 1 : j \in Nat
  BY <1>2
<1> QED
  BY <1>1, <1>2, <1>4, <1>5

\* What a scan finds lies among the words.
LEMMA ScanLater ==
  ASSUME NEW ws, HasLength(ws), NEW vt, NEW subs, Skips(subs)
  PROVE  LET at == extractSubcommandTarget(ws, vt, subs) IN at.ok => at.start \in Nat /\ at.start >= 1
<1> DEFINE n == Len(ws) + 1
           fine(at) == at.ok => at.start >= 1
<1>1. PICK scan : Scans(scan, ws, vt, subs) /\ extractSubcommandTarget(ws, vt, subs) = scan[<<2, NoVerb>>]
  BY ScanUnfolds
<1> DEFINE Good == {i \in 2 .. n + 1 : \A k \in Int : fine(scan[<<i, k>>])}
<1>2. Len(ws) \in Nat /\ n \in Nat /\ n + 1 = Len(ws) + 2
  BY DEF HasLength
<1>3. ASSUME NEW i \in 2 .. n + 1, \A j \in 2 .. n + 1 : i < j => j \in Good
      PROVE  i \in Good
  <2> SUFFICES ASSUME NEW k \in Int PROVE fine(scan[<<i, k>>])
    OBVIOUS
  <2> DEFINE left == IF k = NoVerb THEN subs[ws[i]] ELSE k - 1
  <2>1. /\ i \in Nat
        /\ scan[<<i, k>>] =
             IF i > Len(ws) THEN IF k = NoVerb THEN NotFound ELSE TooShort
             ELSE IF Shape[ws[i]].kind = "terminator"
               THEN IF k = NoVerb THEN NotFound ELSE IF k = 0 THEN FoundAt(i) ELSE TooShort
             ELSE IF isFlagToken(ws[i]) THEN scan[<<consumeFlag(ws, i, vt), k>>]
             ELSE IF k = NoVerb /\ ws[i] \notin DOMAIN subs THEN NotFound
             ELSE IF left = 0 THEN FoundAt(findInnerStart(ws, i + 1, vt)) ELSE scan[<<i + 1, left>>]
    BY <1>1, <1>2 DEF Scans
  <2>2. fine(NotFound) /\ fine(TooShort) /\ fine(FoundAt(i))
    BY <1>2 DEF NotFound, TooShort, FoundAt
  <2>3. ~(i > Len(ws)) => fine(scan[<<consumeFlag(ws, i, vt), k>>])
    <3>1. consumeFlag(ws, i, vt) \in {i + 1, i + 2}
      BY <2>1, Consumed
    <3>2. ~(i > Len(ws)) => consumeFlag(ws, i, vt) \in 2 .. n + 1 /\ i < consumeFlag(ws, i, vt)
      BY <1>2, <2>1, <3>1
    <3> HIDE DEF fine, n
    <3> QED
      BY <1>3, <3>2
  <2>4. ~(i > Len(ws)) => /\ fine(FoundAt(findInnerStart(ws, i + 1, vt)))
                          /\ \A m \in Int : fine(scan[<<i + 1, m>>])
    <3> SUFFICES ASSUME ~(i > Len(ws))
                 PROVE  /\ fine(FoundAt(findInnerStart(ws, i + 1, vt)))
                        /\ \A m \in Int : fine(scan[<<i + 1, m>>])
      OBVIOUS
    <3>1. i + 1 \in 2 .. n + 1 /\ i < i + 1
      BY <1>2
    <3>2. findInnerStart(ws, i + 1, vt) >= 1
      BY <1>2, <3>1, StartLater
    <3>3. fine(FoundAt(findInnerStart(ws, i + 1, vt)))
      BY <3>2 DEF FoundAt
    <3> HIDE DEF fine, n
    <3> QED
      BY <1>3, <3>1, <3>3
  <2>5. ~(k = NoVerb /\ ws[i] \notin DOMAIN subs) => left \in Int
    BY DEF Skips
  <2> HIDE DEF fine, left, n
  <2> QED
    BY <2>1, <2>2, <2>3, <2>4, <2>5
<1>4. \A i \in 2 .. n + 1 : i \in Good
  <2> HIDE DEF Good, n
  <2>1. n \in Nat
    BY <1>2
  <2>2. \A i \in 2 .. n + 1 : (\A j \in 2 .. n + 1 : i < j => j \in Good) => i \in Good
    BY <1>3
  <2> QED
    BY <2>1, <2>2, FromTheEnd
<1>5. 2 \in 2 .. n + 1 /\ NoVerb \in Int /\ <<2, NoVerb>> \in ScanPlaces
  BY <1>2 DEF NoVerb, ScanPlaces
<1>6. scan[<<2, NoVerb>>] \in ScanResults
  BY <1>1, <1>5 DEF Scans
<1>7. scan[<<2, NoVerb>>].start \in Nat
  BY <1>6 DEF ScanResults
<1> QED
  BY <1>1, <1>4, <1>5, <1>7

LEMMA SubcommandTailTyped ==
  ASSUME NEW ws \in Seq(Words), NEW at, at.ok => at.start \in Nat /\ at.start >= 1
  PROVE  subcommandTail(ws, at) \in Seq(Words)
<1> DEFINE tail == Suffix(ws, at.start)
<1>1. subcommandTail(ws, at) = IF ~at.ok THEN << >>
        ELSE IF tail # << >> /\ Shape[tail[1]].kind = "terminator" THEN Tail(tail) ELSE tail
  BY DEF subcommandTail
<1>2. at.ok => tail \in Seq(Words)
  BY FromPlace
<1> HIDE DEF tail
<1>3. at.ok /\ tail # << >> => Tail(tail) \in Seq(Words)
  BY <1>2
<1> QED
  BY <1>1, <1>2, <1>3

\* The targets of a call are texts of known words.
LEMMA TargetsTyped ==
  ASSUME parser \in Parsers, NEW call \in Seq(Words), NEW t \in TargetsOf(call)
  PROVE  t \in Seq(Words)
<1> DEFINE flags == resolveValueTaking(call[1])
<1>1. PICK s \in recurseOf(call[1]) : t \in Range(extractRecursionTargets(call, s, flags).targets)
  BY DEF TargetsOf, Extractions
<1>2. s.flags \in Seq({s.flags[n] : n \in DOMAIN s.flags}) /\ Skips(s.subcommands)
  BY ParsersAssumption DEF recurseOf, Skips, Range
<1> HIDE DEF flags
<1> DEFINE texts == TextsOf(call, s, flags)
           m == Len(s.flags)
<1>3. /\ m \in Nat /\ DOMAIN texts = 1 .. m + 2
      /\ \A n \in 1 .. m : texts[n] = <<lookupFlag(call, s.flags[n]).value>>
      /\ texts[m + 1] = IF s.terminator THEN terminatorTail(call) ELSE << >>
      /\ texts[m + 2] = subcommandTail(call, extractSubcommandTarget(call, flags, s.subcommands))
  <2>1. Counted(texts, call, s, flags)
    BY <1>2, TextsCounted
  <2> HIDE DEF texts
  <2> QED
    BY <2>1 DEF Counted
<1>4. t \in Range(nonEmpty(texts))
  BY <1>1, Targets
<1> HIDE DEF texts, m
<1>5. PICK n \in 1 .. m + 2 : t = texts[n] /\ t # <<EmptyWord>>
  <2>1. m + 2 \in Nat
    BY <1>3
  <2> QED
    BY <1>3, <1>4, <2>1, TextsKept
<1>6. CASE n \in 1 .. m
  <2>1. t = <<lookupFlag(call, s.flags[n]).value>>
    BY <1>3, <1>5, <1>6
  <2>2. lookupFlag(call, s.flags[n]).value \in Words
    BY <1>5, <2>1, LookupTyped
  <2> QED
    BY <2>1, <2>2
<1>7. CASE n = m + 1
  <2>1. terminatorTail(call) \in Seq(Words)
    BY TerminatorTailTyped
  <2>2. t = IF s.terminator THEN terminatorTail(call) ELSE << >>
    BY <1>3, <1>5, <1>7
  <2>3. << >> \in Seq(Words)
    BY EmptySeq
  <2> QED
    BY <2>1, <2>2, <2>3
<1>8. CASE n = m + 2
  <2> DEFINE at == extractSubcommandTarget(call, flags, s.subcommands)
  <2>1. HasLength(call)
    BY DEF HasLength
  <2>2. at.ok => at.start \in Nat /\ at.start >= 1
    BY <1>2, <2>1, ScanLater
  <2> HIDE DEF at
  <2>3. subcommandTail(call, at) \in Seq(Words)
    BY <2>2, SubcommandTailTyped
  <2> QED
    BY <1>3, <1>5, <1>8, <2>3 DEF at
<1>9. n \in 1 .. m \/ n = m + 1 \/ n = m + 2
  BY <1>3
<1> QED
  BY <1>6, <1>7, <1>8, <1>9

--------------------------------------------------------------------------------
(* What a call deserves *)

\* What stands in a substitution nests less deep than the word it stands in, which is its
\* text: no word nests deeper than some h.
SubstitutionsNest == \E h, nesting : Nests(nesting, h)

\* A bound of the nesting of a call's words.
Bounds(nesting, h, call) == {m \in 0 .. h + 1 : \A v \in Elems(call) : nesting[v] < m}

height(nesting, h, call) ==
  CHOOSE m \in Bounds(nesting, h, call) : \A k \in Bounds(nesting, h, call) : m <= k

LEMMA HeightIs ==
  ASSUME NEW h, NEW nesting, Nests(nesting, h), NEW call \in Seq(Words)
  PROVE  /\ height(nesting, h, call) \in 0 .. h + 1
         /\ \A v \in Elems(call) : nesting[v] < height(nesting, h, call)
         /\ \A k \in Bounds(nesting, h, call) : height(nesting, h, call) <= k
<1> DEFINE B == Bounds(nesting, h, call)
<1>1. h \in Nat /\ \A v \in Elems(call) : nesting[v] \in 0 .. h
  BY DEF Nests, Elems
<1>2. h + 1 \in B
  BY <1>1 DEF Bounds
<1>3. B \in SUBSET Nat
  BY <1>1 DEF Bounds
<1>4. \E m \in B : \A k \in B : m <= k
  <2> HIDE DEF B
  <2> QED
    BY <1>2, <1>3, Least
<1>5. height(nesting, h, call) \in B /\ \A k \in B : height(nesting, h, call) <= k
  BY <1>4 DEF height
<1> QED
  BY <1>5 DEF Bounds

\* The calls in a call's words, one by one.
LEMMA SubstitutedTyped ==
  ASSUME NEW call \in Seq(Words)
  PROVE  /\ Substituted(call) \in Seq(Seq(Words))
         /\ \A n \in DOMAIN Substituted(call) :
              \E i \in DOMAIN call : Substituted(call)[n] \in Elems(Inside[call[i]])
<1> DEFINE lists == [i \in DOMAIN call |-> Inside[call[i]]]
           S == {c \in Seq(Words) : \E i \in DOMAIN call : c \in Elems(Inside[call[i]])}
<1>1. Len(call) \in Nat /\ DOMAIN call = 1 .. Len(call) /\ \A i \in DOMAIN call : call[i] \in Words
  OBVIOUS
<1>2. \A i \in DOMAIN call : Inside[call[i]] \in Seq(Seq(Words))
  BY <1>1, ShapeAssumption
<1>3. \A i \in DOMAIN call : Inside[call[i]] \in Seq(S)
  <2> SUFFICES ASSUME NEW i \in DOMAIN call PROVE Inside[call[i]] \in Seq(S)
    OBVIOUS
  <2> DEFINE inside == Inside[call[i]]
  <2>1. inside \in Seq(Seq(Words))
    BY <1>2
  <2>2. \A n \in 1 .. Len(inside) : inside[n] \in S
    BY <2>1 DEF Elems
  <2> HIDE DEF inside, S
  <2>3. inside \in Seq(S)
    <3>1. Len(inside) \in Nat /\ inside = [n \in 1 .. Len(inside) |-> inside[n]]
      BY <2>1, LenProperties
    <3>2. [n \in 1 .. Len(inside) |-> inside[n]] \in Seq(S)
      BY <2>2, <3>1
    <3> QED
      BY <3>1, <3>2
  <2> QED
    BY <2>3 DEF inside
<1>4. lists \in Seq(Seq(S))
  <2> HIDE DEF S
  <2> QED
    BY <1>1, <1>3
<1>5. Substituted(call) \in Seq(S)
  <2> HIDE DEF S, lists
  <2>1. FlattenSeq(lists) \in Seq(S)
    BY <1>4, Flattened
  <2> QED
    BY <2>1 DEF Substituted, lists
<1>6. \A n \in DOMAIN Substituted(call) : Substituted(call)[n] \in S
  <2> HIDE DEF S
  <2> QED
    BY <1>5
<1>7. Substituted(call) \in Seq(Seq(Words))
  <2>1. S \subseteq Seq(Words)
    OBVIOUS
  <2> HIDE DEF S
  <2> QED
    BY <1>5, <2>1, SeqMonotonic
<1> QED
  BY <1>6, <1>7

LEMMA SubstitutedLower ==
  ASSUME NEW h, NEW nesting, Nests(nesting, h), NEW call \in Seq(Words), NEW n \in DOMAIN Substituted(call)
  PROVE  height(nesting, h, Substituted(call)[n]) < height(nesting, h, call)
<1> DEFINE c == Substituted(call)[n]
<1>1. PICK i \in DOMAIN call : c \in Elems(Inside[call[i]])
  BY SubstitutedTyped
<1>2. c \in Seq(Words)
  BY SubstitutedTyped
<1> HIDE DEF c
<1>3. call[i] \in Words /\ call[i] \in Elems(call)
  BY DEF Elems
<1>4. nesting[call[i]] \in 0 .. h /\ h \in Nat
  BY <1>3 DEF Nests
<1>5. nesting[call[i]] \in Bounds(nesting, h, c)
  BY <1>1, <1>3, <1>4 DEF Nests, Bounds
<1>6. height(nesting, h, c) \in 0 .. h + 1 /\ height(nesting, h, c) <= nesting[call[i]]
  BY <1>2, <1>5, HeightIs
<1>7. height(nesting, h, call) \in 0 .. h + 1 /\ nesting[call[i]] < height(nesting, h, call)
  BY <1>3, HeightIs
<1> QED
  BY <1>4, <1>6, <1>7 DEF c

\* One level deeper counts more than any nesting.
LEMMA DeeperIsLess ==
  ASSUME NEW M \in Nat, NEW d \in 0 .. M, NEW h \in Nat, NEW a \in 0 .. h + 1, NEW b \in 0 .. h + 1
  PROVE  /\ (M - d) * (h + 2) + a \in 0 .. M * (h + 2) + (h + 1)
         /\ d < M => (M - (d + 1)) * (h + 2) + a < (M - d) * (h + 2) + b
         /\ a < b => (M - d) * (h + 2) + a < (M - d) * (h + 2) + b
<1>1. PICK x \in Nat : x = M - d
  OBVIOUS
<1>2. x * (h + 2) \in Nat /\ x * (h + 2) <= M * (h + 2)
  <2>1. PICK y \in Nat : M = x + y
    BY <1>1
  <2>2. M * (h + 2) = x * (h + 2) + y * (h + 2) /\ y * (h + 2) \in Nat /\ x * (h + 2) \in Nat
    BY <2>1
  <2> QED
    BY <2>2
<1>3. d < M => x * (h + 2) = (M - (d + 1)) * (h + 2) + (h + 2)
  <2> SUFFICES ASSUME d < M PROVE x * (h + 2) = (M - (d + 1)) * (h + 2) + (h + 2)
    OBVIOUS
  <2>1. PICK z \in Nat : z = M - (d + 1) /\ x = z + 1
    BY <1>1
  <2> QED
    BY <2>1
<1>4. (M - (d + 1)) * (h + 2) \in Int /\ M * (h + 2) \in Nat
  OBVIOUS
<1>5. PICK p \in Nat : p = (M - d) * (h + 2) /\ p <= M * (h + 2)
  BY <1>1, <1>2
<1>6. PICK q \in Int : q = (M - (d + 1)) * (h + 2) /\ (d < M => p = q + (h + 2))
  BY <1>1, <1>3, <1>4, <1>5
<1>7. PICK N \in Nat : N = M * (h + 2)
  BY <1>4
<1>8. p + a \in 0 .. N + (h + 1) /\ (d < M => q + a < p + b) /\ (a < b => p + a < p + b)
  BY <1>5, <1>6, <1>7
<1> QED
  BY <1>5, <1>6, <1>7, <1>8

LEMMA StrictestIs ==
  ASSUME NEW S \in SUBSET (1 .. 3)
  PROVE  /\ Strictest(S) \in 1 .. 3
         /\ \A k \in {2, 3} : Strictest(S) >= k <=> \E n \in S : n >= k
<1>1. CASE S = {}
  BY <1>1 DEF Strictest
<1>2. CASE S # {}
  <2>1. \E n \in S : \A k \in S : k <= n
    <3>1. CASE 3 \in S
      BY <3>1
    <3>2. CASE 3 \notin S /\ 2 \in S
      BY <3>2
    <3>3. CASE 3 \notin S /\ 2 \notin S
      <4>1. ASSUME NEW n \in S PROVE n = 1
        <5>1. n \in 1 .. 3 /\ n # 2 /\ n # 3
          BY <3>3
        <5> QED
          BY <5>1
      <4>2. PICK n \in S : TRUE
        BY <1>2
      <4>3. \A k \in S : k <= n
        BY <4>1, 1 <= 1
      <4> QED
        BY <4>3
    <3> QED
      BY <3>1, <3>2, <3>3
  <2>2. Strictest(S) \in S /\ \A k \in S : k <= Strictest(S)
    BY <1>2, <2>1 DEF Strictest
  <2>3. PICK m \in 1 .. 3 : m = Strictest(S) /\ m \in S /\ \A n \in S : n <= m
    BY <2>2
  <2>4. ASSUME NEW k \in {2, 3} PROVE m >= k <=> \E n \in S : n >= k
    <3>1. ASSUME NEW n \in S, n >= k PROVE m >= k
      <4>1. n \in 1 .. 3 /\ n <= m
        BY <2>3, <3>1
      <4> QED
        BY <3>1, <4>1
    <3> QED
      BY <2>3, <3>1
  <2> QED
    BY <2>3, <2>4
<1> QED
  BY <1>1, <1>2

LEMMA SaidIs ==
  ASSUME config \in Configs, NEW call
  PROVE  /\ Said(call) \in 1 .. 3
         /\ \A k \in {2, 3} : Said(call) >= k <=>
              \E r \in Elems(config.rules) :
                /\ appliesTo(r, "Bash")
                /\ "matched" \in evalRule(r, CommandOf(call, resolveValueTaking(call[1]), FALSE))
                /\ rank(r.action) >= k
<1> DEFINE cmd == CommandOf(call, resolveValueTaking(call[1]), FALSE)
           matching == {r \in Elems(config.rules) : appliesTo(r, "Bash") /\ "matched" \in evalRule(r, cmd)}
           S == {rank(r.action) : r \in matching}
<1>1. Said(call) = Strictest(S)
  BY DEF Said
<1>2. S \in SUBSET (1 .. 3)
  <2>1. \A r \in matching : r.action \in Decision
    BY ConfigsAssumption
  <2>2. \A d \in Decision : rank(d) \in 1 .. 3
    BY DEF rank, Decision
  <2> QED
    BY <2>1, <2>2
<1>3. \A k \in {2, 3} : (\E n \in S : n >= k) <=> \E r \in matching : rank(r.action) >= k
  OBVIOUS
<1> HIDE DEF S, matching
<1>4. Said(call) \in 1 .. 3 /\ \A k \in {2, 3} : Said(call) >= k <=> \E r \in matching : rank(r.action) >= k
  BY <1>1, <1>2, <1>3, StrictestIs
<1> QED
  BY <1>4 DEF matching

Later(f, calls, d) == {f[<<calls[n], d>>] : n \in DOMAIN calls}

Inner(f, call, depth) ==
  IF depth = maxDepth THEN {}
  ELSE UNION {Later(f, Calls(t), depth + 1) : t \in {t \in TargetsOf(call) : ~Broken(t)}}

\* What a call's rank is the strictest of.
Ranks(f, at) ==
  {Said(at[1])} \cup Inner(f, at[1], at[2]) \cup Later(f, Substituted(at[1]), at[2])
    \cup (IF Unseen(at[1], at[2]) THEN {rank("ask")} ELSE {})

Nestings == Seq(Words) \X (0 .. maxDepth)

LEMMA WorstBody == worst = CHOOSE f : f = [at \in Nestings |-> Strictest(Ranks(f, at))]
BY DEF worst, Nestings, Ranks, Inner, Later

LEMMA DepthLimit ==
  ASSUME parser \in Parsers
  PROVE  maxDepth \in Nat /\ maxDepth # 0
BY ParsersAssumption DEF maxDepth

LEMMA LaterIn ==
  ASSUME NEW T, NEW f \in [Nestings -> T], NEW calls \in Seq(Seq(Words)), NEW d \in 0 .. maxDepth
  PROVE  Later(f, calls, d) \in SUBSET T
<1>1. \A n \in DOMAIN calls : <<calls[n], d>> \in Nestings
  BY DEF Nestings
<1>2. \A n \in DOMAIN calls : f[<<calls[n], d>>] \in T
  BY <1>1
<1> QED
  BY <1>2 DEF Later

LEMMA InnerIn ==
  ASSUME parser \in Parsers, NEW T, NEW f \in [Nestings -> T], NEW call \in Seq(Words), NEW d \in 0 .. maxDepth
  PROVE  Inner(f, call, d) \in SUBSET T
<1>1. CASE d = maxDepth
  BY <1>1 DEF Inner
<1>2. CASE d # maxDepth
  <2>1. d + 1 \in 0 .. maxDepth
    BY <1>2, DepthLimit
  <2>2. ASSUME NEW t \in TargetsOf(call) PROVE Later(f, Calls(t), d + 1) \in SUBSET T
    <3>1. Calls(t) \in Seq(Seq(Words))
      BY TargetsTyped, CallsTyped
    <3> QED
      BY <2>1, <3>1, LaterIn
  <2> QED
    BY <1>2, <2>2 DEF Inner
<1> QED
  BY <1>1, <1>2

LEMMA RanksIn ==
  ASSUME parser \in Parsers, config \in Configs, NEW f \in [Nestings -> 1 .. 3], NEW at \in Nestings
  PROVE  Ranks(f, at) \in SUBSET (1 .. 3) /\ Strictest(Ranks(f, at)) \in 1 .. 3
<1>1. at[1] \in Seq(Words) /\ at[2] \in 0 .. maxDepth
  BY DEF Nestings
<1>2. Said(at[1]) \in 1 .. 3
  BY SaidIs
<1>3. Inner(f, at[1], at[2]) \in SUBSET (1 .. 3)
  BY <1>1, InnerIn
<1>4. Later(f, Substituted(at[1]), at[2]) \in SUBSET (1 .. 3)
  BY <1>1, SubstitutedTyped, LaterIn
<1>5. rank("ask") \in 1 .. 3
  BY DEF rank
<1>6. Ranks(f, at) \in SUBSET (1 .. 3)
  BY <1>2, <1>3, <1>4, <1>5 DEF Ranks
<1> QED
  BY <1>6, StrictestIs

\* How much of the line may still be below a call.
below(nesting, h) == [at \in Nestings |-> (maxDepth - at[2]) * (h + 2) + height(nesting, h, at[1])]

LEMMA BelowIs ==
  ASSUME parser \in Parsers, NEW h, NEW nesting, Nests(nesting, h), NEW at \in Nestings
  PROVE  /\ below(nesting, h)[at] \in 0 .. maxDepth * (h + 2) + (h + 1)
         /\ maxDepth * (h + 2) + (h + 1) \in Nat
         /\ at[2] # maxDepth => \A c \in Seq(Words) :
              <<c, at[2] + 1>> \in Nestings /\ below(nesting, h)[<<c, at[2] + 1>>] < below(nesting, h)[at]
         /\ \A n \in DOMAIN Substituted(at[1]) :
              /\ <<Substituted(at[1])[n], at[2]>> \in Nestings
              /\ below(nesting, h)[<<Substituted(at[1])[n], at[2]>>] < below(nesting, h)[at]
<1> DEFINE call == at[1]
           d == at[2]
           M == maxDepth
           high(c) == height(nesting, h, c)
           b == below(nesting, h)
<1>1. call \in Seq(Words) /\ d \in 0 .. M /\ M \in Nat /\ h \in Nat /\ at = <<call, d>>
  BY DepthLimit DEF Nestings, Nests
<1>2. \A c \in Seq(Words) : high(c) \in 0 .. h + 1
  BY HeightIs
<1>3. \A c \in Seq(Words), e \in 0 .. M : <<c, e>> \in Nestings /\ b[<<c, e>>] = (M - e) * (h + 2) + high(c)
  BY DEF Nestings, below
<1>4. b[at] = (M - d) * (h + 2) + high(call)
  BY <1>1, <1>3
<1> HIDE DEF b, call, d, M, high
<1>5. b[at] \in 0 .. M * (h + 2) + (h + 1)
  BY <1>1, <1>2, <1>4, DeeperIsLess
<1>6. M * (h + 2) + (h + 1) \in Nat
  BY <1>1
<1>7. ASSUME d # M, NEW c \in Seq(Words)
      PROVE  <<c, d + 1>> \in Nestings /\ b[<<c, d + 1>>] < b[at]
  <2>1. d + 1 \in 0 .. M /\ d < M
    BY <1>1, <1>7
  <2>2. b[<<c, d + 1>>] = (M - (d + 1)) * (h + 2) + high(c) /\ <<c, d + 1>> \in Nestings
    BY <1>3, <2>1
  <2>3. (M - (d + 1)) * (h + 2) + high(c) < (M - d) * (h + 2) + high(call)
    BY <1>1, <1>2, <2>1, DeeperIsLess
  <2> QED
    BY <1>4, <2>2, <2>3
<1>8. ASSUME NEW n \in DOMAIN Substituted(call)
      PROVE  <<Substituted(call)[n], d>> \in Nestings /\ b[<<Substituted(call)[n], d>>] < b[at]
  <2> DEFINE c == Substituted(call)[n]
  <2>1. c \in Seq(Words) /\ high(c) < high(call)
    BY <1>1, SubstitutedTyped, SubstitutedLower DEF high
  <2> HIDE DEF c
  <2>2. <<c, d>> \in Nestings /\ b[<<c, d>>] = (M - d) * (h + 2) + high(c)
    BY <1>1, <1>3, <2>1
  <2>3. (M - d) * (h + 2) + high(c) < (M - d) * (h + 2) + high(call)
    BY <1>1, <1>2, <2>1, DeeperIsLess
  <2> QED
    BY <1>4, <2>2, <2>3 DEF c
<1> QED
  BY <1>5, <1>6, <1>7, <1>8 DEF b, M, d, call

LEMMA RanksAgree ==
  ASSUME parser \in Parsers, NEW h, NEW nesting, Nests(nesting, h), NEW at \in Nestings, NEW f, NEW g,
         \A y \in Nestings : below(nesting, h)[y] < below(nesting, h)[at] => f[y] = g[y]
  PROVE  Ranks(f, at) = Ranks(g, at)
<1> DEFINE call == at[1]
           d == at[2]
<1>1. call \in Seq(Words)
  BY DEF Nestings
<1>2. \A n \in DOMAIN Substituted(call) : f[<<Substituted(call)[n], d>>] = g[<<Substituted(call)[n], d>>]
  BY BelowIs
<1>3. Later(f, Substituted(call), d) = Later(g, Substituted(call), d)
  BY <1>2 DEF Later
<1>4. ASSUME d # maxDepth, NEW t \in TargetsOf(call) PROVE Later(f, Calls(t), d + 1) = Later(g, Calls(t), d + 1)
  <2>1. Calls(t) \in Seq(Seq(Words))
    BY <1>1, TargetsTyped, CallsTyped
  <2>2. \A n \in DOMAIN Calls(t) : Calls(t)[n] \in Seq(Words)
    BY <2>1
  <2>3. \A n \in DOMAIN Calls(t) : f[<<Calls(t)[n], d + 1>>] = g[<<Calls(t)[n], d + 1>>]
    BY <1>4, <2>2, BelowIs
  <2> QED
    BY <2>3 DEF Later
<1>5. Inner(f, call, d) = Inner(g, call, d)
  BY <1>4 DEF Inner
<1> QED
  BY <1>3, <1>5 DEF Ranks

\* The recursion is one: below every call there is less to look at.
LEMMA WorstUnfolds ==
  ASSUME parser \in Parsers, config \in Configs, SubstitutionsNest
  PROVE  worst \in [Nestings -> 1 .. 3] /\ \A at \in Nestings : worst[at] = Strictest(Ranks(worst, at))
<1>1. PICK h, nesting : Nests(nesting, h)
  BY DEF SubstitutionsNest
<1> DEFINE T == 1 .. 3
           body(f, at) == Strictest(Ranks(f, at))
           left == below(nesting, h)
           N == maxDepth * (h + 2) + (h + 1)
           H == [p \in [Nestings -> T] \X Nestings |-> body(p[1], p[2])]
<1>2. \A f \in [Nestings -> T], at \in Nestings : body(f, at) \in T
  BY RanksIn
<1>3. ASSUME NEW f, NEW g, NEW at \in Nestings, \A y \in Nestings : left[y] < left[at] => f[y] = g[y]
      PROVE  body(f, at) = body(g, at)
  <2>1. Ranks(f, at) = Ranks(g, at)
    BY <1>1, <1>3, RanksAgree
  <2> QED
    BY <2>1
<1>4. left \in [Nestings -> 0 .. N] /\ N \in Nat /\ \A at \in Nestings : left[at] \in Nat
  <2>1. \A at \in Nestings : left[at] \in 0 .. N /\ N \in Nat
    BY <1>1, BelowIs
  <2>2. Nestings # {}
    <3>1. << >> \in Seq(Words)
      BY EmptySeq
    <3>2. 0 \in 0 .. maxDepth
      BY DepthLimit
    <3>3. PICK call : call = << >> /\ call \in Seq(Words)
      BY <3>1
    <3>4. <<call, 0>> \in Seq(Words) \X (0 .. maxDepth)
      BY <3>2, <3>3
    <3> QED
      BY <3>4 DEF Nestings
  <2>3. left = [at \in Nestings |-> left[at]]
    BY DEF below
  <2> HIDE DEF left, N
  <2> QED
    BY <2>1, <2>2, <2>3
<1>5. worst = CHOOSE f : f = [at \in Nestings |-> body(f, at)]
  BY WorstBody
<1> HIDE DEF body, left
<1>6. \A f \in [Nestings -> T], at \in Nestings : H[<<f, at>>] = body(f, at)
  OBVIOUS
<1>7. T # {}
  OBVIOUS
<1> HIDE DEF H, T, N
<1>8. PICK f \in [Nestings -> T] : \A at \in Nestings : f[at] = H[<<f, at>>]
  <2>1. \A g \in [Nestings -> T], at \in Nestings : H[<<g, at>>] \in T
    BY <1>2, <1>6
  <2>2. \A g, k \in [Nestings -> T], at \in Nestings :
          (\A y \in Nestings : left[y] < left[at] => g[y] = k[y]) => H[<<g, at>>] = H[<<k, at>>]
    BY <1>3, <1>6
  <2>3. IsRecursion(Nestings, T, N, left, H)
    BY <1>4, <1>7, <2>1, <2>2 DEF IsRecursion
  <2> QED
    BY <2>3, RecursionIsSound
<1>9. f = [at \in Nestings |-> body(f, at)]
  BY <1>6, <1>8
<1>10. worst = [at \in Nestings |-> body(worst, at)]
  BY <1>5, <1>9
<1>11. \A at \in Nestings : worst[at] = f[at]
  <2>1. \A at \in Nestings : worst[at] = body(worst, at) /\ f[at] = body(f, at)
    BY <1>9, <1>10
  <2>2. \A at \in Nestings : (\A y \in Nestings : left[y] < left[at] => worst[y] = f[y]) => worst[at] = f[at]
    BY <1>3, <2>1
  <2>3. AgreeStepwise(Nestings, left, worst, f)
    BY <1>4, <2>2 DEF AgreeStepwise
  <2> QED
    BY <2>3, RecursionIsUnique
<1>12. worst = f
  BY <1>9, <1>10, <1>11
<1>13. \A at \in Nestings : worst[at] = body(worst, at)
  BY <1>10
<1> QED
  BY <1>8, <1>12, <1>13 DEF T, body

--------------------------------------------------------------------------------
\* At least k in rank: a call, a text, an emitted command.
Grave(k, call, depth) == worst[<<call, depth>>] >= k
GraveCalls(k, calls, depth) == \E n \in DOMAIN calls : Grave(k, calls[n], depth)
GraveText(k, t, depth) == ~Broken(t) /\ GraveCalls(k, Calls(t), depth)
GraveItself(k, call, depth) == Said(call) >= k \/ (k = 2 /\ Unseen(call, depth))

LEMMA GraveIs ==
  ASSUME parser \in Parsers, config \in Configs, SubstitutionsNest,
         NEW call \in Seq(Words), NEW d \in 0 .. maxDepth, NEW k \in {2, 3}
  PROVE  Grave(k, call, d) <=>
           \/ GraveItself(k, call, d)
           \/ d # maxDepth /\ \E t \in TargetsOf(call) : GraveText(k, t, d + 1)
           \/ GraveCalls(k, Substituted(call), d)
<1> DEFINE R == Ranks(worst, <<call, d>>)
           high(S) == \E n \in S : n >= k
           unseen == IF Unseen(call, d) THEN {rank("ask")} ELSE {}
<1>1. <<call, d>> \in Nestings
  BY DEF Nestings
<1>2. R \in SUBSET (1 .. 3) /\ worst[<<call, d>>] = Strictest(R)
  BY <1>1, WorstUnfolds, RanksIn
<1>3. R = {Said(call)} \cup Inner(worst, call, d) \cup Later(worst, Substituted(call), d) \cup unseen
  BY DEF Ranks
<1> HIDE DEF R
<1>4. Strictest(R) >= k <=> high(R)
  BY <1>2, StrictestIs
<1>5. high({Said(call)}) <=> Said(call) >= k
  OBVIOUS
<1>6. high(unseen) <=> k = 2 /\ Unseen(call, d)
  BY DEF rank
<1>7. high(Later(worst, Substituted(call), d)) <=> GraveCalls(k, Substituted(call), d)
  BY DEF Later, GraveCalls, Grave
<1>8. high(Inner(worst, call, d)) <=> d # maxDepth /\ \E t \in TargetsOf(call) : GraveText(k, t, d + 1)
  <2>1. CASE d = maxDepth
    BY <2>1 DEF Inner
  <2>2. CASE d # maxDepth
    <3>1. Inner(worst, call, d) =
            UNION {Later(worst, Calls(t), d + 1) : t \in {t \in TargetsOf(call) : ~Broken(t)}}
      BY <2>2 DEF Inner
    <3>2. high(Inner(worst, call, d)) <=>
            \E t \in TargetsOf(call) : ~Broken(t) /\ high(Later(worst, Calls(t), d + 1))
      BY <3>1
    <3>3. \A t : high(Later(worst, Calls(t), d + 1)) <=> GraveCalls(k, Calls(t), d + 1)
      BY DEF Later, GraveCalls, Grave
    <3> QED
      BY <2>2, <3>2, <3>3 DEF GraveText
  <2> QED
    BY <2>1, <2>2
<1>9. high(R) <=> \/ high({Said(call)}) \/ high(Inner(worst, call, d))
                  \/ high(Later(worst, Substituted(call), d)) \/ high(unseen)
  BY <1>3
<1> HIDE DEF high, unseen
<1> QED
  BY <1>2, <1>4, <1>5, <1>6, <1>7, <1>8, <1>9 DEF Grave, GraveItself

--------------------------------------------------------------------------------
(* Nothing is lost between the line and the list. *)

\* The calls at hand are sequences of words, and no command is beyond the depth limit.
CallsInv ==
  /\ line \in Seq(Seq(Words))
  /\ \A k \in DOMAIN cmds : cmds[k].depth <= maxDepth
  /\ \A k \in DOMAIN cmds : cmds[k].words \in Seq(Words)
  /\ \A n \in DOMAIN levels : levels[n].calls \in Seq(Seq(Words))

\* What a level still brings.
GraveLevel(k, level) ==
  \/ GraveCalls(k, level.calls, level.depth)
  \/ \E t \in Range(level.targets) : GraveText(k, t, level.depth)

\* At least k is asked for by a command of the list or by what is still to be visited.
Owed(k) ==
  \/ \E i \in DOMAIN cmds : GraveItself(k, cmds[i].words, cmds[i].depth)
  \/ \E n \in DOMAIN levels : GraveLevel(k, levels[n])

OwesInv ==
  /\ outcome \in {"start", "running", "parsed", "error"}
  /\ outcome = "start" => cmds = << >>
  /\ outcome = "error" => line = NotShell
  /\ outcome \in {"running", "parsed"} =>
       line # NotShell /\ \A k \in {2, 3} : Owed(k) <=> GraveCalls(k, line, 0)

LEMMA NextTop ==
  ASSUME NestInv, ParseTarget
  PROVE  levels'[Len(levels)] = NextTarget(Top)
<1>1. levels # << >> /\ levels' = SetTop(NextTarget(Top))
  BY DEF ParseTarget
<1>2. Len(levels) \in DOMAIN levels
  BY <1>1, SequentialLen DEF NestInv
<1> QED
  BY <1>1, <1>2 DEF SetTop

\* How the levels change in a visit.
LEMMA VisitedLevels ==
  ASSUME NestInv, MarkInv, Visit
  PROVE  LET L == Len(levels)
             K == Len(cmds)
             call == Head(Top.calls)
             deeper == TargetsOf(call) # {} /\ Top.depth # maxDepth
         IN  /\ Top.calls # << >> /\ L \in DOMAIN levels /\ L \in Nat /\ L >= 1 /\ Top = levels[L]
             /\ Top.depth = L - 1 /\ Top.depth \in 0 .. maxDepth
             /\ K \in Nat /\ DOMAIN cmds = 1 .. K /\ DOMAIN cmds' = 1 .. K + 1
             /\ \A i \in 1 .. K : cmds'[i] = cmds[i]
             /\ cmds'[K + 1].words = call /\ cmds'[K + 1].depth = Top.depth
             /\ \A n \in DOMAIN levels \ {L} : n \in DOMAIN levels' /\ levels'[n] = levels[n]
             /\ L \in DOMAIN levels' /\ levels'[L].calls = Substituted(call) \o Tail(Top.calls)
             /\ levels'[L].targets = Top.targets /\ levels'[L].depth = Top.depth
             /\ DOMAIN levels' = IF deeper THEN DOMAIN levels \cup {L + 1} ELSE DOMAIN levels
             /\ deeper => /\ levels'[L + 1].calls = << >> /\ levels'[L + 1].depth = Top.depth + 1
                          /\ Range(levels'[L + 1].targets) = TargetsOf(call)
<1>1. PICK call, c, u :
           /\ levels # << >> /\ Top.calls # << >> /\ call = Head(Top.calls)
           /\ u[Len(levels)].calls = Substituted(call) \o Tail(Top.calls)
           /\ c = [words |-> call, depth |-> Top.depth, owner |-> Top.owner,
                   inspectionFailed |-> \/ ~Normalize(call, resolveValueTaking(call[1])).ok
                                        \/ \E x \in Extractions(call) : x.failed
                                        \/ Found(call) # {} /\ Top.depth + 1 > maxDepth]
           /\ cmds' = Append(cmds, c)
           /\ Sequential(u) /\ Len(u) = Len(levels) /\ DOMAIN u = DOMAIN levels
           /\ \A n \in 1 .. Len(levels) - 1 : u[n] = levels[n]
           /\ u[Len(levels)] \in [targets : {Top.targets}, calls : {u[Len(levels)].calls},
                                  depth : {Top.depth}, owner : {Top.owner}]
           /\ IF Found(call) = {} \/ Top.depth + 1 > maxDepth THEN levels' = u
              ELSE levels' = Append(u, Opened(call))
  BY Visiting
<1> DEFINE K == Len(cmds)
           L == Len(levels)
           T == CHOOSE t \in Found(call) : TRUE
           tooDeep == Top.depth + 1 > maxDepth
           deeper == TargetsOf(call) # {} /\ Top.depth # maxDepth
<1>2. /\ L \in Nat /\ L # 0 /\ L >= 1 /\ DOMAIN levels = 1 .. L /\ L \in DOMAIN levels /\ Top = levels[L]
      /\ Top.depth = L - 1 /\ K \in Nat /\ DOMAIN cmds = 1 .. K
  BY <1>1, TopIs, SequentialLen DEF NestInv, LevelOK
<1>3. /\ DOMAIN cmds' = 1 .. K + 1 /\ cmds'[K + 1] = c /\ \A k \in 1 .. K : cmds'[k] = cmds[k]
  BY <1>1, Appended DEF NestInv
<1>4. c.words = call /\ c.depth = Top.depth
  <2>1. PICK f : c = [words |-> call, depth |-> Top.depth, owner |-> Top.owner, inspectionFailed |-> f]
    BY <1>1
  <2> QED  BY <2>1
<1>5. u[L].targets = Top.targets /\ u[L].depth = Top.depth
  BY <1>1
<1>6. parser \in Parsers
  BY DEF MarkInv
<1>7. /\ Found(call) # {} <=> TargetsOf(call) # {}
      /\ Found(call) # {} => Sequential(T) /\ Range(T) = TargetsOf(call)
  BY <1>6, FoundIs
<1>8. maxDepth \in Nat /\ Top.depth <= maxDepth /\ Top.depth \in 0 .. maxDepth
  BY <1>2, <1>6, DepthLimit DEF MarkInv, TargetsOK
<1>9. tooDeep <=> Top.depth = maxDepth
  <2>1. \A a, b \in Nat : a <= b => (a + 1 > b <=> a = b)
    OBVIOUS
  <2>2. Top.depth \in Nat
    BY <1>8
  <2> QED
    BY <1>8, <2>1, <2>2
<1> HIDE DEF T, tooDeep
<1>10. (Found(call) = {} \/ tooDeep) <=> ~deeper
  BY <1>7, <1>9
<1>11. CASE ~deeper
  <2>1. levels' = u
    BY <1>1, <1>10, <1>11 DEF tooDeep
  <2>2. \A n \in DOMAIN levels \ {L} : n \in DOMAIN levels' /\ levels'[n] = levels[n]
    <3>1. \A n \in DOMAIN levels \ {L} : n \in 1 .. L - 1
      BY <1>2
    <3> QED
      BY <1>1, <2>1, <3>1
  <2> HIDE DEF deeper, L, K
  <2> QED
    BY <1>1, <1>2, <1>3, <1>4, <1>5, <1>8, <1>11, <2>1, <2>2 DEF deeper, L, K
<1>12. CASE deeper
  <2>1. levels' = Append(u, Opened(call))
    BY <1>1, <1>10, <1>12 DEF tooDeep
  <2>2. Opened(call).targets = T /\ Opened(call).calls = << >> /\ Opened(call).depth = Top.depth + 1
    BY DEF Opened, Level, T
  <2>3. /\ DOMAIN levels' = 1 .. L + 1 /\ \A n \in 1 .. L : levels'[n] = u[n]
        /\ levels'[L + 1] = Opened(call)
    <3>1. PICK x : x = Opened(call)  OBVIOUS
    <3>2. levels' = Append(u, x)  BY <2>1, <3>1
    <3>3. Sequential(u) /\ Len(u) = L  BY <1>1
    <3> HIDE DEF L
    <3>4. /\ DOMAIN levels' = 1 .. L + 1 /\ \A n \in 1 .. L : levels'[n] = u[n]
          /\ levels'[L + 1] = x
      BY <3>2, <3>3, Appended
    <3> QED  BY <3>1, <3>4
  <2>4. DOMAIN levels' = DOMAIN levels \cup {L + 1}
    BY <1>2, <2>3
  <2>5. \A n \in DOMAIN levels \ {L} : n \in DOMAIN levels' /\ levels'[n] = levels[n]
    <3>1. \A n \in DOMAIN levels \ {L} : n \in 1 .. L - 1
      BY <1>2
    <3> QED
      BY <1>1, <1>2, <2>3, <2>4, <3>1
  <2>6. levels'[L] = u[L] /\ L \in DOMAIN levels'
    BY <1>2, <2>3, <2>4
  <2>7. Range(T) = TargetsOf(call)
    BY <1>7, <1>12
  <2> HIDE DEF deeper, L, K
  <2> QED
    BY <1>1, <1>2, <1>3, <1>4, <1>5, <1>8, <1>12, <2>2, <2>3, <2>4, <2>5, <2>6, <2>7 DEF deeper, L, K
<1> QED
  BY <1>11, <1>12

LEMMA CallsInvInit == Init => CallsInv
BY EmptyIsSequential, LinesAssumption DEF Init, CallsInv

LEMMA CallsInvStep == NestInv /\ MarkInv /\ CallsInv /\ [Next]_vars => CallsInv'
<1> SUFFICES ASSUME NestInv, MarkInv, CallsInv, [Next]_vars PROVE CallsInv'
  OBVIOUS
<1>0. line' = line /\ maxDepth' = maxDepth
  BY SameParser DEF Next, Start, Visit, ParseTarget, Up, Return, vars
<1>1. CASE Start
  <2>1. levels = << >> /\ cmds' = cmds
    BY <1>1 DEF Start, NestInv
  <2>2. CASE line = NotShell
    BY <1>0, <1>1, <2>1, <2>2 DEF CallsInv, Start
  <2>3. CASE line # NotShell
    <3>1. levels' = <<Level(<< >>, line, 0, 0)>>
      BY <1>1, <2>3 DEF Start
    <3>2. DOMAIN levels' = {1} /\ levels'[1].calls = line
      BY <3>1 DEF Level
    <3> QED
      BY <1>0, <2>1, <3>2 DEF CallsInv
  <2> QED
    BY <2>2, <2>3
<1>2. CASE Visit
  <2> DEFINE L == Len(levels)
             K == Len(cmds)
             call == Head(Top.calls)
  <2>1. /\ Top.calls # << >> /\ L \in DOMAIN levels /\ Top = levels[L]
        /\ K \in Nat /\ DOMAIN cmds = 1 .. K /\ DOMAIN cmds' = 1 .. K + 1
        /\ \A i \in 1 .. K : cmds'[i] = cmds[i]
        /\ cmds'[K + 1].words = call
        /\ \A n \in DOMAIN levels \ {L} : levels'[n] = levels[n]
        /\ levels'[L].calls = Substituted(call) \o Tail(Top.calls)
        /\ DOMAIN levels' \subseteq DOMAIN levels \cup {L + 1}
        /\ L + 1 \in DOMAIN levels' => L + 1 \notin DOMAIN levels /\ levels'[L + 1].calls = << >>
    <3>1. L + 1 \notin DOMAIN levels
      BY SequentialLen DEF NestInv
    <3> QED
      BY <1>2, <3>1, VisitedLevels
  <2>0. cmds'[K + 1].depth \in 0 .. maxDepth
    <3>1. Top.depth \in 0 .. maxDepth /\ cmds'[K + 1].depth = Top.depth
      BY <1>2, VisitedLevels
    <3> QED
      BY <3>1
  <2> HIDE DEF K, call
  <2>2. Top.calls \in Seq(Seq(Words))
    BY <2>1 DEF CallsInv
  <2>3. call \in Seq(Words) /\ Tail(Top.calls) \in Seq(Seq(Words))
    BY <2>1, <2>2 DEF call
  <2>4. Substituted(call) \in Seq(Seq(Words))
    BY <2>3, SubstitutedTyped
  <2>5. levels'[L].calls \in Seq(Seq(Words))
    BY <2>1, <2>3, <2>4, ConcatProperties
  <2>6. \A k \in DOMAIN cmds' : cmds'[k].words \in Seq(Words) /\ cmds'[k].depth <= maxDepth
    <3>1. \A k \in 1 .. K + 1 : k \in 1 .. K \/ k = K + 1
      BY <2>1
    <3> QED
      BY <2>0, <2>1, <2>3, <3>1 DEF CallsInv
  <2>7. << >> \in Seq(Seq(Words))
    BY EmptySeq
  <2> HIDE DEF L
  <2>8. \A n \in DOMAIN levels' : levels'[n].calls \in Seq(Seq(Words))
    BY <2>1, <2>5, <2>7 DEF CallsInv
  <2> QED
    BY <1>0, <2>6, <2>8 DEF CallsInv
<1>3. CASE ParseTarget
  <2> DEFINE L == Len(levels)
             target == Head(Top.targets)
  <2>1. /\ levels # << >> /\ Top.targets # << >> /\ Top.owner \in DOMAIN cmds
        /\ DOMAIN cmds' = DOMAIN cmds
        /\ \A k \in DOMAIN cmds : cmds'[k].words = cmds[k].words /\ cmds'[k].depth = cmds[k].depth
        /\ DOMAIN levels' = DOMAIN levels /\ \A n \in 1 .. L - 1 : levels'[n] = levels[n]
    BY <1>3, Marking
  <2>2. L \in Nat /\ DOMAIN levels = 1 .. L /\ Top = levels[L] /\ L \in DOMAIN levels /\ L # 1
    BY <2>1, TopIs
  <2>3. levels'[L].calls = IF Broken(target) THEN << >> ELSE Calls(target)
    BY <1>3, NextTop DEF NextTarget, Level
  <2>4. target \in Seq(Words)
    <3>1. TargetsOK(L) /\ Top.owner \in DOMAIN cmds
      BY <2>1, <2>2 DEF MarkInv
    <3>2. target \in Range(Top.targets)
      BY <2>1, <2>2, <3>1, Tailed DEF TargetsOK
    <3>3. target \in TargetsOf(cmds[Top.owner].words)
      BY <2>2, <3>1, <3>2 DEF TargetsOK
    <3>4. cmds[Top.owner].words \in Seq(Words) /\ parser \in Parsers
      BY <3>1 DEF CallsInv, MarkInv
    <3> QED
      BY <3>3, <3>4, TargetsTyped
  <2>5. levels'[L].calls \in Seq(Seq(Words))
    BY <2>3, <2>4, CallsTyped, EmptySeq
  <2>6. \A n \in DOMAIN levels' : n = L \/ n \in 1 .. L - 1
    BY <2>1, <2>2
  <2>7. \A n \in DOMAIN levels' : levels'[n].calls \in Seq(Seq(Words))
    BY <2>1, <2>5, <2>6 DEF CallsInv
  <2> QED
    BY <1>0, <2>1, <2>7 DEF CallsInv
<1>4. CASE Up
  <2>1. cmds' = cmds /\ levels # << >> /\ levels' = Front(levels)
    BY <1>4 DEF Up
  <2>2. Len(levels) \in Nat /\ DOMAIN levels = 1 .. Len(levels)
    BY SequentialLen DEF NestInv
  <2>3. DOMAIN levels' = 1 .. Len(levels) - 1 /\ \A n \in 1 .. Len(levels) - 1 : levels'[n] = levels[n]
    BY <2>1, Popped DEF NestInv
  <2>4. \A n \in DOMAIN levels' : n \in DOMAIN levels /\ levels'[n] = levels[n]
    BY <2>2, <2>3
  <2> QED
    BY <1>0, <2>1, <2>4 DEF CallsInv
<1>5. CASE Return \/ UNCHANGED vars
  BY <1>0, <1>5 DEF Return, vars, CallsInv
<1> QED
  BY <1>1, <1>2, <1>3, <1>4, <1>5 DEF Next

\* What the walk does not change.
Kept == parser' = parser /\ config' = config

LEMMA WorstKept ==
  ASSUME Kept
  PROVE  worst' = worst
BY DEF Kept, worst, Said, Unseen, TargetsOf, Extractions, maxDepth, resolveValueTaking, CliFlags, Named, recurseOf

LEMMA SaidKept ==
  ASSUME Kept, NEW call
  PROVE  Said(call)' = Said(call)
BY DEF Kept, Said, resolveValueTaking, CliFlags, Named, recurseOf

LEMMA GraveKept ==
  ASSUME Kept
  PROVE  /\ \A k, calls, d : GraveCalls(k, calls, d)' <=> GraveCalls(k, calls, d)
         /\ \A k, t, d : GraveText(k, t, d)' <=> GraveText(k, t, d)
         /\ \A k, call, d : GraveItself(k, call, d)' <=> GraveItself(k, call, d)
         /\ \A k, level : GraveLevel(k, level)' <=> GraveLevel(k, level)
<1>1. \A k, calls, d : GraveCalls(k, calls, d)' <=> GraveCalls(k, calls, d)
  BY WorstKept DEF GraveCalls, Grave
<1>2. \A k, t, d : GraveText(k, t, d)' <=> GraveText(k, t, d)
  <2>1. \A t : Broken(t)' <=> Broken(t)
    BY DEF Broken
  <2>2. \A t : Calls(t)' = Calls(t)
    BY DEF Calls
  <2> QED
    BY <1>1, <2>1, <2>2 DEF GraveText
<1>3. \A k, call, d : GraveItself(k, call, d)' <=> GraveItself(k, call, d)
  <2>1. \A call, d : Unseen(call, d)' <=> Unseen(call, d)
    BY SameParser DEF Kept
  <2> QED
    BY <2>1, SaidKept DEF GraveItself
<1>4. \A k, level : GraveLevel(k, level)' <=> GraveLevel(k, level)
  BY <1>1, <1>2 DEF GraveLevel
<1> QED
  BY <1>1, <1>2, <1>3, <1>4

LEMMA NoCalls ==
  ASSUME NEW k, NEW d
  PROVE  ~GraveCalls(k, << >>, d)
BY EmptyIsSequential DEF GraveCalls

LEMMA FirstCall ==
  ASSUME NEW S, NEW s \in Seq(S), s # << >>, NEW k, NEW d
  PROVE  GraveCalls(k, s, d) <=> Grave(k, Head(s), d) \/ GraveCalls(k, Tail(s), d)
<1>1. Len(s) \in Nat /\ Len(s) # 0 /\ DOMAIN s = 1 .. Len(s) /\ Head(s) = s[1]
  BY EmptySeq
<1>2. DOMAIN Tail(s) = 1 .. Len(s) - 1 /\ \A i \in 1 .. Len(s) - 1 : Tail(s)[i] = s[i + 1]
  BY <1>1, HeadTailProperties
<1>3. ASSUME NEW n \in DOMAIN s, n # 1 PROVE n - 1 \in DOMAIN Tail(s) /\ Tail(s)[n - 1] = s[n]
  BY <1>1, <1>2, <1>3
<1>4. \A n \in DOMAIN Tail(s) : n + 1 \in DOMAIN s /\ Tail(s)[n] = s[n + 1]
  BY <1>1, <1>2
<1>5. 1 \in DOMAIN s
  BY <1>1
<1> QED
  BY <1>1, <1>3, <1>4, <1>5 DEF GraveCalls

LEMMA MoreCalls ==
  ASSUME NEW S, NEW s \in Seq(S), NEW t \in Seq(S), NEW k, NEW d
  PROVE  GraveCalls(k, s \o t, d) <=> GraveCalls(k, s, d) \/ GraveCalls(k, t, d)
<1> DEFINE both == s \o t
<1>1. /\ Len(s) \in Nat /\ Len(t) \in Nat /\ DOMAIN s = 1 .. Len(s) /\ DOMAIN t = 1 .. Len(t)
      /\ DOMAIN both = 1 .. Len(s) + Len(t)
      /\ \A i \in 1 .. Len(s) + Len(t) : both[i] = IF i <= Len(s) THEN s[i] ELSE t[i - Len(s)]
  BY ConcatProperties
<1>2. \A n \in DOMAIN s : n \in DOMAIN both /\ both[n] = s[n]
  BY <1>1
<1>3. \A n \in DOMAIN t : n + Len(s) \in DOMAIN both /\ both[n + Len(s)] = t[n]
  BY <1>1
<1>4. \A n \in DOMAIN both : (n \in DOMAIN s /\ both[n] = s[n])
                             \/ (n - Len(s) \in DOMAIN t /\ both[n] = t[n - Len(s)])
  BY <1>1
<1> HIDE DEF both
<1> QED
  BY <1>2, <1>3, <1>4 DEF GraveCalls, both

\* A call is replaced by its command, by what stands in its words, and by its targets.
LEMMA VisitOwes ==
  ASSUME NestInv, MarkInv, CallsInv, config \in Configs, SubstitutionsNest, Visit, Kept, NEW k \in {2, 3}
  PROVE  Owed(k)' <=> Owed(k)
<1> DEFINE L == Len(levels)
           K == Len(cmds)
           call == Head(Top.calls)
           d == Top.depth
           deeper == TargetsOf(call) # {} /\ d # maxDepth
           emitted == \E i \in 1 .. K : GraveItself(k, cmds[i].words, cmds[i].depth)
           others == \E n \in DOMAIN levels \ {L} : GraveLevel(k, levels[n])
           texts == \E t \in Range(Top.targets) : GraveText(k, t, d)
           inner == d # maxDepth /\ \E t \in TargetsOf(call) : GraveText(k, t, d + 1)
<1>1. /\ Top.calls # << >> /\ L \in DOMAIN levels /\ L \in Nat /\ L >= 1 /\ Top = levels[L]
      /\ d = L - 1 /\ d \in 0 .. maxDepth
      /\ K \in Nat /\ DOMAIN cmds = 1 .. K /\ DOMAIN cmds' = 1 .. K + 1
      /\ \A i \in 1 .. K : cmds'[i] = cmds[i]
      /\ cmds'[K + 1].words = call /\ cmds'[K + 1].depth = d
      /\ \A n \in DOMAIN levels \ {L} : n \in DOMAIN levels' /\ levels'[n] = levels[n]
      /\ L \in DOMAIN levels' /\ levels'[L].calls = Substituted(call) \o Tail(Top.calls)
      /\ levels'[L].targets = Top.targets /\ levels'[L].depth = d
      /\ DOMAIN levels' = IF deeper THEN DOMAIN levels \cup {L + 1} ELSE DOMAIN levels
      /\ deeper => /\ levels'[L + 1].calls = << >> /\ levels'[L + 1].depth = d + 1
                   /\ Range(levels'[L + 1].targets) = TargetsOf(call)
  BY VisitedLevels
<1>2. L + 1 \notin DOMAIN levels /\ L + 1 # L
  BY SequentialLen DEF NestInv
<1>3. Top.calls \in Seq(Seq(Words)) /\ call \in Seq(Words) /\ Tail(Top.calls) \in Seq(Seq(Words))
  <2>1. Top.calls \in Seq(Seq(Words))
    BY <1>1 DEF CallsInv
  <2> QED
    BY <1>1, <2>1
<1>4. Substituted(call) \in Seq(Seq(Words)) /\ parser \in Parsers
  BY <1>3, SubstitutedTyped DEF MarkInv
<1> HIDE DEF L, K, call, d, deeper
<1>5. Grave(k, call, d) <=> GraveItself(k, call, d) \/ inner \/ GraveCalls(k, Substituted(call), d)
  BY <1>1, <1>3, <1>4, GraveIs
<1>6. GraveCalls(k, Top.calls, d) <=> Grave(k, call, d) \/ GraveCalls(k, Tail(Top.calls), d)
  BY <1>1, <1>3, FirstCall DEF call
<1>7. GraveCalls(k, levels'[L].calls, d) <=> GraveCalls(k, Substituted(call), d) \/ GraveCalls(k, Tail(Top.calls), d)
  <2>1. GraveCalls(k, Substituted(call) \o Tail(Top.calls), d) <=>
          GraveCalls(k, Substituted(call), d) \/ GraveCalls(k, Tail(Top.calls), d)
    BY <1>3, <1>4, MoreCalls
  <2>2. levels'[L].calls = Substituted(call) \o Tail(Top.calls)
    BY <1>1
  <2> QED
    BY <2>1, <2>2
<1>8. GraveLevel(k, Top) <=> GraveCalls(k, Top.calls, d) \/ texts
  BY DEF GraveLevel, d
<1>9. GraveLevel(k, levels'[L]) <=> GraveCalls(k, levels'[L].calls, d) \/ texts
  BY <1>1 DEF GraveLevel
<1>10. deeper => (GraveLevel(k, levels'[L + 1]) <=> inner)
  BY <1>1, NoCalls DEF GraveLevel, deeper
<1>11. ~deeper => ~inner
  BY DEF deeper
<1>12. Owed(k) <=> emitted \/ others \/ GraveLevel(k, Top)
  BY <1>1 DEF Owed
<1>13. (\E i \in DOMAIN cmds' : GraveItself(k, cmds'[i].words, cmds'[i].depth)) <=> emitted \/ GraveItself(k, call, d)
  <2>1. \A i : i \in DOMAIN cmds' <=> i \in 1 .. K \/ i = K + 1
    BY <1>1
  <2> QED
    BY <1>1, <2>1
<1>14. (\E n \in DOMAIN levels' : GraveLevel(k, levels'[n])) <=>
         others \/ GraveLevel(k, levels'[L]) \/ (deeper /\ GraveLevel(k, levels'[L + 1]))
  <2>1. \A n \in DOMAIN levels' : n \in DOMAIN levels \ {L} \/ n = L \/ (deeper /\ n = L + 1)
    BY <1>1
  <2>2. deeper => L + 1 \in DOMAIN levels'
    BY <1>1
  <2> QED
    BY <1>1, <2>1, <2>2
<1>15. Owed(k)' <=> \/ \E i \in DOMAIN cmds' : GraveItself(k, cmds'[i].words, cmds'[i].depth)
                    \/ \E n \in DOMAIN levels' : GraveLevel(k, levels'[n])
  BY GraveKept DEF Owed
<1> HIDE DEF emitted, others, texts, inner
<1> QED
  BY <1>5, <1>6, <1>7, <1>8, <1>9, <1>10, <1>11, <1>12, <1>13, <1>14, <1>15

\* A text is replaced by its calls, none if it cannot be parsed.
LEMMA ParseTargetOwes ==
  ASSUME NestInv, MarkInv, ParseTarget, Kept, NEW k \in {2, 3}
  PROVE  Owed(k)' <=> Owed(k)
<1> DEFINE L == Len(levels)
           target == Head(Top.targets)
           d == Top.depth
           others == \E n \in DOMAIN levels \ {L} : GraveLevel(k, levels[n])
           rest == \E t \in Range(Tail(Top.targets)) : GraveText(k, t, d)
<1>1. /\ levels # << >> /\ Top.targets # << >> /\ Top.calls = << >>
      /\ DOMAIN cmds' = DOMAIN cmds
      /\ \A i \in DOMAIN cmds : cmds'[i].words = cmds[i].words /\ cmds'[i].depth = cmds[i].depth
      /\ DOMAIN levels' = DOMAIN levels /\ \A n \in 1 .. L - 1 : levels'[n] = levels[n]
  <2>1. Top.calls = << >>
    BY DEF ParseTarget
  <2> QED
    BY <2>1, Marking
<1>2. L \in Nat /\ DOMAIN levels = 1 .. L /\ Top = levels[L] /\ L \in DOMAIN levels
  BY <1>1, TopIs
<1>3. /\ levels'[L].targets = Tail(Top.targets) /\ levels'[L].depth = d
      /\ levels'[L].calls = IF Broken(target) THEN << >> ELSE Calls(target)
  <2>1. PICK calls : calls = IF Broken(target) THEN << >> ELSE Calls(target)
    OBVIOUS
  <2>2. levels'[L] = [targets |-> Tail(Top.targets), calls |-> calls, depth |-> d, owner |-> Top.owner]
    BY <2>1, NextTop DEF NextTarget, Level
  <2> HIDE DEF L, target, d
  <2>3. PICK level : level = levels'[L]
    OBVIOUS
  <2>4. level.targets = Tail(Top.targets) /\ level.depth = d /\ level.calls = calls
    BY <2>2, <2>3
  <2> QED
    BY <2>1, <2>3, <2>4
<1>4. Sequential(Top.targets)
  BY <1>2 DEF MarkInv, TargetsOK
<1>5. /\ Range(Tail(Top.targets)) \subseteq Range(Top.targets) /\ target \in Range(Top.targets)
      /\ \A t \in Range(Top.targets) : t = target \/ t \in Range(Tail(Top.targets))
  BY <1>1, <1>4, Tailed
<1> HIDE DEF L, target, d
<1>6. GraveLevel(k, Top) <=> GraveText(k, target, d) \/ rest
  BY <1>1, <1>5, NoCalls DEF GraveLevel, d
<1>7. GraveLevel(k, levels'[L]) <=> GraveText(k, target, d) \/ rest
  <2>1. GraveLevel(k, levels'[L]) <=> GraveCalls(k, levels'[L].calls, d) \/ rest
    BY <1>3 DEF GraveLevel
  <2>2. GraveCalls(k, levels'[L].calls, d) <=> GraveText(k, target, d)
    <3>1. CASE Broken(target)
      BY <1>3, <3>1, NoCalls DEF GraveText
    <3>2. CASE ~Broken(target)
      BY <1>3, <3>2 DEF GraveText
    <3> QED
      BY <3>1, <3>2
  <2> QED
    BY <2>1, <2>2
<1>8. (\E n \in DOMAIN levels : GraveLevel(k, levels[n])) <=> others \/ GraveLevel(k, Top)
  BY <1>2
<1>9. (\E n \in DOMAIN levels' : GraveLevel(k, levels'[n])) <=> others \/ GraveLevel(k, levels'[L])
  <2>1. \A n \in DOMAIN levels \ {L} : levels'[n] = levels[n]
    <3>1. \A n \in DOMAIN levels \ {L} : n \in 1 .. L - 1
      BY <1>2
    <3> QED
      BY <1>1, <3>1
  <2> QED
    BY <1>1, <1>2, <2>1
<1>10. (\E i \in DOMAIN cmds' : GraveItself(k, cmds'[i].words, cmds'[i].depth)) <=>
       \E i \in DOMAIN cmds : GraveItself(k, cmds[i].words, cmds[i].depth)
  BY <1>1
<1>11. Owed(k)' <=> \/ \E i \in DOMAIN cmds' : GraveItself(k, cmds'[i].words, cmds'[i].depth)
                    \/ \E n \in DOMAIN levels' : GraveLevel(k, levels'[n])
  BY GraveKept DEF Owed
<1> HIDE DEF others, rest
<1> QED
  BY <1>6, <1>7, <1>8, <1>9, <1>10, <1>11 DEF Owed

LEMMA UpOwes ==
  ASSUME NestInv, Up, Kept, NEW k \in {2, 3}
  PROVE  Owed(k)' <=> Owed(k)
<1> DEFINE L == Len(levels)
<1>1. cmds' = cmds /\ levels # << >> /\ levels' = Front(levels) /\ Top.calls = << >> /\ Top.targets = << >>
  BY DEF Up
<1>2. L \in Nat /\ L # 0 /\ DOMAIN levels = 1 .. L /\ Top = levels[L]
  BY <1>1, TopIs
<1>3. DOMAIN levels' = 1 .. L - 1 /\ \A n \in 1 .. L - 1 : levels'[n] = levels[n]
  BY <1>1, Popped DEF NestInv
<1>4. ~GraveLevel(k, Top)
  <2>1. Range(Top.targets) = {}
    BY <1>1, EmptyIsSequential DEF Range
  <2> QED
    BY <1>1, <2>1, NoCalls DEF GraveLevel
<1>5. \A n \in DOMAIN levels : n = L \/ n \in 1 .. L - 1
  BY <1>2
<1>6. \A n \in 1 .. L - 1 : n \in DOMAIN levels
  BY <1>2
<1> HIDE DEF L
<1>7. (\E n \in DOMAIN levels' : GraveLevel(k, levels'[n])) <=> \E n \in DOMAIN levels : GraveLevel(k, levels[n])
  BY <1>2, <1>3, <1>4, <1>5, <1>6
<1> QED
  BY <1>1, <1>7, GraveKept DEF Owed

LEMMA StartOwes ==
  ASSUME NestInv, OwesInv, Start, Kept, line # NotShell, NEW k \in {2, 3}
  PROVE  Owed(k)' <=> GraveCalls(k, line, 0)
<1>1. cmds' = << >> /\ levels' = <<Level(<< >>, line, 0, 0)>>
  BY DEF Start, OwesInv
<1>2. DOMAIN levels' = {1} /\ levels'[1].calls = line /\ levels'[1].targets = << >> /\ levels'[1].depth = 0
  BY <1>1 DEF Level
<1>3. Range(<< >>) = {} /\ DOMAIN cmds' = {}
  BY <1>1, EmptyIsSequential DEF Range
<1>4. GraveLevel(k, levels'[1]) <=> GraveCalls(k, line, 0)
  BY <1>2, <1>3 DEF GraveLevel
<1> QED
  BY <1>2, <1>3, <1>4, GraveKept DEF Owed

LEMMA OwesInvInit == Init => OwesInv
BY DEF Init, OwesInv

LEMMA OwesInvStep ==
  ASSUME NestInv, MarkInv, CallsInv, OwesInv, config \in Configs, SubstitutionsNest, Kept, Next
  PROVE  OwesInv'
<1>1. line' = line
  BY DEF Next, Start, Visit, ParseTarget, Up, Return
<1>2. \A k, calls, d : GraveCalls(k, calls, d)' <=> GraveCalls(k, calls, d)
  BY GraveKept
<1>3. \A k : GraveCalls(k, line, 0)' <=> GraveCalls(k, line, 0)
  BY <1>1, GraveKept DEF GraveCalls
<1>4. CASE Start
  <2>1. CASE line = NotShell
    BY <1>1, <1>4, <2>1 DEF OwesInv, Start
  <2>2. CASE line # NotShell
    <3>1. outcome' = "running"
      BY <1>4, <2>2 DEF Start
    <3>2. \A k \in {2, 3} : Owed(k)' <=> GraveCalls(k, line, 0)'
      BY <1>3, <1>4, <2>2, StartOwes
    <3> QED
      BY <1>1, <2>2, <3>1, <3>2 DEF OwesInv
  <2> QED
    BY <2>1, <2>2
<1>5. ASSUME outcome = "running", outcome' \in {"running", "parsed"},
             \A k \in {2, 3} : Owed(k)' <=> Owed(k)
      PROVE  OwesInv'
  <2>1. line # NotShell /\ \A k \in {2, 3} : Owed(k) <=> GraveCalls(k, line, 0)
    BY <1>5 DEF OwesInv
  <2>2. \A k \in {2, 3} : Owed(k)' <=> GraveCalls(k, line, 0)'
    BY <1>3, <1>5, <2>1
  <2> QED
    BY <1>1, <1>5, <2>1, <2>2 DEF OwesInv
<1>6. CASE Visit
  <2>1. outcome = "running" /\ outcome' = outcome
    BY <1>6 DEF Visit
  <2> QED
    BY <1>5, <1>6, <2>1, VisitOwes
<1>7. CASE ParseTarget
  <2>1. outcome = "running" /\ outcome' = outcome
    BY <1>7 DEF ParseTarget
  <2> QED
    BY <1>5, <1>7, <2>1, ParseTargetOwes
<1>8. CASE Up
  <2>1. outcome = "running" /\ outcome' = outcome
    BY <1>8 DEF Up
  <2> QED
    BY <1>5, <1>8, <2>1, UpOwes
<1>9. CASE Return
  <2>1. outcome = "running" /\ outcome' = "parsed" /\ cmds' = cmds /\ levels' = levels
    BY <1>9 DEF Return
  <2>2. \A k \in {2, 3} : Owed(k)' <=> Owed(k)
    BY <2>1, GraveKept DEF Owed
  <2> QED
    BY <1>5, <2>1, <2>2
<1> QED
  BY <1>4, <1>6, <1>7, <1>8, <1>9 DEF Next

--------------------------------------------------------------------------------
(* What the rules say of the list *)

LEMMA OneResult ==
  ASSUME NEW spec, Unambiguous(spec), NEW cmd
  PROVE  \A x, y \in matchSpec(spec, cmd) : x = y
<1> DEFINE aliases == spec.flagAliases
           alts == UNION {aliases[c] : c \in DOMAIN aliases}
           tables == buildReverseAliases(aliases)
<1>1. ASSUME NEW f \in tables, NEW g \in tables PROVE f = g
  <2>1. f \in [alts -> DOMAIN aliases] /\ g \in [alts -> DOMAIN aliases]
    BY DEF buildReverseAliases
  <2>2. \A a \in alts : a \in aliases[f[a]] /\ a \in aliases[g[a]]
    BY DEF buildReverseAliases
  <2>3. \A a \in alts : f[a] = g[a]
    BY <2>1, <2>2 DEF Unambiguous
  <2> HIDE DEF alts, aliases
  <2> QED
    BY <2>1, <2>3
<1> HIDE DEF tables
<1>2. matchSpec(spec, cmd) = {matchSpecWith(spec, cmd, f, v) : f \in tables, v \in tables}
  BY DEF matchSpec, tables
<1> QED
  BY <1>1, <1>2

\* A rule that may match has to.
LEMMA Settled ==
  ASSUME config \in Configs, UnambiguousRules, NEW r \in Elems(config.rules), NEW cmd,
         "matched" \in evalRule(r, cmd)
  PROVE  evalRule(r, cmd) = {"matched"}
<1>1. Unambiguous(r.match) /\ (\A e \in r.except : Unambiguous(e)) /\ \A e, f \in r.except : e = f
  BY ConfigsAssumption DEF UnambiguousRules
<1>2. \A x, y \in matchSpec(r.match, cmd) : x = y
  BY <1>1, OneResult
<1>3. \A x, y \in exceptResults(r, cmd) : x = y
  <2>1. CASE r.except = {}
    BY <2>1 DEF exceptResults
  <2>2. CASE r.except # {}
    <3>1. PICK e \in r.except : r.except = {e}
      BY <1>1, <2>2
    <3>2. \A x, y \in matchSpec(e, cmd) : x = y
      BY <1>1, OneResult
    <3>3. exceptResults(r, cmd) = matchSpec(e, cmd)
      BY <2>2, <3>1 DEF exceptResults
    <3> QED
      BY <3>2, <3>3
  <2> QED
    BY <2>1, <2>2
<1>4. TRUE \in matchSpec(r.match, cmd) /\ FALSE \in exceptResults(r, cmd)
  BY DEF evalRule, Outcome
<1>5. FALSE \notin matchSpec(r.match, cmd)
  BY <1>2, <1>4
<1>6. TRUE \notin exceptResults(r, cmd)
  BY <1>3, <1>4
<1> QED
  BY <1>4, <1>5, <1>6 DEF evalRule, Outcome

\* A rule does not look at the mark.
LEMMA BlindToMarks ==
  ASSUME NEW r, NEW words, NEW vt, NEW mark
  PROVE  evalRule(r, CommandOf(words, vt, mark)) = evalRule(r, CommandOf(words, vt, FALSE))
<1> DEFINE a == CommandOf(words, vt, mark)
           b == CommandOf(words, vt, FALSE)
<1>1. a.name = b.name /\ a.flags = b.flags /\ a.flagValues = b.flagValues /\ a.args = b.args
  BY DEF CommandOf, AsCommand
<1> HIDE DEF a, b
<1>2. \A spec : matchSpec(spec, a) = matchSpec(spec, b)
  <2>1. \A spec, f, v : matchSpecWith(spec, a, f, v) = matchSpecWith(spec, b, f, v)
    BY <1>1 DEF matchSpecWith, matchFlagValues
  <2> QED
    BY <2>1 DEF matchSpec
<1>3. exceptResults(r, a) = exceptResults(r, b)
  BY <1>2 DEF exceptResults
<1>4. evalRule(r, a) = evalRule(r, b)
  <2>1. matchSpec(r.match, a) = matchSpec(r.match, b)
    BY <1>2
  <2>2. \A o : o \in evalRule(r, a) <=> o \in evalRule(r, b)
    BY <1>3, <2>1 DEF evalRule
  <2>3. evalRule(r, a) \subseteq Outcome /\ evalRule(r, b) \subseteq Outcome
    BY DEF evalRule
  <2> QED
    BY <2>2, <2>3
<1> QED
  BY <1>4 DEF a, b

LEMMA CommandsAre ==
  ASSUME NEW i \in DOMAIN cmds
  PROVE  /\ DOMAIN CommandsOf(cmds) = DOMAIN cmds
         /\ CommandsOf(cmds)[i].inspectionFailed = cmds[i].inspectionFailed
         /\ \A r : evalRule(r, CommandsOf(cmds)[i]) =
                   evalRule(r, CommandOf(cmds[i].words, resolveValueTaking(cmds[i].words[1]), FALSE))
<1>1. /\ DOMAIN CommandsOf(cmds) = DOMAIN cmds
      /\ CommandsOf(cmds)[i] = CommandOf(cmds[i].words, resolveValueTaking(cmds[i].words[1]),
                                         cmds[i].inspectionFailed)
  BY DEF CommandsOf
<1>2. CommandsOf(cmds)[i].inspectionFailed = cmds[i].inspectionFailed
  BY <1>1 DEF CommandOf, AsCommand
<1> QED
  BY <1>1, <1>2, BlindToMarks

LEMMA DeservesIs ==
  ASSUME parser \in Parsers, config \in Configs, SubstitutionsNest, line \in Seq(Seq(Words)), line # NotShell
  PROVE  Deserves \in 1 .. 3 /\ \A k \in {2, 3} : Deserves >= k <=> GraveCalls(k, line, 0)
<1> DEFINE S == {worst[<<line[n], 0>>] : n \in DOMAIN line}
<1>1. Deserves = Strictest(S)
  BY DEF Deserves
<1>2. S \in SUBSET (1 .. 3)
  <2>1. 0 \in 0 .. maxDepth
    BY DepthLimit
  <2>2. \A n \in DOMAIN line : line[n] \in Seq(Words)
    OBVIOUS
  <2>3. \A n \in DOMAIN line : <<line[n], 0>> \in Nestings
    BY <2>1, <2>2 DEF Nestings
  <2>4. \A n \in DOMAIN line : worst[<<line[n], 0>>] \in 1 .. 3
    BY <2>3, WorstUnfolds
  <2> QED
    BY <2>4
<1>3. \A k : (\E m \in S : m >= k) <=> GraveCalls(k, line, 0)
  BY DEF GraveCalls, Grave
<1> HIDE DEF S
<1> QED
  BY <1>1, <1>2, <1>3, StrictestIs

\* What Evaluate goes by: every failed inspection and every match, and nothing else.
Grounds(F) ==
  /\ F \in SUBSET [cmd : DOMAIN cmds, rule : 1 .. Len(config.rules) + 1]
  /\ \A p \in F : V!MayFire(p) \/ V!IsInspection(p)
  /\ \A i \in DOMAIN cmds, j \in 1 .. Len(config.rules) + 1 :
       LET p == [cmd |-> i, rule |-> j]
       IN  V!MustFire(p) \/ V!IsInspection(p) => p \in F

LEMMA EvaluateIs ==
  ASSUME Evaluate
  PROVE  \E F, d, why : /\ Grounds(F) /\ d \in Decision /\ V!IsVerdict(F, d, why)
                        /\ why \in F \cup {V!NoReason}
                        /\ answer' = [dec |-> d, reason |-> why]
<1> DEFINE all  == {[cmd |-> pr[1], rule |-> pr[2]] : pr \in V!Places}
           must == {p \in all : V!MustFire(p) \/ V!IsInspection(p)}
<1>1. PICK may \in SUBSET {p \in all \ must : V!MayFire(p)} :
        \E d \in Decision, why \in must \cup may \cup {V!NoReason} :
             IsAnswer(must \cup may, d, why) /\ answer' = [dec |-> d, reason |-> why]
  BY Zenon DEF Evaluate
<1>2. PICK d \in Decision, why \in must \cup may \cup {V!NoReason} :
        V!IsVerdict(must \cup may, d, why) /\ answer' = [dec |-> d, reason |-> why]
  BY <1>1 DEF IsAnswer
<1>3. \A p : V!MustFire(p) => V!MayFire(p)
  BY DEF V!MustFire, V!MayFire
<1>4. \A i \in DOMAIN cmds, j \in 1 .. Len(config.rules) + 1 : [cmd |-> i, rule |-> j] \in all
  <2>1. DOMAIN CommandsOf(cmds) = DOMAIN cmds
    BY DEF CommandsOf
  <2>2. \A i \in DOMAIN cmds, j \in 1 .. Len(config.rules) + 1 : <<i, j>> \in V!Places
    BY <2>1 DEF V!Places
  <2> SUFFICES ASSUME NEW i \in DOMAIN cmds, NEW j \in 1 .. Len(config.rules) + 1
               PROVE  [cmd |-> i, rule |-> j] \in all
    OBVIOUS
  <2>3. PICK pr \in V!Places : pr = <<i, j>>
    BY <2>2
  <2>4. pr[1] = i /\ pr[2] = j
    BY <2>3
  <2>5. [cmd |-> pr[1], rule |-> pr[2]] \in all
    BY <2>3, Zenon
  <2> QED
    BY <2>4, <2>5
<1>5. all \in SUBSET [cmd : DOMAIN cmds, rule : 1 .. Len(config.rules) + 1]
  <2>1. \A pr \in V!Places : pr[1] \in DOMAIN cmds /\ pr[2] \in 1 .. Len(config.rules) + 1
    BY DEF V!Places, CommandsOf
  <2> QED
    BY <2>1
<1> HIDE DEF all
<1>6. Grounds(must \cup may)
  BY <1>1, <1>3, <1>4, <1>5 DEF Grounds
<1> HIDE DEF must
<1> QED
  BY <1>2, <1>6

LEMMA SameRank == \A d : V!rank(d) = rank(d)
BY DEF V!rank, rank

LEMMA RankIs ==
  /\ \A d : rank(d) \in 0 .. 3
  /\ \A d \in Decision : rank(d) \in 1 .. 3
  /\ rank("allow") = 1 /\ rank("ask") = 2
BY DEF rank, Decision

\* The verdict is as strict as the strictest of its grounds.
LEMMA VerdictIs ==
  ASSUME NEW F, NEW d \in Decision, NEW why, V!IsVerdict(F, d, why), NEW k \in {2, 3}
  PROVE  rank(d) >= k <=> \E p \in F : V!strength(p) >= k
<1>1. \A p : V!strength(p) \in 0 .. 3
  BY RankIs, SameRank DEF V!strength
<1>2. rank(d) \in 1 .. 3
  BY RankIs
<1>3. \/ d = "allow" /\ \A p \in F : V!strength(p) <= rank("allow")
      \/ why \in F /\ V!strength(why) = rank(d) /\ \A p \in F : V!strength(p) <= rank(d)
  BY SameRank DEF V!IsVerdict
<1>4. CASE d = "allow" /\ \A p \in F : V!strength(p) <= rank("allow")
  BY <1>1, <1>4, RankIs
<1>5. CASE why \in F /\ V!strength(why) = rank(d) /\ \A p \in F : V!strength(p) <= rank(d)
  <2>1. ASSUME NEW p \in F, V!strength(p) >= k PROVE rank(d) >= k
    <3>1. V!strength(p) \in Int /\ V!strength(p) <= rank(d)
      BY <1>1, <1>5
    <3> QED
      BY <1>2, <2>1, <3>1
  <2> QED
    BY <1>5, <2>1
<1> QED
  BY <1>3, <1>4, <1>5

LEMMA GroundsAre ==
  ASSUME config \in Configs, UnambiguousRules, outcome = "parsed", MarkedWhenUnseen,
         NEW F, Grounds(F), NEW k \in {2, 3}
  PROVE  (\E p \in F : V!strength(p) >= k) <=>
           \E i \in DOMAIN cmds : GraveItself(k, cmds[i].words, cmds[i].depth)
<1> DEFINE n == Len(config.rules)
           list == CommandsOf(cmds)
           plain(i) == CommandOf(cmds[i].words, resolveValueTaking(cmds[i].words[1]), FALSE)
<1>1. n \in Nat /\ DOMAIN config.rules = 1 .. n
  BY ConfigsAssumption
<1>2. \A i \in DOMAIN cmds : cmds[i].inspectionFailed <=> Unseen(cmds[i].words, cmds[i].depth)
  BY DEF MarkedWhenUnseen, Unseen
<1>3. DOMAIN list = DOMAIN cmds
  BY DEF CommandsOf
<1>4. \A i \in DOMAIN cmds : /\ list[i].inspectionFailed = cmds[i].inspectionFailed
                             /\ \A r : evalRule(r, list[i]) = evalRule(r, plain(i))
  BY CommandsAre
<1>5. \A i \in DOMAIN cmds : Said(cmds[i].words) >= k <=>
        \E r \in Elems(config.rules) :
          appliesTo(r, "Bash") /\ "matched" \in evalRule(r, plain(i)) /\ rank(r.action) >= k
  BY SaidIs
<1> HIDE DEF n, list, plain
<1>6. ASSUME NEW p \in F, V!strength(p) >= k
      PROVE  p.cmd \in DOMAIN cmds /\ GraveItself(k, cmds[p.cmd].words, cmds[p.cmd].depth)
  <2>1. CASE V!MayFire(p)
    <3>1. /\ p.cmd \in DOMAIN list /\ p.rule \in DOMAIN config.rules
          /\ appliesTo(config.rules[p.rule], "Bash")
          /\ "matched" \in evalRule(config.rules[p.rule], list[p.cmd])
      BY <2>1 DEF V!MayFire, V!Applies, list
    <3>2. rank(config.rules[p.rule].action) >= k
      BY <1>6, <3>1, SameRank DEF V!strength
    <3>3. config.rules[p.rule] \in Elems(config.rules)
      BY <3>1 DEF Elems
    <3>4. p.cmd \in DOMAIN cmds /\ "matched" \in evalRule(config.rules[p.rule], plain(p.cmd))
      BY <1>3, <1>4, <3>1
    <3> QED
      BY <1>5, <3>1, <3>2, <3>3, <3>4 DEF GraveItself
  <2>2. CASE V!IsInspection(p)
    <3>1. p.cmd \in DOMAIN list /\ p.rule = n + 1 /\ list[p.cmd].inspectionFailed
      BY <2>2 DEF V!IsInspection, list, n
    <3>2. V!strength(p) = 2
      BY <1>1, <3>1, RankIs, SameRank DEF V!strength
    <3>3. k = 2
      BY <1>6, <3>2
    <3> QED
      BY <1>2, <1>3, <1>4, <3>1, <3>3 DEF GraveItself
  <2> QED
    BY <2>1, <2>2 DEF Grounds
<1>7. ASSUME NEW i \in DOMAIN cmds, GraveItself(k, cmds[i].words, cmds[i].depth)
      PROVE  \E p \in F : V!strength(p) >= k
  <2>1. CASE Said(cmds[i].words) >= k
    <3>1. PICK r \in Elems(config.rules) :
            appliesTo(r, "Bash") /\ "matched" \in evalRule(r, plain(i)) /\ rank(r.action) >= k
      BY <1>5, <2>1
    <3>2. PICK j \in DOMAIN config.rules : r = config.rules[j]
      BY DEF Elems
    <3>3. evalRule(r, list[i]) = {"matched"}
      BY <1>4, <3>1, Settled
    <3> DEFINE p == [cmd |-> i, rule |-> j]
    <3>4. p.cmd = i /\ p.rule = j
      OBVIOUS
    <3> HIDE DEF p
    <3>5. V!MustFire(p)
      BY <1>3, <3>1, <3>2, <3>3, <3>4 DEF V!MustFire, V!Applies, list
    <3>6. j \in 1 .. n + 1
      BY <1>1, <3>2
    <3>7. p \in F
      BY <3>5, <3>6 DEF Grounds, n, p
    <3>8. V!strength(p) = rank(r.action)
      BY <3>2, <3>4, SameRank DEF V!strength
    <3> QED
      BY <3>1, <3>7, <3>8
  <2>2. CASE k = 2 /\ Unseen(cmds[i].words, cmds[i].depth)
    <3> DEFINE p == [cmd |-> i, rule |-> n + 1]
    <3>1. p.cmd = i /\ p.rule = n + 1
      OBVIOUS
    <3> HIDE DEF p
    <3>2. V!IsInspection(p)
      BY <1>2, <1>3, <1>4, <2>2, <3>1 DEF V!IsInspection, list, n
    <3>3. n + 1 \in 1 .. n + 1
      BY <1>1
    <3>4. p \in F
      BY <3>2, <3>3 DEF Grounds, n, p
    <3>5. V!strength(p) = 2
      BY <1>1, <3>1, RankIs, SameRank DEF V!strength
    <3> QED
      BY <2>2, <3>4, <3>5
  <2> QED
    BY <1>7, <2>1, <2>2 DEF GraveItself
<1> QED
  BY <1>6, <1>7

--------------------------------------------------------------------------------
(* The invariant of the hook *)

HookInv ==
  /\ NestInv /\ MarkInv /\ CallsInv
  /\ config \in Configs /\ parser = pickParser(config)
  /\ outcome \in {"start", "running", "parsed", "error"}
  /\ \/ answer = V!NoAnswer
     \/ /\ answer \in [dec : Decision, reason : V!Place]
        /\ answer.reason.cmd \in 0 .. Len(cmds)
        /\ outcome \in {"parsed", "error"}

\* What is deserved is what is owed, and what was answered.
DeserveInv == OwesInv /\ AnswerIsDeserved

LEMMA NoAnswerIs == V!NoAnswer.reason.cmd = 0 /\ \A x \in [dec : Decision, reason : V!Place] : x # V!NoAnswer
<1>1. V!NoAnswer.reason.cmd = 0 /\ V!NoAnswer.dec = "none"
  BY DEF V!NoAnswer, V!NoReason
<1> QED
  BY <1>1 DEF Decision

LEMMA HookInvInit == InspectInit => HookInv
<1> SUFFICES ASSUME InspectInit PROVE HookInv
  OBVIOUS
<1>1. Init /\ config \in Configs /\ parser = pickParser(config) /\ answer = V!NoAnswer
  BY DEF InspectInit
<1>2. NestInv /\ MarkInv /\ CallsInv
  BY <1>1, NestInvInit, MarkInvInit, CallsInvInit
<1>3. outcome = "start"
  BY <1>1 DEF Init
<1> QED
  BY <1>1, <1>2, <1>3 DEF HookInv

\* The first three parts depend on what the walk is made of, which the answer is not.
LEMMA WalkStands ==
  ASSUME NestInv, MarkInv, CallsInv, UNCHANGED vars
  PROVE  NestInv' /\ MarkInv' /\ CallsInv'
<1>1. [Next]_vars
  OBVIOUS
<1> QED
  BY <1>1, NestInvStep, MarkInvStep, CallsInvStep

LEMMA AnswerTyped ==
  ASSUME config \in Configs, NestInv, Evaluate
  PROVE  answer' \in [dec : Decision, reason : V!Place] /\ answer'.reason.cmd \in 0 .. Len(cmds)
<1>1. PICK F, d, why : /\ Grounds(F) /\ d \in Decision /\ V!IsVerdict(F, d, why)
                       /\ why \in F \cup {V!NoReason}
                       /\ answer' = [dec |-> d, reason |-> why]
  BY EvaluateIs
<1>2. Len(cmds) \in Nat /\ DOMAIN cmds = 1 .. Len(cmds) /\ Len(config.rules) \in Nat
  BY SequentialLen, ConfigsAssumption DEF NestInv
<1>3. V!NoReason \in V!Place /\ V!NoReason.cmd = 0
  BY DEF V!NoReason, V!Place
<1>4. \A p \in F : p \in V!Place /\ p.cmd \in DOMAIN cmds
  BY <1>1, <1>2 DEF Grounds, V!Place
<1>5. why \in V!Place /\ why.cmd \in 0 .. Len(cmds)
  BY <1>1, <1>2, <1>3, <1>4
<1>6. answer'.reason = why
  BY <1>1
<1> QED
  BY <1>1, <1>5, <1>6

LEMMA HookInvStep == HookInv /\ [InspectNext]_inspectVars => HookInv'
<1> SUFFICES ASSUME HookInv, [InspectNext]_inspectVars PROVE HookInv'
  OBVIOUS
<1> DEFINE Typed == answer \in [dec : Decision, reason : V!Place] /\ answer.reason.cmd \in 0 .. Len(cmds)
<1>1. NestInv /\ MarkInv /\ CallsInv /\ config \in Configs /\ parser = pickParser(config)
  BY DEF HookInv
<1>2. outcome \in {"start", "running", "parsed", "error"}
      /\ (answer = V!NoAnswer \/ (Typed /\ outcome \in {"parsed", "error"}))
  BY DEF HookInv
<1>3. config' = config /\ parser' = parser
  BY DEF InspectNext, Parsing, Evaluate, ParseError, Next, Start, Visit, ParseTarget, Up, Return, inspectVars, vars
<1>4. config' \in Configs /\ parser' = pickParser(config)'
  BY <1>1, <1>3 DEF pickParser
<1>5. [Next]_vars
  BY DEF InspectNext, Parsing, Evaluate, ParseError, inspectVars
<1>6. NestInv' /\ MarkInv' /\ CallsInv'
  BY <1>1, <1>5, NestInvStep, MarkInvStep, CallsInvStep
<1>7. CASE Parsing
  <2>1. answer' = answer /\ Next
    BY <1>7 DEF Parsing
  <2>2. outcome \in {"start", "running"} /\ outcome' \in {"start", "running", "parsed", "error"}
    BY <1>2, <2>1 DEF Next, Start, Visit, ParseTarget, Up, Return
  <2>3. answer = V!NoAnswer
    BY <1>2, <2>2
  <2> QED
    BY <1>4, <1>6, <2>1, <2>2, <2>3 DEF HookInv, V!NoAnswer, V!NoReason
<1>8. CASE Evaluate
  <2>1. outcome = "parsed" /\ outcome' = outcome /\ cmds' = cmds
    BY <1>8 DEF Evaluate, vars
  <2>2. Typed'
    BY <1>1, <1>8, <2>1, AnswerTyped
  <2> QED
    BY <1>4, <1>6, <2>1, <2>2 DEF HookInv, V!Place, Decision
<1>9. CASE ParseError
  <2>1. /\ outcome = "error" /\ outcome' = outcome /\ cmds' = cmds
        /\ answer' = [dec |-> "ask", reason |-> V!NoReason]
    BY <1>9 DEF ParseError, vars
  <2>2. V!NoReason \in V!Place /\ V!NoReason.cmd = 0 /\ "ask" \in Decision
    BY DEF V!NoReason, V!Place, Decision
  <2>3. Len(cmds) \in Nat
    BY <1>1, SequentialLen DEF NestInv
  <2>4. answer'.reason = V!NoReason
    BY <2>1
  <2>5. Typed'
    BY <2>1, <2>2, <2>3, <2>4
  <2> QED
    BY <1>4, <1>6, <2>1, <2>5 DEF HookInv, V!Place, Decision
<1>10. CASE UNCHANGED inspectVars
  <2>1. outcome' = outcome /\ cmds' = cmds /\ answer' = answer
    BY <1>10 DEF inspectVars, vars
  <2> QED
    BY <1>2, <1>4, <1>6, <2>1 DEF HookInv, V!Place, Decision, V!NoAnswer, V!NoReason
<1> QED
  BY <1>7, <1>8, <1>9, <1>10 DEF InspectNext

LEMMA HookInvTypes == HookInv => InspectTypeOK
<1> SUFFICES ASSUME HookInv PROVE InspectTypeOK
  OBVIOUS
<1>1. NestInv /\ MarkInv /\ CallsInv
  BY DEF HookInv
<1>2. Sequential(cmds) /\ Len(cmds) \in Nat /\ DOMAIN cmds = 1 .. Len(cmds)
  BY <1>1, SequentialLen DEF NestInv
<1>3. cmds \in Seq(Command)
  <2>1. ASSUME NEW k \in DOMAIN cmds PROVE cmds[k] \in Command
    <3>1. cmds[k].words \in Seq(Words)
      BY <1>1 DEF CallsInv
    <3>2. cmds[k] \in [words : {cmds[k].words}, depth : Nat, owner : Nat, inspectionFailed : BOOLEAN]
      BY <1>1 DEF NestInv, CommandOK
    <3> QED
      BY <3>1, <3>2 DEF Command
  <2> QED
    BY <1>2, <2>1 DEF Sequential
<1>4. ASSUME NEW n \in DOMAIN levels
      PROVE  /\ levels[n].depth = n - 1 /\ n - 1 <= maxDepth /\ levels[n].owner \in 0 .. Len(cmds)
             /\ levels[n].targets \in Seq(Seq(Words)) /\ levels[n].calls \in Seq(Seq(Words))
  <2>1. LevelOK(n) /\ TargetsOK(n)
    BY <1>1 DEF NestInv, MarkInv
  <2>2. levels[n].depth = n - 1 /\ levels[n].owner \in 0 .. Len(cmds)
    BY <2>1 DEF LevelOK
  <2>3. Range(levels[n].targets) \subseteq Seq(Words)
    <3>1. CASE n = 1
      BY <2>1, <3>1 DEF TargetsOK
    <3>2. CASE n # 1
      <4> DEFINE call == cmds[levels[n].owner].words
      <4>1. levels[n].owner \in DOMAIN cmds
        BY <1>2, <2>1, <2>2, <3>2 DEF LevelOK
      <4>2. call \in Seq(Words) /\ parser \in Parsers
        BY <1>1, <4>1 DEF CallsInv, MarkInv
      <4>3. Range(levels[n].targets) \subseteq TargetsOf(call)
        BY <2>1, <3>2 DEF TargetsOK
      <4> HIDE DEF call
      <4> QED
        BY <4>2, <4>3, TargetsTyped
    <3> QED
      BY <3>1, <3>2
  <2>4. levels[n].targets \in Seq(Seq(Words))
    BY <2>1, <2>3, SeqMonotonic DEF TargetsOK, Sequential
  <2>5. n - 1 <= maxDepth
    BY <2>1 DEF TargetsOK
  <2> QED
    BY <1>1, <2>2, <2>4, <2>5 DEF CallsInv
<1>5. TypeOK
  BY <1>1, <1>3, <1>4 DEF TypeOK, MarkInv, CallsInv, HookInv
<1>6. answer \in [dec : Decision, reason : V!Place] \cup {V!NoAnswer} /\ answer.reason.cmd \in 0 .. Len(cmds)
  BY <1>2, NoAnswerIs DEF HookInv
<1> QED
  BY <1>5, <1>6 DEF InspectTypeOK, HookInv

\* The types hold whatever the words, the specs, the rules and the lines are, and nothing
\* is parsed beyond the depth limit (InspectTypeOK).
THEOREM InspectionIsTyped == InspectSpec => []InspectTypeOK
<1> QED
  BY HookInvInit, HookInvStep, HookInvTypes, PTL DEF InspectSpec

LEMMA DeservesKept ==
  ASSUME Kept, line' = line
  PROVE  Deserves' = Deserves
BY WorstKept DEF Deserves

LEMMA EvaluateDeserves ==
  ASSUME HookInv, OwesInv, SubstitutionsNest, UnambiguousRules, Evaluate
  PROVE  rank(answer'.dec) = Deserves
<1>1. NestInv /\ MarkInv /\ CallsInv /\ config \in Configs /\ outcome = "parsed"
  BY DEF HookInv, Evaluate
<1>2. PICK F, d, why : /\ Grounds(F) /\ d \in Decision /\ V!IsVerdict(F, d, why)
                       /\ answer' = [dec |-> d, reason |-> why]
  BY EvaluateIs
<1>3. MarkedWhenUnseen
  BY <1>1, MarkInvMarks
<1>4. levels = << >>
  BY <1>1 DEF NestInv
<1>5. \A k \in {2, 3} : Owed(k) <=> \E i \in DOMAIN cmds : GraveItself(k, cmds[i].words, cmds[i].depth)
  BY <1>4, EmptyIsSequential DEF Owed
<1>6. line # NotShell /\ \A k \in {2, 3} : Owed(k) <=> GraveCalls(k, line, 0)
  BY <1>1 DEF OwesInv
<1>7. \A k \in {2, 3} : rank(d) >= k <=> \E p \in F : V!strength(p) >= k
  BY <1>2, VerdictIs
<1>8. \A k \in {2, 3} : (\E p \in F : V!strength(p) >= k) <=>
                          \E i \in DOMAIN cmds : GraveItself(k, cmds[i].words, cmds[i].depth)
  BY <1>1, <1>2, <1>3, GroundsAre
<1>9. Deserves \in 1 .. 3 /\ \A k \in {2, 3} : Deserves >= k <=> GraveCalls(k, line, 0)
  BY <1>1, <1>6, DeservesIs DEF MarkInv, CallsInv
<1>10. rank(d) \in 1 .. 3
  BY <1>2, RankIs
<1>11. \A k \in {2, 3} : rank(d) >= k <=> Deserves >= k
  BY <1>5, <1>6, <1>7, <1>8, <1>9
<1>12. rank(d) = Deserves
  <2>1. (rank(d) >= 2 <=> Deserves >= 2) /\ (rank(d) >= 3 <=> Deserves >= 3)
    BY <1>11
  <2> QED
    BY <1>9, <1>10, <2>1
<1> QED
  BY <1>2, <1>12

LEMMA DeserveInvStep ==
  ASSUME SubstitutionsNest, UnambiguousRules, HookInv, DeserveInv, [InspectNext]_inspectVars
  PROVE  DeserveInv'
<1>1. OwesInv /\ AnswerIsDeserved /\ NestInv /\ MarkInv /\ CallsInv /\ config \in Configs
  BY DEF DeserveInv, HookInv
<1>2. Kept /\ line' = line
  BY DEF Kept, InspectNext, Parsing, Evaluate, ParseError, Next, Start, Visit, ParseTarget, Up, Return,
         inspectVars, vars
<1>3. Deserves' = Deserves
  BY <1>2, DeservesKept
<1>4. ASSUME UNCHANGED vars PROVE OwesInv'
  <2>1. \A k \in {2, 3} : (Owed(k)' <=> Owed(k)) /\ (GraveCalls(k, line, 0)' <=> GraveCalls(k, line, 0))
    BY <1>2, <1>4, GraveKept DEF Owed, vars, GraveCalls
  <2> QED
    BY <1>1, <1>4, <2>1 DEF OwesInv, vars
<1>5. CASE Parsing
  <2>1. answer' = answer /\ Next
    BY <1>5 DEF Parsing
  <2>2. outcome \in {"start", "running"}
    BY <2>1 DEF Next, Start, Visit, ParseTarget, Up, Return
  <2>3. answer = V!NoAnswer
    BY <2>2 DEF HookInv
  <2>4. AnswerIsDeserved'
    BY <2>1, <2>3 DEF AnswerIsDeserved, Answered, V!NoAnswer, V!NoReason
  <2> QED
    BY <1>1, <1>2, <2>1, <2>4, OwesInvStep DEF DeserveInv
<1>6. CASE Evaluate
  <2>1. UNCHANGED vars
    BY <1>6 DEF Evaluate
  <2>2. rank(answer'.dec) = Deserves
    BY <1>1, <1>6, EvaluateDeserves
  <2>3. AnswerIsDeserved'
    BY <1>3, <2>2 DEF AnswerIsDeserved, rank
  <2> QED
    BY <1>4, <2>1, <2>3 DEF DeserveInv
<1>7. CASE ParseError
  <2>1. UNCHANGED vars /\ outcome = "error" /\ answer'.dec = "ask"
    BY <1>7 DEF ParseError
  <2>2. Deserves = rank("ask")
    BY <1>1, <2>1 DEF OwesInv, Deserves
  <2>3. AnswerIsDeserved'
    BY <1>3, <2>1, <2>2 DEF AnswerIsDeserved, rank
  <2> QED
    BY <1>4, <2>1, <2>3 DEF DeserveInv
<1>8. CASE UNCHANGED inspectVars
  <2>1. UNCHANGED vars /\ answer' = answer
    BY <1>8 DEF inspectVars
  <2>2. AnswerIsDeserved'
    BY <1>1, <1>3, <2>1 DEF AnswerIsDeserved, Answered, V!NoAnswer, V!NoReason, rank
  <2> QED
    BY <1>4, <2>1, <2>2 DEF DeserveInv
<1> QED
  BY <1>5, <1>6, <1>7, <1>8 DEF InspectNext

LEMMA DeserveInvInit == InspectInit => DeserveInv
BY OwesInvInit DEF InspectInit, DeserveInv, AnswerIsDeserved, Answered

\* What the hook answers on a line is the strictest of what its calls deserve, at any
\* depth (evaluate.go:10-16, bash_parser.go): the walk loses nothing between the line and
\* the list of commands, and the evaluation nothing between the list and the answer.
\* Without UnambiguousRules it depends on the order in which Go ranges over a map.
THEOREM AnswersAreDeserved ==
  ASSUME SubstitutionsNest, UnambiguousRules
  PROVE  InspectSpec => []AnswerIsDeserved
<1>1. HookInv /\ DeserveInv /\ [InspectNext]_inspectVars => DeserveInv'
  BY DeserveInvStep
<1>2. DeserveInv => AnswerIsDeserved
  BY DEF DeserveInv
<1> QED
  BY <1>1, <1>2, HookInvInit, HookInvStep, DeserveInvInit, PTL DEF InspectSpec
================================================================================
