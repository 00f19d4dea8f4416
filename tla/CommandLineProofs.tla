---------------------------- MODULE CommandLineProofs --------------------------
(* Proofs that the two scans of a wrapper's words agree, and that a command     *)
(* line that grows loses nothing, for every lexicon, wrapper and length.        *)
EXTENDS CommandLine, CommonProofs

\* A call: the command and the words after it.
Line(ws) == ws \in Seq(Words) /\ Len(ws) >= 1

--------------------------------------------------------------------------------
(* Reading one word *)

Names == {Shape[w].name : w \in Words} \cup UNION {{Shape[w].letters[j] : j \in DOMAIN Shape[w].letters} : w \in Words}
Values == Words \cup {Shape[w].value : w \in Words}
            \cup UNION {{Shape[w].rests[j] : j \in DOMAIN Shape[w].letters} : w \in Words}
Captures == [flag : Names, value : Values]
Norms == [flags : SUBSET Names, captured : Seq(Captures), args : Seq(Nat), ok : BOOLEAN]

LEMMA Lined ==
  ASSUME NEW ws, Line(ws)
  PROVE  /\ Len(ws) \in Nat /\ DOMAIN ws = 1 .. Len(ws)
         /\ \A i \in 1 .. Len(ws) : ws[i] \in Words
         /\ HasLength(ws)
BY DEF Line, HasLength

\* How a flag is read: it has no value, or one in its own word, or the next word is it.
Alone(r, flags, i) == r = Read(flags, << >>, i + 1, TRUE)
Attached(r, flags, f, v, i) == r = Read(flags, <<Capture(f, v)>>, i + 1, TRUE)


\* A bundle whose last letter is the first that takes a value, which is the next word.
EndsTaking(s, vt) ==
  /\ s.kind = "short" /\ ~s.eq /\ s.name \notin vt
  /\ \E j \in DOMAIN s.letters : s.letters[j] \in vt
  /\ \A j \in DOMAIN s.letters : s.letters[j] \in vt => j = Len(s.letters)

LEMMA FlagRead ==
  ASSUME NEW ws, Line(ws), NEW i \in 1 .. Len(ws), NEW vt, isFlagToken(ws[i])
  PROVE  LET s == Shape[ws[i]]
             r == ReadWord(ws, i, vt)
         IN  \E flags \in SUBSET Names, f \in Names, v \in Values :
               /\ f \in {s.name} \cup {s.letters[j] : j \in DOMAIN s.letters}
               /\ \/ s.eq /\ Attached(r, flags, f, v, i) /\ f = s.name /\ v = s.value
                  \/ ~s.eq /\ s.name \in vt /\ r = TakeNext(ws, i, flags, f) /\ f = s.name
                  \/ ~s.eq /\ s.name \notin vt /\ (Alone(r, flags, i) \/ Attached(r, flags, f, v, i))
                  \/ EndsTaking(s, vt) /\ r = TakeNext(ws, i, flags, f)
<1> DEFINE w == Shape[ws[i]]
           r == ReadWord(ws, i, vt)
           taking == {j \in DOMAIN w.letters : w.letters[j] \in vt}
           first == CHOOSE j \in taking : \A j2 \in taking : j <= j2
           upTo(n) == {w.letters[j] : j \in 1 .. n}
<1>1. /\ ws[i] \in Words /\ w.kind \in {"long", "short"} /\ w.letters \in Seq({w.letters[j] : j \in DOMAIN w.letters})
      /\ w.eq \in BOOLEAN
  BY LexiconAssumption, Lined DEF isFlagToken
<1>2. w.name \in Names /\ w.value \in Values /\ {w.name} \in SUBSET Names
  BY <1>1 DEF Names, Values
<1>3. \A j \in DOMAIN w.letters : w.letters[j] \in Names /\ w.rests[j] \in Values
  BY <1>1 DEF Names, Values
<1>4. CASE w.eq
  <2>1. r = Read({w.name}, <<Capture(w.name, w.value)>>, i + 1, TRUE)
    BY <1>1, <1>4 DEF ReadWord, handleDoubleDash, handleSingleDash
  <2> QED
    BY <1>2, <1>4, <2>1 DEF Attached
<1>5. CASE ~w.eq /\ w.name \in vt
  <2>1. r = TakeNext(ws, i, {w.name}, w.name)
    BY <1>1, <1>5 DEF ReadWord, handleDoubleDash, handleSingleDash
  <2> QED
    BY <1>2, <1>5, <2>1
<1>6. CASE ~w.eq /\ w.name \notin vt /\ w.kind = "long"
  <2>1. Alone(r, {w.name}, i)
    BY <1>1, <1>6 DEF ReadWord, handleDoubleDash, Alone
  <2> QED
    BY <1>2, <1>6, <2>1
<1>7. CASE ~w.eq /\ w.name \notin vt /\ w.kind = "short"
  <2>1. r = IF taking = {} THEN Read(upTo(Len(w.letters)), << >>, i + 1, TRUE)
            ELSE IF first < Len(w.letters)
              THEN Read(upTo(first), <<Capture(w.letters[first], w.rests[first])>>, i + 1, TRUE)
            ELSE TakeNext(ws, i, upTo(first), w.letters[first])
    BY <1>7 DEF ReadWord, handleSingleDash
  <2>2. DOMAIN w.letters = 1 .. Len(w.letters) /\ Len(w.letters) \in Nat
    BY <1>1
  <2> HIDE DEF w, r
  <2>3. CASE taking = {}
    <3>1. upTo(Len(w.letters)) \in SUBSET Names
      BY <1>3, <2>2
    <3>2. Alone(r, upTo(Len(w.letters)), i)
      BY <2>1, <2>3 DEF Alone
    <3> QED
      BY <1>2, <1>7, <3>1, <3>2 DEF w, r
  <2>4. CASE taking # {}
    <3>1. taking \in SUBSET Nat
      BY <2>2
    <3>2. first \in taking /\ \A j \in taking : first <= j
      <4> HIDE DEF taking
      <4> QED  BY <3>1, <2>4, Least
    <3>3. first \in 1 .. Len(w.letters) /\ w.letters[first] \in vt
      BY <3>2, <2>2
    <3> HIDE DEF first
    <3>4. upTo(first) \in SUBSET Names /\ w.letters[first] \in Names /\ w.rests[first] \in Values
      BY <1>3, <2>2, <3>3
    <3>5. CASE first < Len(w.letters)
      <4>1. Attached(r, upTo(first), w.letters[first], w.rests[first], i)
        BY <2>1, <2>4, <3>5 DEF Attached
      <4>2. w.letters[first] \in {w.letters[j] : j \in DOMAIN w.letters}
        BY <2>2, <3>3
      <4> QED
        BY <1>7, <3>4, <4>1, <4>2 DEF w, r
    <3>6. CASE ~(first < Len(w.letters))
      <4>1. r = TakeNext(ws, i, upTo(first), w.letters[first])
        BY <2>1, <2>4, <3>6
      <4>2. w.letters[first] \in {w.letters[j] : j \in DOMAIN w.letters}
        BY <2>2, <3>3
      <4>3. \A j \in DOMAIN w.letters : w.letters[j] \in vt => j = Len(w.letters)
        BY <2>2, <3>2, <3>3, <3>6
      <4>4. EndsTaking(w, vt)
        BY <1>7, <2>2, <3>3, <4>3 DEF EndsTaking
      <4> QED
        BY <1>2, <3>4, <4>1, <4>2, <4>4 DEF w, r
    <3> QED
      BY <3>5, <3>6
  <2> QED
    BY <2>3, <2>4
<1> QED
  BY <1>1, <1>4, <1>5, <1>6, <1>7

LEMMA WordRead ==
  ASSUME NEW ws, Line(ws), NEW i \in 1 .. Len(ws), NEW vt, Shape[ws[i]].kind # "terminator"
  PROVE  LET r == ReadWord(ws, i, vt)
         IN  /\ r.next \in {i + 1, i + 2} /\ r.next <= Len(ws) + 1
             /\ r.flags \in SUBSET Names /\ r.captured \in Seq(Captures) /\ r.args \in Seq(Nat) /\ r.ok \in BOOLEAN
             /\ ~isFlagToken(ws[i]) =>
                  r.flags = {} /\ r.captured = << >> /\ r.args = <<i>> /\ r.next = i + 1 /\ r.ok = TRUE
<1> DEFINE r == ReadWord(ws, i, vt)
<1>1. CASE isFlagToken(ws[i])
  <2>1. PICK flags \in SUBSET Names, f \in Names, v \in Values :
          Alone(r, flags, i) \/ Attached(r, flags, f, v, i) \/ r = TakeNext(ws, i, flags, f)
    BY <1>1, FlagRead
  <2>2. ASSUME i < Len(ws) PROVE <<Capture(f, ws[i + 1])>> \in Seq(Captures)
    <3>1. ws[i + 1] \in Values
      BY <2>2, Lined DEF Values
    <3>2. Capture(f, ws[i + 1]) \in Captures
      BY <3>1 DEF Capture, Captures
    <3> QED
      BY <3>2
  <2>3. <<Capture(f, v)>> \in Seq(Captures)
    <3>1. Capture(f, v) \in Captures
      BY DEF Capture, Captures
    <3> QED
      BY <3>1
  <2>4. CASE Alone(r, flags, i)
    BY <1>1, <2>4, Lined DEF Alone, Read
  <2>5. CASE Attached(r, flags, f, v, i)
    BY <1>1, <2>3, <2>5, Lined DEF Attached, Read
  <2>6. CASE r = TakeNext(ws, i, flags, f)
    BY <1>1, <2>2, <2>6, Lined DEF TakeNext, Read
  <2> QED
    BY <2>1, <2>4, <2>5, <2>6
<1>2. CASE ~isFlagToken(ws[i])
  <2>1. Shape[ws[i]].kind = "plain"
    BY <1>2, LexiconAssumption, Lined DEF isFlagToken
  <2>2. r = [Read({}, << >>, i + 1, TRUE) EXCEPT !.args = <<i>>]
    BY <2>1 DEF ReadWord
  <2> HIDE DEF r
  <2>3. i \in Nat /\ i <= Len(ws) /\ Len(ws) \in Nat
    BY Lined
  <2> QED
    BY <1>2, <2>2, <2>3 DEF r, Read
<1> QED
  BY <1>1, <1>2

--------------------------------------------------------------------------------
(* The loop of Normalize *)

Rest(ws, i) == Positionals([j \in 1 .. Len(ws) - i |-> i + j])

\* What the words from each place on add.
Reads(norms, ws, vt) ==
  /\ norms \in [2 .. Len(ws) + 1 -> Norms]
  /\ norms[Len(ws) + 1] = Nothing
  /\ \A i \in 2 .. Len(ws) :
       norms[i] = IF Shape[ws[i]].kind = "terminator" THEN Rest(ws, i)
                  ELSE Joined(ReadWord(ws, i, vt), norms[ReadWord(ws, i, vt).next])

LEMMA NothingRead == Nothing \in Norms
BY DEF Nothing, Positionals, Norms

LEMMA RestRead ==
  ASSUME NEW ws, Line(ws), NEW i \in 2 .. Len(ws)
  PROVE  Rest(ws, i) \in Norms /\ Len(Rest(ws, i).args) = Len(ws) - i
         /\ \A j \in 1 .. Len(ws) - i : Rest(ws, i).args[j] = i + j
<1> DEFINE args == [j \in 1 .. Len(ws) - i |-> i + j]
<1>1. Len(ws) - i \in Nat /\ \A j \in 1 .. Len(ws) - i : i + j \in Nat
  BY Lined
<1>2. args \in Seq(Nat) /\ Len(args) = Len(ws) - i
  BY <1>1
<1>3. Rest(ws, i) = [flags |-> {}, captured |-> << >>, args |-> args, ok |-> TRUE]
  BY DEF Rest, Positionals
<1> HIDE DEF args
<1>4. Rest(ws, i).args = args /\ Rest(ws, i) \in Norms
  BY <1>2, <1>3 DEF Norms
<1> QED
  BY <1>1, <1>2, <1>4 DEF args

LEMMA JoinedIs ==
  ASSUME NEW r, NEW rest
  PROVE  Joined(r, rest) = [flags |-> r.flags \cup rest.flags, captured |-> r.captured \o rest.captured,
                            args |-> r.args \o rest.args, ok |-> r.ok /\ rest.ok]
BY DEF Joined

LEMMA JoinedFields ==
  ASSUME NEW r, NEW rest
  PROVE  /\ Joined(r, rest).flags = r.flags \cup rest.flags
         /\ Joined(r, rest).captured = r.captured \o rest.captured
         /\ Joined(r, rest).args = r.args \o rest.args
         /\ Joined(r, rest).ok = (r.ok /\ rest.ok)
BY JoinedIs

LEMMA JoinedRead ==
  ASSUME NEW r, r.flags \in SUBSET Names, r.captured \in Seq(Captures), r.args \in Seq(Nat), r.ok \in BOOLEAN,
         NEW rest \in Norms
  PROVE  Joined(r, rest) \in Norms
<1>1. /\ rest.flags \in SUBSET Names /\ rest.captured \in Seq(Captures) /\ rest.args \in Seq(Nat)
      /\ rest.ok \in BOOLEAN
  BY DEF Norms
<1>2. /\ r.flags \cup rest.flags \in SUBSET Names /\ r.captured \o rest.captured \in Seq(Captures)
      /\ r.args \o rest.args \in Seq(Nat) /\ (r.ok /\ rest.ok) \in BOOLEAN
  BY <1>1
<1>3. \A a \in SUBSET Names, b \in Seq(Captures), c \in Seq(Nat), d \in BOOLEAN :
        [flags |-> a, captured |-> b, args |-> c, ok |-> d] \in Norms
  BY DEF Norms
<1> QED
  BY <1>2, <1>3, JoinedIs, Zenon

LEMMA NormalizeUnfolds ==
  ASSUME NEW ws, Line(ws), NEW vt
  PROVE  \E norms : Reads(norms, ws, vt) /\ Normalize(ws, vt) = norms[2]
<1> DEFINE D == 2 .. Len(ws) + 1
           body(f, i) ==
             IF i > Len(ws) THEN Nothing
             ELSE IF Shape[ws[i]].kind = "terminator"
               THEN Positionals([j \in 1 .. Len(ws) - i |-> i + j])
             ELSE LET read == ReadWord(ws, i, vt)
                      rest == f[read.next]
                  IN  Joined(read, rest)
           from == CHOOSE f : f = [i \in D |-> body(f, i)]
           H == [p \in [D -> Norms] \X D |-> body(p[1], p[2])]
           left == [i \in D |-> Len(ws) + 1 - i]
<1>1. Len(ws) \in Nat /\ Len(ws) >= 1 /\ ws # << >>
  BY DEF Line
<1>2. Normalize(ws, vt) = from[2]
  BY <1>1, Zenon DEF Normalize
<1>3. ASSUME NEW f \in [D -> Norms], NEW i \in D
      PROVE  body(f, i) \in Norms
  <2>1. CASE i > Len(ws)
    BY <2>1, NothingRead
  <2>2. CASE ~(i > Len(ws)) /\ Shape[ws[i]].kind = "terminator"
    <3>1. i \in 2 .. Len(ws)
      BY <1>1, <2>2
    <3>2. Rest(ws, i) \in Norms
      BY <3>1, RestRead
    <3>3. body(f, i) = Rest(ws, i)
      BY <2>2 DEF Rest
    <3> HIDE DEF body
    <3> QED
      BY <3>2, <3>3
  <2>3. CASE ~(i > Len(ws)) /\ Shape[ws[i]].kind # "terminator"
    <3>1. i \in 1 .. Len(ws)
      BY <1>1, <2>3
    <3>2. ReadWord(ws, i, vt).next \in D
      BY <1>1, <3>1, <2>3, WordRead
    <3>3. Joined(ReadWord(ws, i, vt), f[ReadWord(ws, i, vt).next]) \in Norms
      BY <2>3, <3>1, <3>2, WordRead, JoinedRead
    <3> QED
      BY <2>3, <3>3
  <2> QED
    BY <2>1, <2>2, <2>3
<1>4. left \in [D -> 0 .. Len(ws)]
  BY <1>1
<1>5. ASSUME NEW f, NEW g, NEW i \in D,
             \A j \in D : left[j] < left[i] => f[j] = g[j]
      PROVE  body(f, i) = body(g, i)
  <2>1. CASE i > Len(ws) \/ Shape[ws[i]].kind = "terminator"
    BY <2>1
  <2>2. CASE ~(i > Len(ws)) /\ Shape[ws[i]].kind # "terminator"
    <3>1. i \in 1 .. Len(ws)
      BY <1>1, <2>2
    <3>2. ReadWord(ws, i, vt).next \in D /\ ReadWord(ws, i, vt).next > i
      <4>1. ReadWord(ws, i, vt).next \in {i + 1, i + 2} /\ ReadWord(ws, i, vt).next <= Len(ws) + 1
        BY <3>1, <2>2, WordRead
      <4> HIDE DEF body, H, from, left
      <4> QED
        BY <1>1, <3>1, <4>1
    <3>3. left[ReadWord(ws, i, vt).next] < left[i]
      BY <1>1, <3>2
    <3>4. f[ReadWord(ws, i, vt).next] = g[ReadWord(ws, i, vt).next]
      BY <1>5, <3>2, <3>3
    <3> QED
      BY <2>2, <3>4
  <2> QED
    BY <2>1, <2>2
<1> HIDE DEF body
<1>6. \A f \in [D -> Norms], i \in D : H[<<f, i>>] = body(f, i)
  OBVIOUS
<1> HIDE DEF H, left
<1>7. PICK f \in [D -> Norms] : \A i \in D : f[i] = H[<<f, i>>]
  <2>1. \A g \in [D -> Norms], i \in D : H[<<g, i>>] \in Norms
    BY <1>3, <1>6
  <2>2. \A g, h \in [D -> Norms], i \in D :
          (\A j \in D : left[j] < left[i] => g[j] = h[j]) => H[<<g, i>>] = H[<<h, i>>]
    BY <1>5, <1>6
  <2>3. Norms # {} /\ Len(ws) \in Nat
    BY <1>1, NothingRead
  <2>4. IsRecursion(D, Norms, Len(ws), left, H)
    <3> HIDE DEF D
    <3> QED  BY <1>4, <2>1, <2>2, <2>3 DEF IsRecursion
  <2> HIDE DEF D
  <2> QED
    BY <2>4, RecursionIsSound
<1>8. f = [i \in D |-> body(f, i)]
  BY <1>6, <1>7
<1>9. from = [i \in D |-> body(from, i)]
  BY <1>8
<1>10. \A i \in D : from[i] = f[i]
  <2>1. \A i \in D : left[i] \in Nat
    BY <1>4
  <2>2. \A i \in D : from[i] = body(from, i) /\ f[i] = body(f, i)
    BY <1>8, <1>9
  <2>3. \A i \in D : (\A j \in D : left[j] < left[i] => from[j] = f[j]) => from[i] = f[i]
    BY <1>5, <2>2
  <2>4. AgreeStepwise(D, left, from, f)
    BY <2>1, <2>3 DEF AgreeStepwise
  <2> HIDE DEF from, D
  <2> QED
    BY <2>4, RecursionIsUnique
<1>11. Reads(f, ws, vt) /\ from[2] = f[2]
  <2>1. \A i \in D : f[i] = body(f, i)
    BY <1>8
  <2>2. f[Len(ws) + 1] = Nothing
    BY <1>1, <2>1 DEF body
  <2>3. \A i \in 2 .. Len(ws) :
          f[i] = IF Shape[ws[i]].kind = "terminator" THEN Rest(ws, i)
                 ELSE Joined(ReadWord(ws, i, vt), f[ReadWord(ws, i, vt).next])
    BY <1>1, <2>1 DEF body, Rest
  <2>4. f \in [2 .. Len(ws) + 1 -> Norms] /\ 2 \in D
    BY <1>1
  <2> HIDE DEF from
  <2> QED
    BY <1>10, <2>2, <2>3, <2>4 DEF Reads
<1> QED
  BY <1>2, <1>11

--------------------------------------------------------------------------------
(* The two scans *)

\* No word is a bundle whose last letter alone takes a value.
NoBundleTakes(vt) == \A w \in Words : ~EndsTaking(Shape[w], vt)

\* The positionals from a word on; there are none past the end.
ArgsFrom(norms, ws, i) == IF i <= Len(ws) + 1 THEN norms[i].args ELSE << >>

\* The k-th of them, or the end of the words.
Nth(args, k, ws) == IF k <= Len(args) THEN args[k] ELSE Len(ws) + 1

\* Where what begins at a word begins, its "--" left out.
Inner(ws, at) == IF at <= Len(ws) /\ Shape[ws[at]].kind = "terminator" THEN at + 1 ELSE at

LEMMA Prepended ==
  ASSUME NEW i \in Nat, NEW args \in Seq(Nat), NEW ws
  PROVE  /\ Len(<<i>> \o args) = Len(args) + 1
         /\ (<<i>> \o args)[1] = i
         /\ \A k \in Nat : k >= 1 => Nth(<<i>> \o args, k + 1, ws) = Nth(args, k, ws)
<1>1. Len(<<i>> \o args) = Len(args) + 1 /\ (<<i>> \o args)[1] = i
  OBVIOUS
<1>2. \A k \in 1 .. Len(args) : (<<i>> \o args)[k + 1] = args[k]
  OBVIOUS
<1>3. Len(args) \in Nat
  OBVIOUS
<1> DEFINE more == <<i>> \o args
<1> HIDE DEF more
<1>4. ASSUME NEW k \in Nat, k >= 1 PROVE Nth(more, k + 1, ws) = Nth(args, k, ws)
  BY <1>1, <1>2, <1>3, <1>4 DEF Nth, more
<1> QED
  BY <1>1, <1>4 DEF more

\* Both scans go on at the same word after a flag, and one positional is one positional.
InStep(norms, ws, vt, i) ==
  /\ ArgsFrom(norms, ws, i) \in Seq(Nat)
  /\ Shape[ws[i]].kind = "terminator" => norms[i].args = Rest(ws, i).args
  /\ isFlagToken(ws[i]) => ArgsFrom(norms, ws, i) = ArgsFrom(norms, ws, consumeFlag(ws, i, vt))
  /\ Shape[ws[i]].kind # "terminator" /\ ~isFlagToken(ws[i]) =>
       ArgsFrom(norms, ws, i) = <<i>> \o ArgsFrom(norms, ws, i + 1)

LEMMA SameStep ==
  ASSUME NEW ws, Line(ws), NEW vt, NoBundleTakes(vt), NEW norms, Reads(norms, ws, vt), NEW i \in 2 .. Len(ws)
  PROVE  InStep(norms, ws, vt, i)
<1> SUFFICES /\ ArgsFrom(norms, ws, i) \in Seq(Nat)
             /\ Shape[ws[i]].kind = "terminator" => norms[i].args = Rest(ws, i).args
             /\ isFlagToken(ws[i]) => ArgsFrom(norms, ws, i) = ArgsFrom(norms, ws, consumeFlag(ws, i, vt))
             /\ Shape[ws[i]].kind # "terminator" /\ ~isFlagToken(ws[i]) =>
                  ArgsFrom(norms, ws, i) = <<i>> \o ArgsFrom(norms, ws, i + 1)
  BY DEF InStep
<1> DEFINE w == Shape[ws[i]]
           r == ReadWord(ws, i, vt)
<1>1. /\ Len(ws) \in Nat /\ i \in 1 .. Len(ws) /\ i \in 2 .. Len(ws) + 1 /\ i <= Len(ws) + 1
      /\ w.kind \in {"plain", "terminator", "long", "short"} /\ w.eq \in BOOLEAN /\ ~EndsTaking(w, vt)
  <2>1. Len(ws) \in Nat /\ i \in 1 .. Len(ws) /\ ws[i] \in Words
    BY Lined
  <2>2. w.kind \in {"plain", "terminator", "long", "short"} /\ w.eq \in BOOLEAN
    BY <2>1, LexiconAssumption
  <2>3. ~EndsTaking(w, vt)
    BY <2>1 DEF NoBundleTakes
  <2> HIDE DEF w
  <2> QED
    BY <2>1, <2>2, <2>3
<1>2. norms[i] \in Norms /\ ArgsFrom(norms, ws, i) = norms[i].args
  BY <1>1 DEF Reads, ArgsFrom
<1>3. norms[i].args \in Seq(Nat)
  BY <1>2 DEF Norms
<1>4. CASE w.kind = "terminator"
  BY <1>2, <1>3, <1>4 DEF Reads, isFlagToken
<1>5. CASE w.kind # "terminator"
  <2>1. /\ norms[i] = Joined(r, norms[r.next])
        /\ r.next \in {i + 1, i + 2} /\ r.next <= Len(ws) + 1 /\ r.next \in 2 .. Len(ws) + 1
    <3>1. norms[i] = Joined(r, norms[r.next])
      BY <1>5 DEF Reads
    <3>2. r.next \in {i + 1, i + 2} /\ r.next <= Len(ws) + 1
      BY <1>1, <1>5, WordRead
    <3> HIDE DEF r
    <3> QED
      BY <1>1, <3>1, <3>2
  <2>2. norms[i].args = r.args \o norms[r.next].args
    <3> DEFINE rest == norms[r.next]
    <3>1. norms[i] = Joined(r, rest)
      BY <2>1
    <3>4. rest \in Norms
      BY <2>1 DEF Reads
    <3> HIDE DEF r, rest
    <3>2. Joined(r, rest).args = r.args \o rest.args
      BY <3>4, JoinedFields
    <3>3. norms[i].args = r.args \o rest.args
      BY <3>1, <3>2
    <3> QED
      BY <3>3 DEF rest
  <2>3. norms[r.next].args \in Seq(Nat)
    BY <2>1 DEF Reads, Norms
  <2>4. CASE isFlagToken(ws[i])
    <3>1. PICK flags \in SUBSET Names, f \in Names, v \in Values :
            \/ w.eq /\ Attached(r, flags, f, v, i)
            \/ ~w.eq /\ w.name \in vt /\ r = TakeNext(ws, i, flags, f)
            \/ ~w.eq /\ w.name \notin vt /\ (Alone(r, flags, i) \/ Attached(r, flags, f, v, i))
      BY <1>1, <2>4, FlagRead
    <3>2. r.args = << >>
      BY <3>1 DEF Alone, Attached, TakeNext, Read
    <3>3. norms[i].args = norms[r.next].args
      BY <2>2, <2>3, <3>2
    <3>4. consumeFlag(ws, i, vt) = r.next \/ (r.next = Len(ws) + 1 /\ consumeFlag(ws, i, vt) = Len(ws) + 2)
      BY <1>1, <3>1 DEF Alone, Attached, TakeNext, Read, consumeFlag
    <3>5. norms[Len(ws) + 1].args = << >>
      BY DEF Reads, Nothing, Positionals
    <3> HIDE DEF r
    <3>6. ArgsFrom(norms, ws, i) = ArgsFrom(norms, ws, consumeFlag(ws, i, vt))
      BY <1>1, <1>2, <2>1, <3>3, <3>4, <3>5 DEF ArgsFrom
    <3> QED
      BY <1>2, <1>3, <1>5, <2>4, <3>6
  <2>5. CASE ~isFlagToken(ws[i])
    <3>1. r.args = <<i>> /\ r.next = i + 1
      BY <1>1, <1>5, <2>5, WordRead DEF Read
    <3>2. ArgsFrom(norms, ws, i + 1) = norms[i + 1].args
      BY <2>1, <3>1 DEF ArgsFrom
    <3> QED
      BY <1>2, <1>3, <1>5, <2>2, <2>5, <3>1, <3>2
  <2> QED
    BY <2>4, <2>5
<1> QED
  BY <1>4, <1>5

\* Past the end nothing is left.
LEMMA EndOfLine ==
  ASSUME NEW ws, Line(ws), NEW vt, NEW norms, Reads(norms, ws, vt), NEW i \in Nat, i > Len(ws)
  PROVE  i \in 2 .. Len(ws) + 2 => ArgsFrom(norms, ws, i) = << >>
<1>1. norms[Len(ws) + 1].args = << >>
  BY DEF Reads, Nothing, Positionals
<1>2. Len(ws) \in Nat
  BY Lined
<1> QED
  BY <1>1, <1>2 DEF ArgsFrom

LEMMA ArgsTyped ==
  ASSUME NEW ws, Line(ws), NEW vt, NEW norms, Reads(norms, ws, vt), NEW i \in 2 .. Len(ws) + 2
  PROVE  ArgsFrom(norms, ws, i) \in Seq(Nat) /\ Len(ArgsFrom(norms, ws, i)) \in Nat
<1>1. Len(ws) \in Nat
  BY Lined
<1>2. CASE i <= Len(ws) + 1
  BY <1>1, <1>2 DEF ArgsFrom, Reads, Norms
<1>3. CASE ~(i <= Len(ws) + 1)
  <2>1. ArgsFrom(norms, ws, i) = << >>
    BY <1>3 DEF ArgsFrom
  <2> QED
    BY <2>1
<1> QED
  BY <1>2, <1>3

\* A line ended by "--" or by its end has the words after it for positionals.
LEMMA AfterTerminator ==
  ASSUME NEW ws, Line(ws), NEW vt, NoBundleTakes(vt), NEW norms, Reads(norms, ws, vt),
         NEW i \in 2 .. Len(ws), Shape[ws[i]].kind = "terminator"
  PROVE  LET args == ArgsFrom(norms, ws, i)
         IN  /\ Nth(args, 1, ws) = i + 1
             /\ args # << >> => args[1] = i + 1
<1> DEFINE args == ArgsFrom(norms, ws, i)
<1>1. Len(ws) \in Nat /\ i <= Len(ws) + 1
  BY Lined
<1>2. args = Rest(ws, i).args
  BY <1>1, SameStep DEF ArgsFrom, InStep
<1>3. args \in Seq(Nat) /\ Len(args) = Len(ws) - i /\ \A j \in 1 .. Len(ws) - i : args[j] = i + j
  <2>1. i \in 2 .. Len(ws) + 2
    BY <1>1
  <2>2. args \in Seq(Nat)
    BY <2>1, ArgsTyped
  <2> HIDE DEF args
  <2> QED
    BY <1>2, <2>2, RestRead
<1> HIDE DEF args
<1>4. CASE i = Len(ws)
  <2>1. Len(args) = 0
    BY <1>1, <1>3, <1>4
  <2>2. args = << >>
    BY <1>3, <2>1
  <2> QED
    BY <1>1, <1>4, <2>1, <2>2 DEF Nth, args
<1>5. CASE i < Len(ws)
  <2>1. 1 \in 1 .. Len(ws) - i /\ 1 <= Len(args)
    BY <1>1, <1>3, <1>5
  <2>2. args[1] = i + 1
    BY <1>3, <2>1
  <2> QED
    BY <2>1, <2>2 DEF Nth, args
<1> QED
  BY <1>1, <1>4, <1>5

\* The inner command begins at the first positional from there on.
LEMMA StartIsFirst ==
  ASSUME NEW ws, Line(ws), NEW vt, NoBundleTakes(vt), NEW norms, Reads(norms, ws, vt),
         NEW starts, Starts(starts, ws, vt)
  PROVE  \A j \in 2 .. Len(ws) + 2 :
           /\ starts[j] <= Len(ws) + 1
           /\ Inner(ws, starts[j]) = Nth(ArgsFrom(norms, ws, j), 1, ws)
<1> DEFINE n == Len(ws) + 1
           claim(j) == starts[j] <= Len(ws) + 1 /\ Inner(ws, starts[j]) = Nth(ArgsFrom(norms, ws, j), 1, ws)
           Good == {j \in 2 .. n + 1 : claim(j)}
<1>1. Len(ws) \in Nat /\ n \in Nat /\ n + 1 = Len(ws) + 2
  BY Lined
<1>2. ASSUME NEW i \in 2 .. n + 1, \A j \in 2 .. n + 1 : i < j => j \in Good
      PROVE  claim(i)
  <2>1. i \in Nat /\ i \in 2 .. Len(ws) + 2
    BY <1>1
  <2>2. CASE i > Len(ws)
    <3>1. starts[i] = Len(ws) + 1
      BY <2>1, <2>2 DEF Starts
    <3>2. ArgsFrom(norms, ws, i) = << >>
      BY <2>1, <2>2, EndOfLine
    <3>3. Inner(ws, Len(ws) + 1) = Len(ws) + 1
      BY <1>1 DEF Inner
    <3> QED
      BY <1>1, <3>1, <3>2, <3>3 DEF Nth
  <2>3. CASE ~(i > Len(ws)) /\ isFlagToken(ws[i])
    <3> DEFINE c == consumeFlag(ws, i, vt)
    <3>1. c \in 2 .. n + 1 /\ i < c
      <4>1. c \in {i + 1, i + 2}
        BY <2>1, Consumed
      <4> HIDE DEF c
      <4> QED
        BY <1>1, <2>1, <2>3, <4>1
    <3>2. starts[i] = starts[c] /\ ArgsFrom(norms, ws, i) = ArgsFrom(norms, ws, c)
      <4>1. i \in 2 .. Len(ws)
        BY <1>1, <2>1, <2>3
      <4> QED
        BY <2>1, <2>3, <4>1, SameStep DEF Starts, InStep
    <3>3. claim(c)
      BY <1>2, <3>1
    <3> QED
      BY <3>2, <3>3
  <2>4. CASE ~(i > Len(ws)) /\ ~isFlagToken(ws[i])
    <3>1. i \in 2 .. Len(ws)
      BY <1>1, <2>1, <2>4
    <3>2. starts[i] = i
      BY <2>1, <2>4 DEF Starts
    <3>3. CASE Shape[ws[i]].kind = "terminator"
      <4>1. Inner(ws, i) = i + 1
        BY <3>1, <3>3 DEF Inner
      <4>2. Nth(ArgsFrom(norms, ws, i), 1, ws) = i + 1
        BY <3>1, <3>3, AfterTerminator
      <4> QED
        BY <1>1, <3>1, <3>2, <4>1, <4>2
    <3>4. CASE Shape[ws[i]].kind # "terminator"
      <4>1. Inner(ws, i) = i
        BY <3>4 DEF Inner
      <4> DEFINE more == ArgsFrom(norms, ws, i + 1)
      <4>2. ArgsFrom(norms, ws, i) = <<i>> \o more
        BY <2>4, <3>1, <3>4, SameStep DEF InStep
      <4>3. more \in Seq(Nat) /\ Len(more) \in Nat
        <5>1. i + 1 \in 2 .. Len(ws) + 2
          BY <1>1, <3>1
        <5> QED
          BY <5>1, ArgsTyped
      <4> HIDE DEF more
      <4>4. Len(<<i>> \o more) = Len(more) + 1 /\ (<<i>> \o more)[1] = i
        BY <2>1, <4>3, Prepended
      <4>5. Nth(<<i>> \o more, 1, ws) = i
        BY <4>3, <4>4 DEF Nth
      <4> QED
        BY <1>1, <3>1, <3>2, <4>1, <4>2, <4>5
    <3> QED
      BY <3>3, <3>4
  <2> QED
    BY <2>2, <2>3, <2>4
<1>3. \A i \in 2 .. n + 1 : i \in Good
  <2>1. \A i \in 2 .. n + 1 : (\A j \in 2 .. n + 1 : i < j => j \in Good) => i \in Good
    BY <1>2
  <2> HIDE DEF Good, n
  <2> QED
    BY <1>1, <2>1, FromTheEnd
<1> QED
  BY <1>1, <1>3

\* With positionals to skip: there are as many, and the inner command follows them.
LEMMA SkipsAlike ==
  ASSUME NEW ws, Line(ws), NEW vt, NoBundleTakes(vt), NEW norms, Reads(norms, ws, vt),
         NEW subs, Skips(subs), NEW scan, Scans(scan, ws, vt, subs)
  PROVE  \A i \in 2 .. Len(ws) + 2 : \A k \in Nat : k >= 1 =>
           LET args == ArgsFrom(norms, ws, i)
               at == scan[<<i, k>>]
           IN  at.found /\ (at.ok => Len(args) >= k /\ Inner(ws, at.start) = Nth(args, k + 1, ws))
<1> DEFINE n == Len(ws) + 1
           args(i) == ArgsFrom(norms, ws, i)
           agrees(at, i, k) == at.found /\ (at.ok => Len(args(i)) >= k /\ Inner(ws, at.start) = Nth(args(i), k + 1, ws))
           claim(i) == \A k \in Nat : k >= 1 => agrees(scan[<<i, k>>], i, k)
           Good == {i \in 2 .. n + 1 : claim(i)}
<1>1. Len(ws) \in Nat /\ n \in Nat /\ n + 1 = Len(ws) + 2
  BY Lined
<1>2. ASSUME NEW i \in 2 .. n + 1, \A j \in 2 .. n + 1 : i < j => j \in Good
      PROVE  claim(i)
  <2> SUFFICES ASSUME NEW k \in Nat, k >= 1 PROVE agrees(scan[<<i, k>>], i, k)
    OBVIOUS
  <2> DEFINE at == scan[<<i, k>>]
  <2>1. i \in Nat /\ i \in 2 .. Len(ws) + 2 /\ k \in Int /\ k # NoVerb
    BY <1>1 DEF NoVerb
  <2>2. at = IF i > Len(ws) THEN TooShort
             ELSE IF Shape[ws[i]].kind = "terminator" THEN TooShort
             ELSE IF isFlagToken(ws[i]) THEN scan[<<consumeFlag(ws, i, vt), k>>]
             ELSE IF k - 1 = 0 THEN FoundAt(findInnerStart(ws, i + 1, vt))
             ELSE scan[<<i + 1, k - 1>>]
    BY <2>1 DEF Scans
  <2> HIDE DEF at
  <2>3. CASE i > Len(ws) \/ Shape[ws[i]].kind = "terminator"
    BY <2>2, <2>3 DEF TooShort, at
  <2>4. CASE ~(i > Len(ws)) /\ Shape[ws[i]].kind # "terminator" /\ isFlagToken(ws[i])
    <3> DEFINE c == consumeFlag(ws, i, vt)
    <3>1. c \in 2 .. n + 1 /\ i < c
      <4>1. c \in {i + 1, i + 2}
        BY <2>1, Consumed
      <4> HIDE DEF c
      <4> QED
        BY <1>1, <2>1, <2>4, <4>1
    <3>2. at = scan[<<c, k>>] /\ args(i) = args(c)
      <4>1. i \in 2 .. Len(ws)
        BY <1>1, <2>1, <2>4
      <4> QED
        BY <2>2, <2>4, <4>1, SameStep DEF InStep
    <3>3. claim(c)
      BY <1>2, <3>1
    <3> QED
      BY <3>2, <3>3 DEF at
  <2>5. CASE ~(i > Len(ws)) /\ Shape[ws[i]].kind # "terminator" /\ ~isFlagToken(ws[i])
    <3>1. i \in 2 .. Len(ws) /\ i + 1 \in Nat /\ i + 1 \in 2 .. Len(ws) + 2 /\ i + 1 \in 2 .. n + 1 /\ i < i + 1
      BY <1>1, <2>1, <2>5
    <3> DEFINE more == args(i + 1)
    <3>2. args(i) = <<i>> \o more
      BY <2>5, <3>1, SameStep DEF InStep
    <3>3. more \in Seq(Nat) /\ Len(more) \in Nat
      BY <3>1, ArgsTyped
    <3> HIDE DEF more
    <3>4. Len(args(i)) = Len(more) + 1 /\ Nth(args(i), k + 1, ws) = Nth(more, k, ws)
      BY <2>1, <3>2, <3>3, Prepended
    <3>5. CASE k = 1
      <4>1. at = FoundAt(findInnerStart(ws, i + 1, vt))
        BY <2>2, <2>5, <3>5
      <4>2. PICK starts : Starts(starts, ws, vt) /\ findInnerStart(ws, i + 1, vt) = starts[i + 1]
        BY <3>1, Lined, StartUnfolds
      <4>3. Inner(ws, starts[i + 1]) = Nth(more, 1, ws)
        BY <3>1, <4>2, StartIsFirst DEF more
      <4> QED
        BY <3>3, <3>4, <3>5, <4>1, <4>2, <4>3 DEF at, FoundAt
    <3>6. CASE k # 1
      <4>1. k - 1 \in Nat /\ k - 1 >= 1 /\ k - 1 # 0
        BY <3>6
      <4>2. at = scan[<<i + 1, k - 1>>]
        BY <2>2, <2>5, <4>1
      <4>3. agrees(scan[<<i + 1, k - 1>>], i + 1, k - 1)
        BY <1>2, <3>1, <4>1
      <4>4. at.found /\ (at.ok => Len(more) >= k - 1 /\ Inner(ws, at.start) = Nth(more, k, ws))
        BY <4>2, <4>3 DEF more
      <4> QED
        BY <3>3, <3>4, <4>4 DEF at
    <3> QED
      BY <3>5, <3>6
  <2> QED
    BY <2>3, <2>4, <2>5
<1>3. \A i \in 2 .. n + 1 : i \in Good
  <2>1. \A i \in 2 .. n + 1 : (\A j \in 2 .. n + 1 : i < j => j \in Good) => i \in Good
    BY <1>2
  <2> HIDE DEF Good, n
  <2> QED
    BY <1>1, <2>1, FromTheEnd
<1> QED
  BY <1>1, <1>3

\* Before a verb: the verb is the first positional, unless a "--" comes before it.
VerbFound(ws, subs, args, at) ==
  at.found => /\ args # << >> /\ ws[args[1]] \in DOMAIN subs
              /\ at.ok => /\ Len(args) >= subs[ws[args[1]]] + 1
                          /\ Inner(ws, at.start) = Nth(args, subs[ws[args[1]]] + 2, ws)

VerbMissed(ws, subs, args, at, i) ==
  ~at.found /\ args # << >> /\ ws[args[1]] \in DOMAIN subs =>
    \E t \in i .. args[1] - 1 : t <= Len(ws) /\ Shape[ws[t]].kind = "terminator"

LEMMA VerbsAlike ==
  ASSUME NEW ws, Line(ws), NEW vt, NoBundleTakes(vt), NEW norms, Reads(norms, ws, vt),
         NEW subs, Skips(subs), NEW scan, Scans(scan, ws, vt, subs)
  PROVE  \A i \in 2 .. Len(ws) + 2 :
           /\ VerbFound(ws, subs, ArgsFrom(norms, ws, i), scan[<<i, NoVerb>>])
           /\ VerbMissed(ws, subs, ArgsFrom(norms, ws, i), scan[<<i, NoVerb>>], i)
<1> DEFINE n == Len(ws) + 1
           args(i) == ArgsFrom(norms, ws, i)
           agrees(at, i) == VerbFound(ws, subs, args(i), at) /\ VerbMissed(ws, subs, args(i), at, i)
           Good == {i \in 2 .. n + 1 : agrees(scan[<<i, NoVerb>>], i)}
<1>0. \A i \in 2 .. Len(ws) + 2 : \A k \in Nat : k >= 1 =>
        LET more == ArgsFrom(norms, ws, i)
            next == scan[<<i, k>>]
        IN  next.found /\ (next.ok => Len(more) >= k /\ Inner(ws, next.start) = Nth(more, k + 1, ws))
  <2> HIDE DEF args, agrees, Good, n
  <2> QED
    BY SkipsAlike
<1>10. \A i \in 2 .. Len(ws) : Shape[ws[i]].kind # "terminator" /\ ~isFlagToken(ws[i]) =>
         ArgsFrom(norms, ws, i) = <<i>> \o ArgsFrom(norms, ws, i + 1)
  <2> HIDE DEF args, agrees, Good, n
  <2>1. \A i \in 2 .. Len(ws) : InStep(norms, ws, vt, i)
    BY SameStep
  <2> QED
    BY <2>1 DEF InStep
<1>1. Len(ws) \in Nat /\ n \in Nat /\ n + 1 = Len(ws) + 2 /\ NoVerb \in Int
  BY Lined DEF NoVerb
<1>2. ASSUME NEW i \in 2 .. n + 1, \A j \in 2 .. n + 1 : i < j => j \in Good
      PROVE  agrees(scan[<<i, NoVerb>>], i)
  <2> DEFINE at == scan[<<i, NoVerb>>]
             left == subs[ws[i]]
  <2>1. i \in Nat /\ i \in 2 .. Len(ws) + 2
    BY <1>1
  <2>2. at = IF i > Len(ws) THEN NotFound
             ELSE IF Shape[ws[i]].kind = "terminator" THEN NotFound
             ELSE IF isFlagToken(ws[i]) THEN scan[<<consumeFlag(ws, i, vt), NoVerb>>]
             ELSE IF ws[i] \notin DOMAIN subs THEN NotFound
             ELSE IF left = 0 THEN FoundAt(findInnerStart(ws, i + 1, vt))
             ELSE scan[<<i + 1, left>>]
    BY <1>1, <2>1 DEF Scans
  <2>3. ~NotFound.found
    BY DEF NotFound
  <2> HIDE DEF at
  <2>4. CASE i > Len(ws)
    <3>1. args(i) = << >>
      BY <2>1, <2>4, EndOfLine
    <3> QED
      BY <2>2, <2>3, <2>4, <3>1 DEF VerbFound, VerbMissed, at
  <2>5. CASE ~(i > Len(ws)) /\ Shape[ws[i]].kind = "terminator"
    <3>1. i \in 2 .. Len(ws)
      BY <1>1, <2>1, <2>5
    <3>2. args(i) # << >> => args(i)[1] = i + 1
      BY <2>5, <3>1, AfterTerminator
    <3>3. i \in i .. (i + 1) - 1 /\ i <= Len(ws)
      BY <1>1, <2>1, <2>5
    <3> HIDE DEF args
    <3>4. VerbMissed(ws, subs, args(i), at, i)
      BY <2>5, <3>2, <3>3 DEF VerbMissed
    <3>5. VerbFound(ws, subs, args(i), at)
      BY <2>2, <2>3, <2>5 DEF VerbFound
    <3> QED
      BY <3>4, <3>5 DEF at
  <2>6. CASE ~(i > Len(ws)) /\ Shape[ws[i]].kind # "terminator" /\ isFlagToken(ws[i])
    <3> DEFINE c == consumeFlag(ws, i, vt)
    <3>1. c \in 2 .. n + 1 /\ i < c
      <4>1. c \in {i + 1, i + 2}
        BY <2>1, Consumed
      <4> HIDE DEF c
      <4> QED
        BY <1>1, <2>1, <2>6, <4>1
    <3>2. at = scan[<<c, NoVerb>>] /\ args(i) = args(c)
      <4>1. i \in 2 .. Len(ws)
        BY <1>1, <2>1, <2>6
      <4> QED
        BY <2>2, <2>6, <4>1, SameStep DEF InStep
    <3>3. agrees(scan[<<c, NoVerb>>], c)
      BY <1>2, <3>1
    <3>4. args(c) # << >> => args(c)[1] \in Nat
      <4>1. args(c) \in Seq(Nat)
        BY <1>1, <3>1, ArgsTyped
      <4> HIDE DEF args, c
      <4> QED
        BY <4>1
    <3> HIDE DEF args, c
    <3>5. VerbMissed(ws, subs, args(i), at, i)
      <4> SUFFICES ASSUME ~at.found, args(i) # << >>, ws[args(i)[1]] \in DOMAIN subs
                   PROVE  \E t \in i .. args(i)[1] - 1 : t <= Len(ws) /\ Shape[ws[t]].kind = "terminator"
        BY DEF VerbMissed
      <4>1. PICK t \in c .. args(c)[1] - 1 : t <= Len(ws) /\ Shape[ws[t]].kind = "terminator"
        BY <3>2, <3>3 DEF VerbMissed
      <4>2. t \in i .. args(c)[1] - 1
        BY <2>1, <3>1, <3>2, <3>4, <4>1
      <4> QED
        BY <3>2, <4>1, <4>2
    <3> QED
      BY <3>2, <3>3, <3>5 DEF at
  <2>7. CASE ~(i > Len(ws)) /\ Shape[ws[i]].kind # "terminator" /\ ~isFlagToken(ws[i])
    <3>1. i \in 2 .. Len(ws) /\ i + 1 \in Nat /\ i + 1 \in 2 .. Len(ws) + 2 /\ i + 1 \in 2 .. n + 1 /\ i < i + 1
      BY <1>1, <2>1, <2>7
    <3> DEFINE more == args(i + 1)
    <3>2. args(i) = <<i>> \o more
      <4>1. ~isFlagToken(ws[i]) /\ Shape[ws[i]].kind # "terminator"
        BY <2>7
      <4> HIDE DEF left, at
      <4> QED
        BY <3>1, <4>1, <1>10
    <3>3. more \in Seq(Nat) /\ Len(more) \in Nat
      BY <3>1, ArgsTyped
    <3> HIDE DEF more
    <3>4. /\ Len(args(i)) = Len(more) + 1 /\ args(i)[1] = i /\ args(i) # << >>
          /\ \A k \in Nat : k >= 1 => Nth(args(i), k + 1, ws) = Nth(more, k, ws)
      <4>1. Len(<<i>> \o more) = Len(more) + 1 /\ (<<i>> \o more)[1] = i
            /\ \A k \in Nat : k >= 1 => Nth(<<i>> \o more, k + 1, ws) = Nth(more, k, ws)
        BY <2>1, <3>3, Prepended
      <4>2. <<i>> \o more # << >>
        BY <3>3
      <4> QED
        BY <3>2, <4>1, <4>2
    <3>5. CASE ws[i] \notin DOMAIN subs
      <4>1. at = NotFound
        BY <2>2, <2>7, <3>5
      <4> HIDE DEF args
      <4> QED
        BY <2>3, <3>4, <3>5, <4>1 DEF VerbFound, VerbMissed, at
    <3>6. CASE ws[i] \in DOMAIN subs /\ left = 0
      <4>1. at = FoundAt(findInnerStart(ws, i + 1, vt))
        BY <2>2, <2>7, <3>6
      <4>2. PICK starts : Starts(starts, ws, vt) /\ findInnerStart(ws, i + 1, vt) = starts[i + 1]
        BY <3>1, Lined, StartUnfolds
      <4>3. Inner(ws, starts[i + 1]) = Nth(more, 1, ws)
        BY <3>1, <4>2, StartIsFirst DEF more
      <4> HIDE DEF args
      <4>4. at.found /\ at.ok /\ Inner(ws, at.start) = Nth(args(i), left + 2, ws) /\ Len(args(i)) >= left + 1
        BY <3>3, <3>4, <3>6, <4>1, <4>2, <4>3 DEF FoundAt
      <4> QED
        BY <3>4, <3>6, <4>4 DEF VerbFound, VerbMissed, at
    <3>7. CASE ws[i] \in DOMAIN subs /\ left # 0
      <4>1. left \in Nat /\ left >= 1
        BY <3>7 DEF Skips
      <4>2. at = scan[<<i + 1, left>>]
        BY <2>2, <2>7, <3>7
      <4> HIDE DEF left
      <4>3. at.found /\ (at.ok => Len(more) >= left /\ Inner(ws, at.start) = Nth(more, left + 1, ws))
        <5> DEFINE next == scan[<<i + 1, left>>]
        <5>1. next.found /\ (next.ok => Len(ArgsFrom(norms, ws, i + 1)) >= left
                /\ Inner(ws, next.start) = Nth(ArgsFrom(norms, ws, i + 1), left + 1, ws))
          BY <3>1, <4>1, <1>0
        <5> HIDE DEF next
        <5> QED
          BY <4>2, <5>1 DEF more, next
      <4> HIDE DEF args
      <4>4. Nth(args(i), left + 2, ws) = Nth(more, left + 1, ws)
        <5>1. left + 1 \in Nat /\ left + 1 >= 1 /\ (left + 1) + 1 = left + 2
          BY <4>1
        <5> QED
          BY <3>4, <5>1
      <4>5. at.ok => Len(args(i)) >= left + 1
        BY <3>3, <3>4, <4>1, <4>3
      <4> QED
        BY <3>4, <3>7, <4>3, <4>4, <4>5 DEF VerbFound, VerbMissed, at, left
    <3> QED
      BY <3>5, <3>6, <3>7
  <2> QED
    BY <2>4, <2>5, <2>6, <2>7
<1>3. \A i \in 2 .. n + 1 : i \in Good
  <2>1. \A i \in 2 .. n + 1 : (\A j \in 2 .. n + 1 : i < j => j \in Good) => i \in Good
    BY <1>2
  <2> HIDE DEF Good, n
  <2> QED
    BY <1>1, <2>1, FromTheEnd
<1> QED
  BY <1>1, <1>3

--------------------------------------------------------------------------------
(* A line that is typed *)

LineInv == wrapper \in Wrappers /\ Line(words) /\ words[1] = wrapper.name

LEMMA Typing == Spec => []LineInv
<1>1. Init => LineInv
  <2> SUFFICES ASSUME Init PROVE LineInv
    OBVIOUS
  <2>1. wrapper.name \in Words
    BY WrappersAssumption DEF Init
  <2> QED
    BY <2>1 DEF Init, LineInv, Line
<1>2. LineInv /\ [AppendWord]_vars => LineInv'
  <2> SUFFICES ASSUME LineInv, [AppendWord]_vars PROVE LineInv'
    OBVIOUS
  <2>1. CASE AppendWord
    <3>1. PICK w \in Words : words' = Append(words, w) /\ wrapper' = wrapper
      BY <2>1 DEF AppendWord
    <3>2. words \in Seq(Words) /\ Len(words) \in Nat /\ Len(words) >= 1
      BY DEF LineInv, Line
    <3>3. Append(words, w) \in Seq(Words) /\ Len(Append(words, w)) >= 1 /\ Append(words, w)[1] = words[1]
      BY <3>2
    <3> QED
      BY <3>1, <3>3 DEF LineInv, Line
  <2>2. CASE UNCHANGED vars
    BY <2>2 DEF vars, LineInv, Line
  <2> QED
    BY <2>1, <2>2
<1> QED
  BY <1>1, <1>2, PTL DEF Spec

\* What the two scans make of a line with a wrapper.
LEMMA BothScans ==
  ASSUME LineInv, NoBundleTakes(valueTaking)
  PROVE  LET subs == wrapper.spec.subcommands
         IN  /\ norm.args \in Seq(Nat) /\ Skips(subs)
             /\ VerbFound(words, subs, norm.args, verb) /\ VerbMissed(words, subs, norm.args, verb, 2)
<1> DEFINE subs == wrapper.spec.subcommands
           vt == valueTaking
<1>1. Line(words) /\ Skips(subs) /\ Len(words) \in Nat /\ Len(words) >= 1
  <2>1. Line(words) /\ wrapper \in Wrappers
    BY DEF LineInv
  <2>2. Skips(subs)
    BY <2>1, WrappersAssumption DEF Skips
  <2> QED
    BY <2>1, <2>2 DEF Line
<1> HIDE DEF subs, vt
<1>2. PICK norms : Reads(norms, words, vt) /\ Normalize(words, vt) = norms[2]
  BY <1>1, NormalizeUnfolds
<1>3. PICK scan : Scans(scan, words, vt, subs) /\ extractSubcommandTarget(words, vt, subs) = scan[<<2, NoVerb>>]
  BY <1>1, Lined, ScanUnfolds
<1>4. NoBundleTakes(vt)
  BY DEF vt
<1>5. \A i \in 2 .. Len(words) + 2 :
           /\ VerbFound(words, subs, ArgsFrom(norms, words, i), scan[<<i, NoVerb>>])
           /\ VerbMissed(words, subs, ArgsFrom(norms, words, i), scan[<<i, NoVerb>>], i)
  BY <1>1, <1>2, <1>3, <1>4, VerbsAlike
<1>6. 2 \in 2 .. Len(words) + 2 /\ 2 <= Len(words) + 1
  BY <1>1
<1>7. ArgsFrom(norms, words, 2) = norms[2].args
  BY <1>6 DEF ArgsFrom
<1>8. ArgsFrom(norms, words, 2) \in Seq(Nat)
  BY <1>1, <1>2, <1>6, ArgsTyped
<1>9. norm = norms[2] /\ verb = scan[<<2, NoVerb>>]
  BY <1>2, <1>3 DEF norm, normOf, verb, vt, subs
<1> QED
  BY <1>1, <1>5, <1>6, <1>7, <1>8, <1>9 DEF subs

\* No wrapper's words have a bundle whose last letter alone takes a value.
BundlesEndPlainly ==
  \A r \in Wrappers :
    NoBundleTakes(r.valueTaking \cup {r.spec.flags[n].name : n \in DOMAIN r.spec.flags})

LEMMA PlainBundles ==
  ASSUME BundlesEndPlainly, LineInv
  PROVE  NoBundleTakes(valueTaking)
BY DEF BundlesEndPlainly, LineInv, valueTaking

\* The rules and the parser take the words of a wrapper apart alike (PartitionsAgree):
\* the inner command begins at the positional the rules would call the first of it.
\* Of bundles whose last letter takes the next word this is not so.
THEOREM ScansAgree ==
  ASSUME BundlesEndPlainly
  PROVE  Spec => []PartitionsAgree
<1>1. LineInv => PartitionsAgree
  <2> SUFFICES ASSUME LineInv PROVE PartitionsAgree
    OBVIOUS
  <2> DEFINE subs == wrapper.spec.subcommands
  <2>1. /\ norm.args \in Seq(Nat) /\ Skips(subs)
        /\ VerbFound(words, subs, norm.args, verb) /\ VerbMissed(words, subs, norm.args, verb, 2)
    BY PlainBundles, BothScans
  <2>2. ASSUME verb.found, verb.ok
        PROVE  /\ norm.args # << >> /\ words[norm.args[1]] \in DOMAIN subs
               /\ InnerStart = IF Len(norm.args) >= Skip + 2 THEN norm.args[Skip + 2] ELSE Len(words) + 1
    <3>1. /\ norm.args # << >> /\ words[norm.args[1]] \in DOMAIN subs
          /\ Inner(words, verb.start) = Nth(norm.args, Skip + 2, words)
      BY <2>1, <2>2 DEF VerbFound, Skip
    <3>2. InnerStart = Inner(words, verb.start)
      BY DEF InnerStart, Inner
    <3>3. Skip \in Nat /\ Len(norm.args) \in Nat
      BY <2>1, <3>1 DEF Skips, Skip
    <3> HIDE DEF subs
    <3> QED
      BY <3>1, <3>2, <3>3 DEF Nth
  <2>3. ASSUME ~verb.found, norm.args # << >>, words[norm.args[1]] \in DOMAIN subs
        PROVE  \E i \in 1 .. norm.args[1] - 1 : Shape[words[i]].kind = "terminator"
    <3>1. PICK t \in 2 .. norm.args[1] - 1 : Shape[words[t]].kind = "terminator"
      BY <2>1, <2>3 DEF VerbMissed
    <3>2. norm.args[1] \in Nat
      BY <2>1, <2>3
    <3>3. t \in 1 .. norm.args[1] - 1
      BY <3>1, <3>2
    <3> QED
      BY <3>1, <3>3
  <2> QED
    BY <2>2, <2>3 DEF PartitionsAgree
<1> QED
  BY <1>1, Typing, PTL

\* A value is asked of the last word: either it is read as a flag, or it is the value
\* of the flag before it.
Captured(norm1, w) == \E k \in DOMAIN norm1.captured : norm1.captured[k].value = w

Waits(ws, vt) ==
  LET last == ws[Len(ws)]
  IN  /\ isFlagToken(last) /\ ~Shape[last].eq /\ Shape[last].name \in vt
      /\ \A i \in 1 .. Len(ws) : Shape[ws[i]].kind # "terminator"

LEMMA JoinedCaptures ==
  ASSUME NEW r, r.captured \in Seq(Captures), NEW rest \in Norms, NEW v
  PROVE  /\ Captured(rest, v) => Captured(Joined(r, rest), v)
         /\ r.captured # << >> /\ r.captured[1].value = v => Captured(Joined(r, rest), v)
<1> DEFINE a == r.captured
           b == rest.captured
<1>1. Joined(r, rest).captured = a \o b
  BY JoinedFields
<1>2. a \in Seq(Captures) /\ b \in Seq(Captures)
  BY DEF Norms
<1> HIDE DEF a, b
<1>3. /\ DOMAIN (a \o b) = 1 .. Len(a) + Len(b) /\ DOMAIN b = 1 .. Len(b) /\ Len(a) \in Nat /\ Len(b) \in Nat
      /\ \A k \in 1 .. Len(b) : (a \o b)[Len(a) + k] = b[k]
      /\ \A k \in 1 .. Len(a) : (a \o b)[k] = a[k]
      /\ a # << >> => Len(a) >= 1
  BY <1>2
<1>4. ASSUME Captured(rest, v) PROVE Captured(Joined(r, rest), v)
  <2>1. PICK k \in 1 .. Len(b) : b[k].value = v
    BY <1>3, <1>4 DEF Captured, b
  <2>2. Len(a) + k \in DOMAIN (a \o b) /\ (a \o b)[Len(a) + k].value = v
    BY <1>3, <2>1
  <2> QED
    BY <1>1, <2>2 DEF Captured
<1>5. ASSUME a # << >>, a[1].value = v PROVE Captured(Joined(r, rest), v)
  <2>1. 1 \in DOMAIN (a \o b) /\ (a \o b)[1].value = v
    BY <1>3, <1>5
  <2> QED
    BY <1>1, <2>1 DEF Captured
<1> QED
  BY <1>4, <1>5 DEF a

LEMMA WaitingNoticed ==
  ASSUME NEW ws, Line(ws), NEW vt, NEW norms, Reads(norms, ws, vt), Waits(ws, vt)
  PROVE  \A i \in 2 .. Len(ws) : ~norms[i].ok \/ Captured(norms[i], ws[Len(ws)])
<1> DEFINE n == Len(ws)
           last == ws[n]
           claim(i) == ~norms[i].ok \/ Captured(norms[i], last)
           Good == {i \in 2 .. n + 1 : i = n + 1 \/ claim(i)}
<1>0. \A i \in 1 .. Len(ws) : Shape[ws[i]].kind # "terminator" =>
        LET r == ReadWord(ws, i, vt)
        IN  /\ r.next \in {i + 1, i + 2} /\ r.next <= Len(ws) + 1
            /\ r.captured \in Seq(Captures) /\ r.ok \in BOOLEAN
            /\ ~isFlagToken(ws[i]) => r.next = i + 1
  <2> HIDE DEF n, last, claim, Good
  <2> SUFFICES ASSUME NEW i \in 1 .. Len(ws), Shape[ws[i]].kind # "terminator"
               PROVE  LET r == ReadWord(ws, i, vt)
                      IN  /\ r.next \in {i + 1, i + 2} /\ r.next <= Len(ws) + 1
                          /\ r.captured \in Seq(Captures) /\ r.ok \in BOOLEAN
                          /\ ~isFlagToken(ws[i]) => r.next = i + 1
    OBVIOUS
  <2> DEFINE r == ReadWord(ws, i, vt)
  <2>1. r.next \in {i + 1, i + 2} /\ r.next <= Len(ws) + 1 /\ r.captured \in Seq(Captures) /\ r.ok \in BOOLEAN
    BY WordRead
  <2>2. ~isFlagToken(ws[i]) => r.next = i + 1
    BY WordRead
  <2> QED
    BY <2>1, <2>2
<1>1. n \in Nat
  BY Lined
<1>2. ASSUME NEW i \in 2 .. n + 1, i # n + 1, \A j \in 2 .. n + 1 : i < j => j \in Good
      PROVE  claim(i)
  <2> DEFINE r == ReadWord(ws, i, vt)
             rest == norms[r.next]
  <2>1. i \in 2 .. n /\ i \in 1 .. n /\ i \in Nat
    BY <1>1, <1>2
  <2>2. Shape[ws[i]].kind # "terminator"
    BY <2>1 DEF Waits
  <2>3. norms[i] = Joined(r, rest)
    BY <2>1, <2>2 DEF Reads
  <2>4. /\ r.next \in {i + 1, i + 2} /\ r.next <= n + 1 /\ r.captured \in Seq(Captures) /\ r.ok \in BOOLEAN
        /\ ~isFlagToken(ws[i]) => r.next = i + 1
    BY <1>0, <2>1, <2>2
  <2>5. rest \in Norms /\ rest.ok \in BOOLEAN
    <3>1. r.next \in 2 .. n + 1
      <4> HIDE DEF r
      <4> QED
        BY <1>1, <2>1, <2>4
    <3> QED
      BY <3>1 DEF Reads, Norms
  <2>6. norms[i].ok = (r.ok /\ rest.ok)
    <3> HIDE DEF r, rest
    <3>1. Joined(r, rest).ok = (r.ok /\ rest.ok)
      BY <2>5, JoinedFields
    <3> QED
      BY <2>3, <3>1, Zenon
  <2> HIDE DEF rest
  <2>7. Captured(rest, last) => Captured(norms[i], last)
    <3> HIDE DEF r, last
    <3> QED
      BY <2>3, <2>4, <2>5, JoinedCaptures
  <2>8. r.captured # << >> /\ r.captured[1].value = last => Captured(norms[i], last)
    <3> HIDE DEF r, last
    <3> QED
      BY <2>3, <2>4, <2>5, JoinedCaptures
  <2>9. CASE r.next <= n
    <3>1. r.next \in Good
      <4>1. r.next \in 2 .. n + 1 /\ i < r.next
        <5> HIDE DEF r
        <5> QED
          BY <1>1, <2>1, <2>4, <2>9
      <4> QED
        BY <1>2, <4>1
    <3>2. ~rest.ok \/ Captured(rest, last)
      <4> HIDE DEF claim
      <4>1. claim(r.next)
        BY <1>1, <2>9, <3>1
      <4> QED
        BY <4>1 DEF claim, rest
    <3> QED
      BY <2>4, <2>5, <2>6, <2>7, <3>2
  <2>10. CASE ~(r.next <= n) /\ i = n
    <3>1. PICK flags, f : r = TakeNext(ws, i, flags, f)
      BY <2>1, <2>10, FlagRead DEF Waits
    <3>2. r.ok = FALSE
      BY <2>10, <3>1 DEF TakeNext, Read
    <3> QED
      BY <2>5, <2>6, <3>2
  <2>11. CASE ~(r.next <= n) /\ i # n
    <3>1. r.next = i + 2 /\ i + 1 = n
      <4> HIDE DEF r
      <4> QED
        BY <1>1, <2>1, <2>4, <2>11
    <3>2. isFlagToken(ws[i])
      BY <2>1, <2>4, <3>1
    <3>3. PICK flags, f, v : Alone(r, flags, i) \/ Attached(r, flags, f, v, i) \/ r = TakeNext(ws, i, flags, f)
      BY <2>1, <3>2, FlagRead
    <3>4. r = TakeNext(ws, i, flags, f)
      BY <2>1, <3>1, <3>3 DEF Alone, Attached, Read
    <3>5. r.captured = <<Capture(f, last)>>
      BY <1>1, <2>1, <2>11, <3>1, <3>4 DEF TakeNext, Read
    <3> QED
      BY <2>8, <3>5 DEF Capture
  <2> QED
    BY <2>9, <2>10, <2>11
<1>3. \A i \in 2 .. n + 1 : i \in Good
  <2>1. \A i \in 2 .. n + 1 : (\A j \in 2 .. n + 1 : i < j => j \in Good) => i \in Good
    <3> HIDE DEF claim, n
    <3> QED
      BY <1>2
  <2> HIDE DEF Good, n
  <2> QED
    BY <1>1, <2>1, FromTheEnd
<1> QED
  <2> HIDE DEF claim
  <2>1. \A i \in 2 .. n : claim(i)
    BY <1>1, <1>3
  <2> QED
    BY <2>1 DEF claim

LEMMA Failure ==
  extraction.failed <=>
    \/ \E n \in DOMAIN wrapper.spec.flags :
         LET looked == lookupFlag(words, wrapper.spec.flags[n])
         IN  looked.found /\ looked.value = EmptyWord
    \/ verb.found /\ ~verb.ok
<1> DEFINE flags == wrapper.spec.flags
           looked == [n \in DOMAIN flags |-> lookupFlag(words, flags[n])]
<1>1. extraction.failed <=> \/ \E n \in DOMAIN looked : looked[n].found /\ looked[n].value = EmptyWord
                            \/ verb.found /\ ~verb.ok
  BY DEF extraction, extractionOf, extractRecursionTargets, verb
<1> HIDE DEF flags
<1> QED
  BY <1>1 DEF flags

\* A wrapper whose line stops before what it announces is marked (TooEarlyIsMarked),
\* unless a flag was taken for a value or "--" ended the flags.
THEOREM TooEarlyIsSeen ==
  ASSUME BundlesEndPlainly
  PROVE  Spec => []TooEarlyIsMarked
<1>1. LineInv => TooEarlyIsMarked
  <2> DEFINE subs == wrapper.spec.subcommands
             last == Shape[words[Len(words)]]
             more == Len(norm.args) > 0 /\ words[norm.args[1]] \in DOMAIN subs /\ Len(norm.args) <= Skip
             waiting == isFlagToken(words[Len(words)]) /\ ~last.eq /\ last.name \in valueTaking
             ended == \E i \in DOMAIN words : Shape[words[i]].kind = "terminator"
  <2> SUFFICES ASSUME LineInv, NoFlagTaken, ~ended, waiting \/ more PROVE ~norm.ok \/ extraction.failed
    BY DEF TooEarlyIsMarked
  <2>1. Line(words) /\ wrapper \in Wrappers /\ words[1] = wrapper.name
    BY DEF LineInv
  <2>2. Len(words) \in Nat /\ Len(words) >= 1 /\ DOMAIN words = 1 .. Len(words)
    BY <2>1, Lined DEF Line
  <2>3. /\ norm.args \in Seq(Nat) /\ Skips(subs)
        /\ VerbFound(words, subs, norm.args, verb) /\ VerbMissed(words, subs, norm.args, verb, 2)
    BY PlainBundles, BothScans
  <2>4. CASE more
    <3> DEFINE skip == subs[words[norm.args[1]]]
    <3>1. skip = Skip /\ skip \in Nat /\ Len(norm.args) \in Nat /\ norm.args # << >>
      BY <2>3, <2>4 DEF Skip, Skips
    <3>2. verb.found
      <4> SUFFICES ASSUME ~verb.found PROVE FALSE
        OBVIOUS
      <4>1. PICK t \in 2 .. norm.args[1] - 1 : t <= Len(words) /\ Shape[words[t]].kind = "terminator"
        BY <2>3, <2>4, <3>1 DEF VerbMissed
      <4>2. norm.args[1] \in Nat
        BY <2>3, <3>1
      <4>3. t \in DOMAIN words
        BY <2>2, <4>1, <4>2
      <4> QED
        BY <4>1, <4>3
    <3> HIDE DEF skip
    <3>3. ~verb.ok
      <4> SUFFICES ASSUME verb.ok PROVE FALSE
        OBVIOUS
      <4>1. Len(norm.args) >= skip + 1
        BY <2>3, <3>2 DEF VerbFound, skip
      <4>2. Len(norm.args) <= skip
        BY <2>4, <3>1
      <4> QED
        BY <3>1, <4>1, <4>2
    <3> QED
      BY <3>2, <3>3, Failure
  <2>5. CASE waiting
    <3>1. Waits(words, valueTaking)
      BY <2>2, <2>5 DEF Waits
    <3>2. PICK norms : Reads(norms, words, valueTaking) /\ norm = norms[2]
      BY <2>1, NormalizeUnfolds DEF norm, normOf
    <3>3. ~isFlagToken(words[1])
      BY <2>1, WrappersAssumption DEF isFlagToken
    <3>4. Len(words) # 1
      BY <2>5, <3>3
    <3>5. 2 \in 2 .. Len(words)
      BY <2>2, <3>4
    <3>6. ~norm.ok \/ Captured(norm, words[Len(words)])
      <4> HIDE DEF last, waiting, more, ended
      <4> QED
        BY <2>1, <3>1, <3>2, <3>5, WaitingNoticed
    <3>7. ~Captured(norm, words[Len(words)])
      BY <2>5 DEF Captured, NoFlagTaken
    <3> QED
      BY <3>6, <3>7
  <2> QED
    BY <2>4, <2>5
<1> QED
  BY <1>1, Typing, PTL

--------------------------------------------------------------------------------
(* What a recurse flag is captured with *)

\* The first value of the flag among what is captured.
FirstIs(captured, f, v) ==
  \E k \in DOMAIN captured : /\ captured[k].flag = f /\ captured[k].value = v
                             /\ \A m \in 1 .. k - 1 : captured[m].flag # f

LEMMA FirstOfNone ==
  ASSUME NEW f, NEW v
  PROVE  ~FirstIs(<< >>, f, v)
BY DEF FirstIs

LEMMA FirstOfJoined ==
  ASSUME NEW c \in Captures, NEW b \in Seq(Captures), NEW f, NEW v, FirstIs(<<c>> \o b, f, v)
  PROVE  IF c.flag = f THEN v = c.value ELSE FirstIs(b, f, v)
<1> DEFINE l == <<c>> \o b
<1>1. /\ DOMAIN l = 1 .. Len(b) + 1 /\ DOMAIN b = 1 .. Len(b) /\ Len(b) \in Nat
      /\ l[1] = c /\ \A k \in 1 .. Len(b) : l[k + 1] = b[k]
  OBVIOUS
<1>2. PICK k \in DOMAIN l : l[k].flag = f /\ l[k].value = v /\ \A m \in 1 .. k - 1 : l[m].flag # f
  BY DEF FirstIs
<1> HIDE DEF l
<1>3. CASE k = 1
  BY <1>1, <1>2, <1>3
<1>4. CASE k # 1
  <2>1. 1 \in 1 .. k - 1 /\ k - 1 \in 1 .. Len(b)
    BY <1>1, <1>4
  <2>2. c.flag # f /\ b[k - 1] = l[k]
    BY <1>1, <1>2, <2>1
  <2>3. \A m \in 1 .. (k - 1) - 1 : b[m].flag # f
    <3> SUFFICES ASSUME NEW m \in 1 .. (k - 1) - 1 PROVE b[m].flag # f
      OBVIOUS
    <3>1. m + 1 \in 1 .. k - 1 /\ m \in 1 .. Len(b)
      BY <1>1, <2>1
    <3> QED
      BY <1>1, <1>2, <3>1
  <2> QED
    BY <1>1, <1>2, <2>1, <2>2, <2>3 DEF FirstIs
<1> QED
  BY <1>3, <1>4

\* Nothing captured is a flag.
NoneIsFlag(captured) == \A k \in DOMAIN captured : ~isFlagToken(captured[k].value)

\* The flag is written by itself wherever it is written.
Plainly(ws, key) ==
  \A i \in DOMAIN ws :
    LET w == Shape[ws[i]]
    IN  isFlagToken(ws[i]) /\ key.name \in {w.name} \cup {w.letters[j] : j \in DOMAIN w.letters} => isFlag(w, key)

\* The value that stands after the flag, or in its word.
ValueAt(ws, j) == IF Shape[ws[j]].eq THEN Shape[ws[j]].value ELSE IF j < Len(ws) THEN ws[j + 1] ELSE EmptyWord

\* From a word on, the value is that of the flag's first occurrence.
AtFirst(ws, i, key, v) ==
  \E j \in i .. Len(ws) : /\ isFlag(Shape[ws[j]], key) /\ v = ValueAt(ws, j)
                          /\ \A h \in i .. j - 1 : ~isFlag(Shape[ws[h]], key)

\* The reading of one flag, as its captures go.
LEMMA CaptureRead ==
  ASSUME NEW ws, Line(ws), NEW i \in 1 .. Len(ws), NEW vt, isFlagToken(ws[i])
  PROVE  LET r == ReadWord(ws, i, vt)
             s == Shape[ws[i]]
         IN  /\ r.captured = << >> => r.next = i + 1 /\ (s.name \in vt => i = Len(ws))
             /\ r.captured # << >> =>
                  \E c \in Captures :
                    /\ r.captured = <<c>> /\ c.flag \in {s.name} \cup {s.letters[j] : j \in DOMAIN s.letters}
                    /\ r.next = i + 2 => i < Len(ws) /\ c.value = ws[i + 1]
                    /\ s.name \in vt => c.flag = s.name /\ c.value = ValueAt(ws, i)
<1> DEFINE s == Shape[ws[i]]
           r == ReadWord(ws, i, vt)
<1>1. PICK flags \in SUBSET Names, f \in Names, v \in Values :
        /\ f \in {s.name} \cup {s.letters[j] : j \in DOMAIN s.letters}
        /\ \/ s.eq /\ Attached(r, flags, f, v, i) /\ f = s.name /\ v = s.value
           \/ ~s.eq /\ s.name \in vt /\ r = TakeNext(ws, i, flags, f) /\ f = s.name
           \/ ~s.eq /\ s.name \notin vt /\ (Alone(r, flags, i) \/ Attached(r, flags, f, v, i))
           \/ EndsTaking(s, vt) /\ r = TakeNext(ws, i, flags, f)
  BY FlagRead
<1>2. Len(ws) \in Nat /\ i \in Nat
  BY Lined
<1> HIDE DEF r
<1>3. CASE Alone(r, flags, i) /\ s.name \notin vt
  <2>1. r.captured = << >> /\ r.next = i + 1
    BY <1>3 DEF Alone, Read
  <2> QED
    BY <1>3, <2>1 DEF r
<1>4. CASE Attached(r, flags, f, v, i) /\ ((s.eq /\ f = s.name /\ v = s.value) \/ s.name \notin vt)
  <2>1. r.captured = <<Capture(f, v)>> /\ r.next = i + 1
    BY <1>4 DEF Attached, Read
  <2>2. Capture(f, v) \in Captures /\ Capture(f, v).flag = f /\ Capture(f, v).value = v
    BY DEF Capture, Captures
  <2>3. r.captured # << >> /\ r.next # i + 2
    BY <1>2, <2>1
  <2>4. s.name \in vt => f = s.name /\ v = ValueAt(ws, i)
    BY <1>4 DEF ValueAt
  <2> HIDE DEF s
  <2> QED
    BY <1>1, <2>1, <2>2, <2>3, <2>4 DEF r, s
<1>5. CASE r = TakeNext(ws, i, flags, f) /\ ~s.eq /\ (s.name \in vt => f = s.name)
  <2>1. CASE i = Len(ws)
    <3>1. r.captured = << >> /\ r.next = i + 1
      BY <1>5, <2>1 DEF TakeNext, Read
    <3> QED
      BY <2>1, <3>1 DEF r
  <2>2. CASE i # Len(ws)
    <3> DEFINE c == Capture(f, ws[i + 1])
    <3>1. i < Len(ws) /\ r.captured = <<c>> /\ r.captured # << >>
      BY <1>2, <1>5, <2>2 DEF TakeNext, Read
    <3>2. ws[i + 1] \in Values
      BY <1>2, <3>1, Lined DEF Values
    <3>3. c \in Captures /\ c.flag = f /\ c.value = ws[i + 1]
      BY <3>2 DEF Capture, Captures
    <3>4. ValueAt(ws, i) = ws[i + 1]
      BY <1>5, <3>1 DEF ValueAt
    <3> HIDE DEF c, s
    <3> QED
      BY <1>1, <1>5, <3>1, <3>3, <3>4 DEF r, s
  <2> QED
    BY <2>1, <2>2
<1> QED
  BY <1>1, <1>3, <1>4, <1>5 DEF EndsTaking

LEMMA NoneOfJoined ==
  ASSUME NEW c \in Captures, NEW b \in Seq(Captures), NoneIsFlag(<<c>> \o b)
  PROVE  NoneIsFlag(b) /\ ~isFlagToken(c.value)
<1> DEFINE l == <<c>> \o b
<1>1. /\ DOMAIN l = 1 .. Len(b) + 1 /\ DOMAIN b = 1 .. Len(b) /\ Len(b) \in Nat
      /\ l[1] = c /\ \A k \in 1 .. Len(b) : l[k + 1] = b[k]
  OBVIOUS
<1>2. \A k \in DOMAIN l : ~isFlagToken(l[k].value)
  BY DEF NoneIsFlag
<1> HIDE DEF l
<1>3. 1 \in DOMAIN l /\ \A k \in 1 .. Len(b) : k + 1 \in DOMAIN l
  BY <1>1
<1> QED
  BY <1>1, <1>2, <1>3 DEF NoneIsFlag

LEMMA AtFirstEarlier ==
  ASSUME NEW ws, Line(ws), NEW key, NEW v, NEW i \in Nat, NEW j \in Nat, i <= j,
         \A h \in i .. j - 1 : ~isFlag(Shape[ws[h]], key), AtFirst(ws, j, key, v)
  PROVE  AtFirst(ws, i, key, v)
<1>1. PICK k \in j .. Len(ws) : /\ isFlag(Shape[ws[k]], key) /\ v = ValueAt(ws, k)
                               /\ \A h \in j .. k - 1 : ~isFlag(Shape[ws[h]], key)
  BY DEF AtFirst
<1>2. Len(ws) \in Nat
  BY Lined
<1>3. k \in i .. Len(ws) /\ \A h \in i .. k - 1 : h \in i .. j - 1 \/ h \in j .. k - 1
  BY <1>2
<1>4. \A h \in i .. k - 1 : ~isFlag(Shape[ws[h]], key)
  BY <1>1, <1>3
<1> QED
  BY <1>1, <1>3, <1>4 DEF AtFirst

LEMMA FlagIsToken ==
  ASSUME NEW w, NEW key, isFlag(Shape[w], key)
  PROVE  isFlagToken(w) /\ Shape[w].name = key.name
BY DEF isFlag, isFlagToken

LEMMA FirstIsFound ==
  ASSUME NEW ws, Line(ws), NEW vt, NEW norms, Reads(norms, ws, vt),
         NEW key, key.name \in vt, Plainly(ws, key), NEW v
  PROVE  \A i \in 2 .. Len(ws) + 1 :
           NoneIsFlag(norms[i].captured) /\ FirstIs(norms[i].captured, key.name, v) => AtFirst(ws, i, key, v)
<1> DEFINE n == Len(ws)
           claim(i) == NoneIsFlag(norms[i].captured) /\ FirstIs(norms[i].captured, key.name, v)
                         => AtFirst(ws, i, key, v)
           Good == {i \in 2 .. n + 1 : claim(i)}
<1>1. n \in Nat /\ norms[n + 1].captured = << >>
  BY Lined DEF Reads, Nothing, Positionals
<1>2. ASSUME NEW i \in 2 .. n + 1, \A j \in 2 .. n + 1 : i < j => j \in Good
      PROVE  claim(i)
  <2> SUFFICES ASSUME NoneIsFlag(norms[i].captured), FirstIs(norms[i].captured, key.name, v)
               PROVE  AtFirst(ws, i, key, v)
    OBVIOUS
  <2>1. norms[i].captured # << >>
    BY FirstOfNone
  <2>2. i # n + 1
    BY <1>1, <2>1
  <2>3. i \in 2 .. Len(ws) /\ i \in 1 .. Len(ws) /\ i \in Nat
    BY <1>1, <2>2
  <2>4. Shape[ws[i]].kind # "terminator"
    <3>1. Rest(ws, i).captured = << >>
      BY DEF Rest, Positionals
    <3> QED
      BY <2>1, <2>3, <3>1 DEF Reads
  <2> DEFINE r == ReadWord(ws, i, vt)
             rest == norms[r.next]
             s == Shape[ws[i]]
  <2>5. /\ r.next \in {i + 1, i + 2} /\ r.next <= Len(ws) + 1 /\ r.captured \in Seq(Captures)
        /\ ~isFlagToken(ws[i]) => r.captured = << >> /\ r.next = i + 1
    <3> HIDE DEF claim, Good, n
    <3> QED
      BY <2>3, <2>4, WordRead
  <2>6. norms[i] = Joined(r, rest)
    BY <2>3, <2>4 DEF Reads
  <2>7. r.next \in 2 .. n + 1 /\ i < r.next
    <3> HIDE DEF r
    <3> QED
      BY <1>1, <2>3, <2>5
  <2>8. rest \in Norms /\ rest.captured \in Seq(Captures)
    BY <2>7 DEF Reads, Norms
  <2>9. norms[i].captured = r.captured \o rest.captured
    <3> HIDE DEF r, rest
    <3>1. Joined(r, rest).captured = r.captured \o rest.captured
      BY <2>8, JoinedFields
    <3> QED
      BY <2>6, <3>1
  <2>10. claim(r.next)
    BY <1>2, <2>7
  <2>11. ASSUME \A h \in i .. r.next - 1 : ~isFlag(Shape[ws[h]], key), NoneIsFlag(rest.captured),
                FirstIs(rest.captured, key.name, v)
         PROVE  AtFirst(ws, i, key, v)
    <3>1. AtFirst(ws, r.next, key, v)
      BY <2>10, <2>11
    <3>2. r.next \in Nat /\ i <= r.next
      <4> HIDE DEF r
      <4> QED  BY <1>1, <2>3, <2>7
    <3> HIDE DEF claim, Good, n, r, rest
    <3> QED
      BY <2>3, <2>11, <3>1, <3>2, AtFirstEarlier
  <2>12. CASE ~isFlagToken(ws[i])
    <3>1. norms[i].captured = rest.captured /\ r.next = i + 1
      <4> HIDE DEF r, rest, claim, Good, n
      <4>1. r.captured = << >> /\ r.next = i + 1
        BY <2>5, <2>12
      <4>2. << >> \o rest.captured = rest.captured
        BY <2>8
      <4> QED
        BY <2>9, <4>1, <4>2
    <3>2. ~isFlag(Shape[ws[i]], key)
      BY <2>12, FlagIsToken
    <3>3. \A h \in i .. r.next - 1 : h = i
      <4> HIDE DEF r
      <4> QED  BY <2>3, <3>1
    <3> QED
      BY <2>11, <3>1, <3>2, <3>3
  <2>13. CASE isFlagToken(ws[i])
    <3>1. /\ r.captured = << >> => r.next = i + 1 /\ (s.name \in vt => i = Len(ws))
          /\ r.captured # << >> =>
               \E c \in Captures :
                 /\ r.captured = <<c>> /\ c.flag \in {s.name} \cup {s.letters[j] : j \in DOMAIN s.letters}
                 /\ r.next = i + 2 => i < Len(ws) /\ c.value = ws[i + 1]
                 /\ s.name \in vt => c.flag = s.name /\ c.value = ValueAt(ws, i)
      <4> HIDE DEF claim, Good, n
      <4> QED
        BY <2>3, <2>13, CaptureRead
    <3>2. isFlag(s, key) \/ key.name \notin {s.name} \cup {s.letters[j] : j \in DOMAIN s.letters}
      <4>1. i \in DOMAIN ws
        BY <2>3, Lined
      <4> QED
        BY <2>13, <4>1 DEF Plainly
    <3>3. isFlag(s, key) => s.name = key.name
      BY FlagIsToken
    <3> HIDE DEF r, s
    <3>4. CASE r.captured = << >>
      <4>1. norms[i].captured = rest.captured
        <5> HIDE DEF rest, claim, Good, n
        <5>1. << >> \o rest.captured = rest.captured
          BY <2>8
        <5> QED
          BY <2>9, <3>4, <5>1
      <4>2. ~isFlag(s, key)
        <5> SUFFICES ASSUME isFlag(s, key) PROVE FALSE
          OBVIOUS
        <5>1. r.next = n + 1
          BY <3>1, <3>3, <3>4
        <5> QED
          BY <1>1, <2>1, <4>1, <5>1
      <4>3. \A h \in i .. r.next - 1 : h = i
        BY <2>3, <3>1, <3>4
      <4> QED
        BY <2>11, <4>1, <4>2, <4>3 DEF s
    <3>5. CASE r.captured # << >>
      <4>1. PICK c \in Captures :
              /\ r.captured = <<c>> /\ c.flag \in {s.name} \cup {s.letters[j] : j \in DOMAIN s.letters}
              /\ r.next = i + 2 => i < Len(ws) /\ c.value = ws[i + 1]
              /\ s.name \in vt => c.flag = s.name /\ c.value = ValueAt(ws, i)
        BY <3>1, <3>5
      <4> HIDE DEF rest, claim, Good, n
      <4>2. NoneIsFlag(<<c>> \o rest.captured) /\ FirstIs(<<c>> \o rest.captured, key.name, v)
        BY <2>9, <4>1
      <4>3. NoneIsFlag(rest.captured) /\ ~isFlagToken(c.value)
        BY <2>8, <4>2, NoneOfJoined
      <4>4. IF c.flag = key.name THEN v = c.value ELSE FirstIs(rest.captured, key.name, v)
        BY <2>8, <4>2, FirstOfJoined
      <4>5. CASE isFlag(s, key)
        <5>1. v = ValueAt(ws, i)
          BY <3>3, <4>1, <4>4, <4>5
        <5>2. i \in i .. Len(ws) /\ i .. i - 1 = {}
          BY <2>3
        <5> QED
          BY <4>5, <5>1, <5>2 DEF AtFirst, s
      <4>6. CASE ~isFlag(s, key)
        <5>1. FirstIs(rest.captured, key.name, v)
          BY <3>2, <4>1, <4>4, <4>6
        <5>2. r.next = i + 2 => ~isFlag(Shape[ws[i + 1]], key)
          BY <4>1, <4>3, FlagIsToken
        <5>3. \A h \in i .. r.next - 1 : h = i \/ (h = i + 1 /\ r.next = i + 2)
          BY <2>3, <2>5
        <5>4. \A h \in i .. r.next - 1 : ~isFlag(Shape[ws[h]], key)
          BY <4>6, <5>2, <5>3 DEF s
        <5> QED
          BY <2>11, <4>3, <5>1, <5>4
      <4> QED
        BY <4>5, <4>6
    <3> QED
      BY <3>4, <3>5
  <2> QED
    BY <2>12, <2>13
<1>3. \A i \in 2 .. n + 1 : i \in Good
  <2>1. \A i \in 2 .. n + 1 : (\A j \in 2 .. n + 1 : i < j => j \in Good) => i \in Good
    <3> HIDE DEF claim, n
    <3> QED
      BY <1>2
  <2> HIDE DEF Good, n
  <2> QED
    BY <1>1, <2>1, FromTheEnd
<1> QED
  <2> HIDE DEF claim
  <2>1. \A i \in 2 .. n + 1 : claim(i)
    BY <1>3
  <2> QED
    BY <2>1 DEF claim

\* What stands at the first occurrence is what lookupFlag finds.
LEMMA LookedUp ==
  ASSUME NEW ws, Line(ws), NEW key, NEW v, AtFirst(ws, 1, key, v)
  PROVE  lookupFlag(ws, key).found /\ lookupFlag(ws, key).value = v
<1> DEFINE here == {i \in DOMAIN ws : isFlag(Shape[ws[i]], key)}
           i == CHOOSE i \in here : \A j \in here : i <= j
<1>1. PICK j \in 1 .. Len(ws) : /\ isFlag(Shape[ws[j]], key) /\ v = ValueAt(ws, j)
                               /\ \A h \in 1 .. j - 1 : ~isFlag(Shape[ws[h]], key)
  BY DEF AtFirst
<1>2. Len(ws) \in Nat /\ DOMAIN ws = 1 .. Len(ws)
  BY Lined
<1>3. j \in here /\ \A h \in here : j <= h /\ h \in Nat
  BY <1>1, <1>2
<1>4. here # {} /\ i = j
  <2>1. i \in here /\ i <= j /\ j <= i
    <3> HIDE DEF here
    <3> QED
      BY <1>3
  <2> HIDE DEF i
  <2> QED
    BY <1>3, <2>1
<1>5. lookupFlag(ws, key) = [found |-> here # {},
         value |-> IF here = {} THEN EmptyWord
                   ELSE IF Shape[ws[i]].eq THEN Shape[ws[i]].value
                   ELSE IF i < Len(ws) THEN ws[i + 1] ELSE EmptyWord]
  BY DEF lookupFlag
<1>6. lookupFlag(ws, key) = [found |-> TRUE, value |-> ValueAt(ws, j)]
  <2> HIDE DEF here, i
  <2> QED
    BY <1>4, <1>5 DEF ValueAt
<1> QED
  BY <1>1, <1>6

\* A text that is not empty is a target.
LEMMA TextIsTarget ==
  ASSUME NEW texts, NEW m \in Nat, DOMAIN texts = 1 .. m,
         NEW n \in 1 .. m, texts[n] \notin {<< >>, <<EmptyWord>>}
  PROVE  \E k \in DOMAIN nonEmpty(texts) : nonEmpty(texts)[k] = texts[n]
<1>1. texts[n] \in ElementsOf(nonEmpty(texts))
  BY TextsAreTargets
<1> QED
  BY <1>1 DEF ElementsOf

\* The value a rule sees a recurse flag with is inspected too (CapturedIsInspected), where
\* no flag was taken for a value and recurse flags are written alone (README.md:608), not
\* within a bundle.  Other flags may stand around it in any number and form.
THEOREM CapturedAreInspected == Spec => []CapturedIsInspected
<1>1. LineInv => CapturedIsInspected
  <2> DEFINE flags == wrapper.spec.flags
  <2> SUFFICES ASSUME LineInv, NoFlagTaken, WrittenAlone, NEW n \in DOMAIN flags, NEW v \in FirstCaptured(flags[n].name)
               PROVE  IF v = EmptyWord THEN extraction.failed
                      ELSE \E m \in DOMAIN extraction.targets : extraction.targets[m] = <<v>>
    BY DEF CapturedIsInspected
  <2> DEFINE key == flags[n]
             vt == valueTaking
             looked == lookupFlag(words, key)
  <2>1. Line(words) /\ wrapper \in Wrappers /\ words[1] = wrapper.name /\ Len(words) \in Nat /\ Len(words) >= 1
    BY DEF LineInv, Line
  <2>2. PICK norms : Reads(norms, words, vt) /\ norm = norms[2]
    BY <2>1, NormalizeUnfolds DEF norm, normOf
  <2>3. key.name \in vt
    BY DEF valueTaking
  <2>4. Plainly(words, key)
    BY DEF Plainly, WrittenAlone
  <2>5. norm.captured \in Seq(Captures)
    <3>1. 2 \in 2 .. Len(words) + 1
      BY <2>1
    <3> QED
      BY <2>2, <3>1 DEF Reads, Norms
  <2>6. FirstIs(norm.captured, key.name, v)
    <3> DEFINE l == norm.captured
               mine == {k \in DOMAIN l : l[k].flag = key.name}
    <3>1. PICK k \in mine : v = l[k].value /\ \A m \in mine : k <= m
      BY DEF FirstCaptured
    <3>2. DOMAIN l = 1 .. Len(l) /\ Len(l) \in Nat
      BY <2>5
    <3> HIDE DEF l
    <3>3. k \in DOMAIN l /\ l[k].flag = key.name
      BY <3>1
    <3>4. \A m \in 1 .. k - 1 : l[m].flag # key.name
      <4> SUFFICES ASSUME NEW m \in 1 .. k - 1, l[m].flag = key.name PROVE FALSE
        OBVIOUS
      <4>1. m \in mine /\ m < k /\ k \in Nat
        BY <3>2, <3>3
      <4> HIDE DEF mine
      <4> QED
        BY <3>1, <4>1
    <3> HIDE DEF key
    <3> QED
      BY <3>1, <3>3, <3>4 DEF FirstIs, l
  <2>7. NoneIsFlag(norm.captured)
    BY DEF NoneIsFlag, NoFlagTaken
  <2>8. AtFirst(words, 1, key, v)
    <3>1. AtFirst(words, 2, key, v)
      <4>1. 2 \in 2 .. Len(words) + 1
        BY <2>1
      <4> HIDE DEF key, vt
      <4> QED
        BY <2>1, <2>2, <2>3, <2>4, <2>6, <2>7, <4>1, FirstIsFound
    <3>2. ~isFlag(Shape[words[1]], key)
      <4>1. ~isFlagToken(words[1])
        BY <2>1, WrappersAssumption DEF isFlagToken
      <4> QED
        BY <4>1, FlagIsToken
    <3>3. \A h \in 1 .. 2 - 1 : h = 1
      OBVIOUS
    <3> HIDE DEF key
    <3> QED
      BY <2>1, <3>1, <3>2, <3>3, AtFirstEarlier
  <2>9. looked.found /\ looked.value = v
    <3> HIDE DEF key
    <3> QED
      BY <2>1, <2>8, LookedUp
  <2>10. CASE v = EmptyWord
    BY <2>9, <2>10, Failure
  <2>11. CASE v # EmptyWord
    <3> DEFINE texts == TextsOf(words, wrapper.spec, valueTaking)
    <3>1. extraction.targets = nonEmpty(texts)
      BY Targets DEF extraction, extractionOf
    <3>2. Counted(texts, words, wrapper.spec, valueTaking)
      BY <2>1, WrappersAssumption, TextsCounted
    <3> HIDE DEF texts
    <3>3. PICK m \in Nat : DOMAIN texts = 1 .. m /\ n \in 1 .. m /\ texts[n] = <<looked.value>>
      <4>1. /\ Len(flags) \in Nat /\ DOMAIN flags = 1 .. Len(flags) /\ DOMAIN texts = 1 .. Len(flags) + 2
            /\ \A k \in 1 .. Len(flags) : texts[k] = <<lookupFlag(words, flags[k]).value>>
        BY <3>2 DEF Counted
      <4> HIDE DEF flags
      <4>2. Len(flags) + 2 \in Nat /\ n \in 1 .. Len(flags) + 2 /\ n \in 1 .. Len(flags)
        BY <4>1
      <4> QED
        BY <4>1, <4>2
    <3>4. texts[n] = <<v>> /\ <<v>> \notin {<< >>, <<EmptyWord>>}
      BY <2>9, <2>11, <3>3
    <3>5. \E k \in DOMAIN nonEmpty(texts) : nonEmpty(texts)[k] = texts[n]
      BY <3>3, <3>4, TextIsTarget
    <3> QED
      BY <2>11, <3>1, <3>4, <3>5
  <2> QED
    BY <2>10, <2>11
<1> QED
  BY <1>1, Typing, PTL

--------------------------------------------------------------------------------
(* A line that grows *)

LEMMA Prefixed ==
  ASSUME NEW S, NEW s \in Seq(S), NEW t \in Seq(S)
  PROVE  IsPrefix(s, t) <=> Len(s) <= Len(t) /\ \A k \in 1 .. Len(s) : s[k] = t[k]
<1>1. Len(s) \in Nat /\ Len(t) \in Nat
  OBVIOUS
<1>2. SubSeq(s, 1, Len(s)) = [k \in 1 .. Len(s) |-> s[k]]
  BY <1>1
<1>3. ASSUME Len(s) <= Len(t)
      PROVE  SubSeq(t, 1, Len(s)) = [k \in 1 .. Len(s) |-> t[k]]
  BY <1>1, <1>3
<1>4. ASSUME IsPrefix(s, t)
      PROVE  Len(s) <= Len(t) /\ \A k \in 1 .. Len(s) : s[k] = t[k]
  <2>1. Len(s) <= Len(t) /\ SubSeq(s, 1, Len(s)) = SubSeq(t, 1, Len(s))
    BY <1>4 DEF IsPrefix
  <2>2. [k \in 1 .. Len(s) |-> s[k]] = [k \in 1 .. Len(s) |-> t[k]]
    BY <1>2, <1>3, <2>1
  <2>3. ASSUME NEW k \in 1 .. Len(s)
        PROVE  [m \in 1 .. Len(s) |-> s[m]][k] = s[k] /\ [m \in 1 .. Len(s) |-> t[m]][k] = t[k]
    OBVIOUS
  <2> QED
    BY <2>1, <2>2, <2>3
<1>5. ASSUME Len(s) <= Len(t), \A k \in 1 .. Len(s) : s[k] = t[k]
      PROVE  IsPrefix(s, t)
  <2>1. [k \in 1 .. Len(s) |-> s[k]] = [k \in 1 .. Len(s) |-> t[k]]
    BY <1>5
  <2> QED
    BY <1>2, <1>3, <1>5, <2>1 DEF IsPrefix
<1> QED
  BY <1>4, <1>5

LEMMA NonePrefixes ==
  ASSUME NEW S, NEW t \in Seq(S)
  PROVE  IsPrefix(<< >>, t)
<1>1. << >> \in Seq(S) /\ Len(<< >>) = 0 /\ Len(t) \in Nat
  OBVIOUS
<1>2. Len(<< >>) <= Len(t) /\ \A k \in 1 .. Len(<< >>) : << >>[k] = t[k]
  BY <1>1
<1> QED
  BY <1>1, <1>2, Prefixed

LEMMA PrefixAfter ==
  ASSUME NEW S, NEW a \in Seq(S), NEW s \in Seq(S), NEW t \in Seq(S), IsPrefix(s, t)
  PROVE  IsPrefix(a \o s, a \o t)
<1>1. Len(s) <= Len(t) /\ \A k \in 1 .. Len(s) : s[k] = t[k]
  BY Prefixed
<1>2. a \o s \in Seq(S) /\ a \o t \in Seq(S)
  OBVIOUS
<1>3. Len(a \o s) = Len(a) + Len(s) /\ Len(a \o t) = Len(a) + Len(t)
  OBVIOUS
<1>4. Len(a) \in Nat /\ Len(s) \in Nat /\ Len(t) \in Nat
  OBVIOUS
<1>5. ASSUME NEW k \in 1 .. Len(a) + Len(s) PROVE (a \o s)[k] = (a \o t)[k]
  <2>1. CASE k <= Len(a)
    BY <1>4, <2>1
  <2>2. CASE ~(k <= Len(a))
    <3>1. k - Len(a) \in 1 .. Len(s) /\ k - Len(a) \in 1 .. Len(t)
      BY <1>1, <1>4, <2>2
    <3>2. (a \o s)[k] = s[k - Len(a)] /\ (a \o t)[k] = t[k - Len(a)]
      BY <1>1, <1>4, <2>2, <3>1
    <3> QED
      BY <1>1, <3>1, <3>2
  <2> QED
    BY <2>1, <2>2
<1>6. Len(a \o s) <= Len(a \o t)
  BY <1>1, <1>3, <1>4
<1> QED
  BY <1>2, <1>3, <1>5, <1>6, Prefixed

LEMMA PrefixOfItself ==
  ASSUME NEW S, NEW s \in Seq(S)
  PROVE  IsPrefix(s, s)
BY DEF IsPrefix

\* A line with words after it.
Longer(ws, ws2) ==
  /\ Line(ws) /\ Line(ws2) /\ Len(ws2) = Len(ws) + 1
  /\ \A i \in 1 .. Len(ws) : ws2[i] = ws[i]

\* A word is read as before, or it was the last and misses its value no longer.
LEMMA ReadAgain ==
  ASSUME NEW ws, NEW ws2, Longer(ws, ws2), NEW i \in 1 .. Len(ws), NEW vt, Shape[ws[i]].kind # "terminator"
  PROVE  LET r == ReadWord(ws, i, vt)
             r2 == ReadWord(ws2, i, vt)
         IN  \/ r = r2
             \/ i = Len(ws) /\ r.flags = r2.flags /\ r.captured = << >> /\ r.args = << >> /\ r.next = i + 1
<1> DEFINE w == Shape[ws[i]]
           r == ReadWord(ws, i, vt)
           r2 == ReadWord(ws2, i, vt)
           alike(a, b) ==
             a = b \/ (i = Len(ws) /\ a.flags = b.flags /\ a.captured = << >> /\ a.args = << >> /\ a.next = i + 1)
<1>1. ws2[i] = ws[i] /\ ws[i] \in Words /\ Len(ws) \in Nat /\ Len(ws2) = Len(ws) + 1 /\ i \in Nat
  <2>1. Line(ws)
    BY DEF Longer
  <2> QED
    BY <2>1, Lined DEF Longer
<1>2. w.kind \in {"plain", "long", "short"}
  BY <1>1, LexiconAssumption
<1>3. ASSUME NEW flags, NEW f
      PROVE  alike(TakeNext(ws, i, flags, f), TakeNext(ws2, i, flags, f))
  <2>1. CASE i = Len(ws)
    <3>1. TakeNext(ws, i, flags, f) = Read(flags, << >>, i + 1, FALSE)
      BY <2>1 DEF TakeNext
    <3>2. TakeNext(ws2, i, flags, f) = Read(flags, <<Capture(f, ws2[i + 1])>>, i + 2, TRUE)
      <4>1. i # Len(ws2)
        BY <1>1, <2>1
      <4> QED
        BY <4>1 DEF TakeNext
    <3> QED
      BY <2>1, <3>1, <3>2 DEF Read
  <2>2. CASE i # Len(ws)
    <3>1. i # Len(ws2) /\ i + 1 \in 1 .. Len(ws)
      BY <1>1, <2>2
    <3>2. ws2[i + 1] = ws[i + 1]
      BY <3>1 DEF Longer
    <3>3. TakeNext(ws, i, flags, f) = TakeNext(ws2, i, flags, f)
      BY <2>2, <3>1, <3>2 DEF TakeNext
    <3> QED
      BY <3>3
  <2> QED
    BY <2>1, <2>2
<1>4. CASE w.kind = "plain"
  <2>1. r = [Read({}, << >>, i + 1, TRUE) EXCEPT !.args = <<i>>]
    BY <1>4 DEF ReadWord
  <2>2. r2 = [Read({}, << >>, i + 1, TRUE) EXCEPT !.args = <<i>>]
    BY <1>1, <1>4 DEF ReadWord
  <2> QED
    BY <2>1, <2>2
<1>5. CASE w.kind = "long"
  <2>1. r = handleDoubleDash(ws, i, w, vt)
    BY <1>5 DEF ReadWord
  <2>2. r2 = handleDoubleDash(ws2, i, w, vt)
    BY <1>1, <1>5 DEF ReadWord
  <2>3. CASE ~w.eq /\ w.name \in vt
    <3>1. r = TakeNext(ws, i, {w.name}, w.name) /\ r2 = TakeNext(ws2, i, {w.name}, w.name)
      BY <2>1, <2>2, <2>3 DEF handleDoubleDash
    <3>2. alike(TakeNext(ws, i, {w.name}, w.name), TakeNext(ws2, i, {w.name}, w.name))
      BY <1>3
    <3> HIDE DEF r, r2
    <3> QED
      BY <3>1, <3>2 DEF r, r2
  <2>4. CASE ~(~w.eq /\ w.name \in vt)
    <3>1. r = r2
      <4> HIDE DEF w, r, r2
      <4> QED  BY <2>1, <2>2, <2>4 DEF handleDoubleDash
    <3> QED
      BY <3>1
  <2> QED
    BY <2>3, <2>4
<1>6. CASE w.kind = "short"
  <2> DEFINE taking == {j \in DOMAIN w.letters : w.letters[j] \in vt}
             first == CHOOSE j \in taking : \A j2 \in taking : j <= j2
             upTo(m) == {w.letters[j] : j \in 1 .. m}
  <2>1. r = handleSingleDash(ws, i, w, vt)
    BY <1>6 DEF ReadWord
  <2>2. r2 = handleSingleDash(ws2, i, w, vt)
    BY <1>1, <1>6 DEF ReadWord
  <2>3. \/ r = TakeNext(ws, i, {w.name}, w.name) /\ r2 = TakeNext(ws2, i, {w.name}, w.name)
        \/ r = TakeNext(ws, i, upTo(first), w.letters[first]) /\ r2 = TakeNext(ws2, i, upTo(first), w.letters[first])
        \/ r = r2
    <3> DEFINE bundle(at) ==
                 IF w.eq THEN Read({w.name}, <<Capture(w.name, w.value)>>, i + 1, TRUE)
                 ELSE IF w.name \in vt THEN TakeNext(at, i, {w.name}, w.name)
                 ELSE IF taking = {} THEN Read(upTo(Len(w.letters)), << >>, i + 1, TRUE)
                 ELSE IF first < Len(w.letters)
                   THEN Read(upTo(first), <<Capture(w.letters[first], w.rests[first])>>, i + 1, TRUE)
                 ELSE TakeNext(at, i, upTo(first), w.letters[first])
    <3>1. r = bundle(ws) /\ r2 = bundle(ws2)
      BY <2>1, <2>2 DEF handleSingleDash
    <3> HIDE DEF r, r2, taking, first, upTo, w
    <3> QED
      BY <3>1
  <2>4. alike(TakeNext(ws, i, {w.name}, w.name), TakeNext(ws2, i, {w.name}, w.name))
        /\ alike(TakeNext(ws, i, upTo(first), w.letters[first]), TakeNext(ws2, i, upTo(first), w.letters[first]))
    BY <1>3
  <2> HIDE DEF r, r2, first, upTo, w
  <2> QED
    BY <2>3, <2>4 DEF r, r2
<1> QED
  BY <1>2, <1>4, <1>5, <1>6

\* What is read of a line, and of a longer one.
Grows(a, b) == a.flags \subseteq b.flags /\ IsPrefix(a.args, b.args) /\ IsPrefix(a.captured, b.captured)

LEMMA RestGrows ==
  ASSUME NEW ws, NEW ws2, Longer(ws, ws2), NEW i \in 2 .. Len(ws)
  PROVE  Grows(Rest(ws, i), Rest(ws2, i))
<1> DEFINE a == Rest(ws, i)
           b == Rest(ws2, i)
<1>1. Line(ws) /\ Line(ws2) /\ Len(ws2) = Len(ws) + 1 /\ Len(ws) \in Nat
  BY Lined DEF Longer
<1>2. /\ a \in Norms /\ Len(a.args) = Len(ws) - i /\ \A j \in 1 .. Len(ws) - i : a.args[j] = i + j
  BY <1>1, RestRead
<1>3. i \in 2 .. Len(ws2)
  BY <1>1
<1>4. /\ b \in Norms /\ Len(b.args) = Len(ws2) - i /\ \A j \in 1 .. Len(ws2) - i : b.args[j] = i + j
  BY <1>1, <1>3, RestRead
<1>5. a.flags = {} /\ a.captured = << >> /\ b.captured = << >>
  BY DEF Rest, Positionals
<1> HIDE DEF a, b
<1>6. a.args \in Seq(Nat) /\ b.args \in Seq(Nat) /\ b.captured \in Seq(Captures)
  BY <1>2, <1>4 DEF Norms
<1>7. Len(a.args) <= Len(b.args) /\ \A k \in 1 .. Len(a.args) : a.args[k] = b.args[k]
  BY <1>1, <1>2, <1>4
<1>8. IsPrefix(a.args, b.args)
  BY <1>6, <1>7, Prefixed
<1>9. IsPrefix(a.captured, b.captured)
  BY <1>5, <1>6, NonePrefixes
<1> QED
  BY <1>5, <1>8, <1>9 DEF Grows, a, b

LEMMA NothingGrows ==
  ASSUME NEW b \in Norms
  PROVE  Grows(Nothing, b)
<1>1. b.args \in Seq(Nat) /\ b.captured \in Seq(Captures)
  BY DEF Norms
<1>2. Nothing.flags = {} /\ Nothing.args = << >> /\ Nothing.captured = << >>
  BY DEF Nothing, Positionals
<1>3. IsPrefix(<< >>, b.args) /\ IsPrefix(<< >>, b.captured)
  BY <1>1, NonePrefixes
<1> QED
  BY <1>2, <1>3 DEF Grows

LEMMA JoinedGrows ==
  ASSUME NEW r, r.args \in Seq(Nat), r.captured \in Seq(Captures),
         NEW a \in Norms, NEW b \in Norms, Grows(a, b)
  PROVE  Grows(Joined(r, a), Joined(r, b))
<1>1. a.args \in Seq(Nat) /\ a.captured \in Seq(Captures) /\ b.args \in Seq(Nat) /\ b.captured \in Seq(Captures)
  BY DEF Norms
<1>2. IsPrefix(r.args \o a.args, r.args \o b.args)
  <2>1. IsPrefix(a.args, b.args)
    BY DEF Grows
  <2> QED
    BY <1>1, <2>1, PrefixAfter
<1>3. IsPrefix(r.captured \o a.captured, r.captured \o b.captured)
  <2>1. IsPrefix(a.captured, b.captured)
    BY DEF Grows
  <2> QED
    BY <1>1, <2>1, PrefixAfter
<1>4. r.flags \cup a.flags \subseteq r.flags \cup b.flags
  BY DEF Grows
<1> DEFINE x == Joined(r, a)
           y == Joined(r, b)
<1>5. /\ x.flags = r.flags \cup a.flags /\ x.captured = r.captured \o a.captured /\ x.args = r.args \o a.args
      /\ y.flags = r.flags \cup b.flags /\ y.captured = r.captured \o b.captured /\ y.args = r.args \o b.args
  BY JoinedFields
<1> HIDE DEF x, y
<1>6. x.flags \subseteq y.flags /\ IsPrefix(x.args, y.args) /\ IsPrefix(x.captured, y.captured)
  BY <1>2, <1>3, <1>4, <1>5
<1> QED
  BY <1>6 DEF Grows, x, y

LEMMA ReadingsGrow ==
  ASSUME NEW ws, NEW ws2, Longer(ws, ws2), NEW vt,
         NEW norms, Reads(norms, ws, vt), NEW norms2, Reads(norms2, ws2, vt)
  PROVE  \A i \in 2 .. Len(ws) + 1 : Grows(norms[i], norms2[i])
<1> DEFINE n == Len(ws)
           Good == {i \in 2 .. n + 1 : Grows(norms[i], norms2[i])}
<1>1. n \in Nat /\ Line(ws) /\ Line(ws2) /\ Len(ws2) = n + 1
  BY Lined DEF Longer
<1>2. /\ \A j \in 2 .. n + 1 : norms[j] \in Norms
      /\ \A j \in 2 .. n + 2 : norms2[j] \in Norms
      /\ norms[n + 1] = Nothing
  BY <1>1 DEF Reads
<1>3. ASSUME NEW i \in 2 .. n + 1, \A j \in 2 .. n + 1 : i < j => j \in Good
      PROVE  Grows(norms[i], norms2[i])
  <2>1. i \in 2 .. n + 2 /\ i \in Nat
    BY <1>1
  <2>2. CASE i = n + 1
    BY <1>2, <2>1, <2>2, NothingGrows
  <2>3. CASE i # n + 1
    <3>1. i \in 2 .. Len(ws) /\ i \in 1 .. Len(ws) /\ i \in 2 .. Len(ws2) /\ i \in 1 .. Len(ws2)
      BY <1>1, <2>3
    <3>2. ws2[i] = ws[i]
      BY <3>1 DEF Longer
    <3>3. CASE Shape[ws[i]].kind = "terminator"
      <4>1. norms[i] = Rest(ws, i) /\ norms2[i] = Rest(ws2, i)
        BY <3>1, <3>2, <3>3 DEF Reads
      <4> QED
        BY <3>1, <4>1, RestGrows
    <3>4. CASE Shape[ws[i]].kind # "terminator"
      <4> DEFINE r == ReadWord(ws, i, vt)
                 r2 == ReadWord(ws2, i, vt)
      <4>1. norms[i] = Joined(r, norms[r.next]) /\ norms2[i] = Joined(r2, norms2[r2.next])
        BY <3>1, <3>2, <3>4 DEF Reads
      <4>2. /\ r.next \in {i + 1, i + 2} /\ r.next <= Len(ws) + 1
            /\ r.captured \in Seq(Captures) /\ r.args \in Seq(Nat)
        <5> HIDE DEF Good, n
        <5> QED
          BY <1>1, <3>1, <3>4, WordRead
      <4>3. /\ r2.next \in {i + 1, i + 2} /\ r2.next <= Len(ws2) + 1
            /\ r2.captured \in Seq(Captures) /\ r2.args \in Seq(Nat)
        <5>1. Shape[ws2[i]].kind # "terminator"
          BY <3>2, <3>4
        <5> HIDE DEF Good, n
        <5> QED
          BY <1>1, <3>1, <5>1, WordRead
      <4>4. \/ r = r2
            \/ i = Len(ws) /\ r.flags = r2.flags /\ r.captured = << >> /\ r.args = << >> /\ r.next = i + 1
        <5> HIDE DEF Good, n
        <5> QED
          BY <3>1, <3>4, ReadAgain
      <4> HIDE DEF r, r2
      <4>5. r.next \in 2 .. n + 1 /\ i < r.next /\ r.next \in 2 .. n + 2 /\ r2.next \in 2 .. n + 2
        BY <1>1, <3>1, <4>2, <4>3
      <4>6. CASE r = r2
        <5>1. Grows(norms[r.next], norms2[r.next])
          BY <1>3, <4>5
        <5> HIDE DEF Good, n
        <5>2. Grows(Joined(r, norms[r.next]), Joined(r, norms2[r.next]))
          BY <1>2, <4>2, <4>5, <5>1, JoinedGrows
        <5> QED
          BY <4>1, <4>6, <5>2
      <4>7. CASE /\ i = Len(ws) /\ r.flags = r2.flags /\ r.captured = << >> /\ r.args = << >>
                 /\ r.next = i + 1
        <5>1. norms[r.next] = Nothing /\ norms[i] = Joined(r, Nothing)
          BY <1>2, <4>1, <4>7
        <5> DEFINE b == norms2[r2.next]
        <5>2. b \in Norms /\ norms2[i] = Joined(r2, b) /\ norms2[i] \in Norms
          BY <1>2, <2>1, <4>1, <4>5
        <5> HIDE DEF b, Good, n
        <5>3. /\ norms[i].flags = r.flags \cup {} /\ norms[i].args = << >> \o << >>
              /\ norms[i].captured = << >> \o << >>
          <6>1. Nothing.flags = {} /\ Nothing.args = << >> /\ Nothing.captured = << >>
            BY DEF Nothing, Positionals
          <6> DEFINE x == Joined(r, Nothing)
          <6>2. x.flags = r.flags \cup Nothing.flags /\ x.args = r.args \o Nothing.args
                /\ x.captured = r.captured \o Nothing.captured
            BY NothingRead, JoinedFields
          <6> HIDE DEF x
          <6> QED
            BY <4>7, <5>1, <6>1, <6>2 DEF x
        <5>4. << >> \o << >> = << >>
          OBVIOUS
        <5>5. norms2[i].flags = r2.flags \cup b.flags
          <6> HIDE DEF r2
          <6>1. Joined(r2, b).flags = r2.flags \cup b.flags
            BY <5>2, JoinedFields
          <6> QED
            BY <5>2, <6>1
        <5>6. norms2[i].args \in Seq(Nat) /\ norms2[i].captured \in Seq(Captures)
          BY <5>2 DEF Norms
        <5>7. IsPrefix(<< >>, norms2[i].args) /\ IsPrefix(<< >>, norms2[i].captured)
          BY <5>6, NonePrefixes
        <5> QED
          BY <4>7, <5>3, <5>4, <5>5, <5>7 DEF Grows
      <4> QED
        BY <4>4, <4>6, <4>7
    <3> QED
      BY <3>3, <3>4
  <2> QED
    BY <2>2, <2>3
<1>4. \A i \in 2 .. n + 1 : i \in Good
  <2>1. \A i \in 2 .. n + 1 : (\A j \in 2 .. n + 1 : i < j => j \in Good) => i \in Good
    BY <1>3
  <2> HIDE DEF Good, n
  <2> QED
    BY <1>1, <2>1, FromTheEnd
<1> QED
  BY <1>4

LEMMA ConsumedAlike ==
  ASSUME NEW ws, NEW ws2, Longer(ws, ws2), NEW i \in 1 .. Len(ws), NEW vt
  PROVE  consumeFlag(ws2, i, vt) = consumeFlag(ws, i, vt) /\ ws2[i] = ws[i]
BY DEF Longer, consumeFlag

\* An inner command that begins within the line begins there still.
LEMMA StartsStay ==
  ASSUME NEW ws, NEW ws2, Longer(ws, ws2), NEW vt,
         NEW starts, Starts(starts, ws, vt), NEW starts2, Starts(starts2, ws2, vt)
  PROVE  \A i \in 2 .. Len(ws) + 2 : starts[i] >= 2 /\ (starts[i] <= Len(ws) => starts2[i] = starts[i])
<1> DEFINE n == Len(ws) + 1
           claim(i) == starts[i] >= 2 /\ (starts[i] <= Len(ws) => starts2[i] = starts[i])
           Good == {i \in 2 .. n + 1 : claim(i)}
<1>1. Len(ws) \in Nat /\ Len(ws) >= 1 /\ n \in Nat /\ n + 1 = Len(ws) + 2 /\ Len(ws2) = Len(ws) + 1
  BY Lined DEF Longer, Line
<1>2. ASSUME NEW i \in 2 .. n + 1, \A j \in 2 .. n + 1 : i < j => j \in Good
      PROVE  claim(i)
  <2>1. i \in Nat
    BY <1>1
  <2>2. CASE i > Len(ws)
    <3>1. starts[i] = Len(ws) + 1
      BY <2>1, <2>2 DEF Starts
    <3> QED
      BY <1>1, <3>1
  <2>3. CASE ~(i > Len(ws))
    <3>1. i \in 1 .. Len(ws) /\ ~(i > Len(ws2))
      BY <1>1, <2>1, <2>3
    <3> DEFINE c == consumeFlag(ws, i, vt)
    <3>2. consumeFlag(ws2, i, vt) = c /\ ws2[i] = ws[i]
      BY <3>1, ConsumedAlike
    <3>3. starts[i] = IF isFlagToken(ws[i]) THEN starts[c] ELSE i
      BY <2>1, <2>3 DEF Starts
    <3>4. starts2[i] = IF isFlagToken(ws[i]) THEN starts2[c] ELSE i
      BY <2>1, <3>1, <3>2 DEF Starts
    <3>5. c \in {i + 1, i + 2}
      BY <2>1, Consumed
    <3> HIDE DEF c
    <3>6. c \in 2 .. n + 1 /\ i < c
      BY <1>1, <3>1, <3>5
    <3>7. claim(c)
      BY <1>2, <3>6
    <3> QED
      BY <3>3, <3>4, <3>7
  <2> QED
    BY <2>2, <2>3
<1>3. \A i \in 2 .. n + 1 : i \in Good
  <2>1. \A i \in 2 .. n + 1 : (\A j \in 2 .. n + 1 : i < j => j \in Good) => i \in Good
    BY <1>2
  <2> HIDE DEF Good, n
  <2> QED
    BY <1>1, <2>1, FromTheEnd
<1> QED
  BY <1>1, <1>3

\* So does the search that comes upon it.
Stays(scan, scan2, ws) ==
  \A i \in 2 .. Len(ws) + 2 : \A k \in Int :
    scan[<<i, k>>].ok =>
      scan[<<i, k>>].start >= 2 /\ (scan[<<i, k>>].start <= Len(ws) => scan2[<<i, k>>] = scan[<<i, k>>])

LEMMA ScansStay ==
  ASSUME NEW ws, NEW ws2, Longer(ws, ws2), NEW vt, NEW subs, Skips(subs),
         NEW scan, Scans(scan, ws, vt, subs), NEW scan2, Scans(scan2, ws2, vt, subs)
  PROVE  Stays(scan, scan2, ws)
<1> DEFINE n == Len(ws) + 1
           claim(i) == \A k \in Int :
             scan[<<i, k>>].ok =>
               scan[<<i, k>>].start >= 2 /\ (scan[<<i, k>>].start <= Len(ws) => scan2[<<i, k>>] = scan[<<i, k>>])
           Good == {i \in 2 .. n + 1 : claim(i)}
<1>1. Len(ws) \in Nat /\ n \in Nat /\ n + 1 = Len(ws) + 2 /\ Len(ws2) = Len(ws) + 1 /\ Line(ws) /\ Line(ws2)
  BY Lined DEF Longer
<1>2. ASSUME NEW i \in 2 .. n + 1, \A j \in 2 .. n + 1 : i < j => j \in Good
      PROVE  claim(i)
  <2> SUFFICES ASSUME NEW k \in Int, scan[<<i, k>>].ok
               PROVE  scan[<<i, k>>].start >= 2
                      /\ (scan[<<i, k>>].start <= Len(ws) => scan2[<<i, k>>] = scan[<<i, k>>])
    OBVIOUS
  <2>1. i \in Nat
    BY <1>1
  <2> DEFINE at == scan[<<i, k>>]
             c == consumeFlag(ws, i, vt)
             left == IF k = NoVerb THEN subs[ws[i]] ELSE k - 1
  <2>2. at = IF i > Len(ws) THEN IF k = NoVerb THEN NotFound ELSE TooShort
         ELSE IF Shape[ws[i]].kind = "terminator"
           THEN IF k = NoVerb THEN NotFound
                ELSE IF k = 0 THEN FoundAt(i) ELSE TooShort
         ELSE IF isFlagToken(ws[i]) THEN scan[<<c, k>>]
         ELSE IF k = NoVerb /\ ws[i] \notin DOMAIN subs THEN NotFound
         ELSE IF left = 0 THEN FoundAt(findInnerStart(ws, i + 1, vt))
         ELSE scan[<<i + 1, left>>]
    BY <2>1 DEF Scans
  <2>3. ~NotFound.ok /\ ~TooShort.ok
    BY DEF NotFound, TooShort
  <2>4. i \in 1 .. Len(ws) /\ ~(i > Len(ws2))
    <3> HIDE DEF at, c, left
    <3>1. ~(i > Len(ws))
      BY <2>2, <2>3 DEF at
    <3> QED
      BY <1>1, <2>1, <3>1
  <2>5. consumeFlag(ws2, i, vt) = c /\ ws2[i] = ws[i]
    BY <2>4, ConsumedAlike
  <2>6. scan2[<<i, k>>] = IF Shape[ws[i]].kind = "terminator"
           THEN IF k = NoVerb THEN NotFound
                ELSE IF k = 0 THEN FoundAt(i) ELSE TooShort
         ELSE IF isFlagToken(ws[i]) THEN scan2[<<c, k>>]
         ELSE IF k = NoVerb /\ ws[i] \notin DOMAIN subs THEN NotFound
         ELSE IF left = 0 THEN FoundAt(findInnerStart(ws2, i + 1, vt))
         ELSE scan2[<<i + 1, left>>]
    <3> HIDE DEF at, c, claim, Good, n
    <3>1. scan2[<<i, k>>] = IF i > Len(ws2) THEN IF k = NoVerb THEN NotFound ELSE TooShort
           ELSE IF Shape[ws2[i]].kind = "terminator"
             THEN IF k = NoVerb THEN NotFound
                  ELSE IF k = 0 THEN FoundAt(i) ELSE TooShort
           ELSE IF isFlagToken(ws2[i]) THEN scan2[<<consumeFlag(ws2, i, vt), k>>]
           ELSE IF k = NoVerb /\ ws2[i] \notin DOMAIN subs THEN NotFound
           ELSE LET m == IF k = NoVerb THEN subs[ws2[i]] ELSE k - 1
                IN  IF m = 0 THEN FoundAt(findInnerStart(ws2, i + 1, vt)) ELSE scan2[<<i + 1, m>>]
      BY <2>1 DEF Scans
    <3> QED
      BY <2>4, <2>5, <3>1
  <2>7. c \in 2 .. n + 1 /\ i < c
    <3>1. c \in {i + 1, i + 2}
      BY <2>1, Consumed
    <3> HIDE DEF c
    <3> QED
      BY <1>1, <2>4, <3>1
  <2>8. i + 1 \in 2 .. n + 1 /\ i < i + 1
    BY <1>1, <2>4
  <2>9. ~(i > Len(ws))
    BY <1>1, <2>4
  <2>10. scan[<<c, k>>].ok =>
           scan[<<c, k>>].start >= 2 /\ (scan[<<c, k>>].start <= Len(ws) => scan2[<<c, k>>] = scan[<<c, k>>])
    <3> HIDE DEF c
    <3>1. claim(c)
      BY <1>2, <2>7
    <3> QED
      BY <3>1
  <2>11. \A m \in Int : scan[<<i + 1, m>>].ok =>
           /\ scan[<<i + 1, m>>].start >= 2
           /\ scan[<<i + 1, m>>].start <= Len(ws) => scan2[<<i + 1, m>>] = scan[<<i + 1, m>>]
    <3>1. claim(i + 1)
      BY <1>2, <2>8
    <3> QED
      BY <3>1
  <2>12. /\ findInnerStart(ws, i + 1, vt) >= 2
         /\ findInnerStart(ws, i + 1, vt) <= Len(ws) =>
              findInnerStart(ws2, i + 1, vt) = findInnerStart(ws, i + 1, vt)
    <3> HIDE DEF claim, Good, at, c, left
    <3>1. PICK starts : Starts(starts, ws, vt) /\ \A j \in Nat : findInnerStart(ws, j, vt) = starts[j]
      BY <1>1, Lined, StartUnfolds
    <3>2. PICK starts2 : Starts(starts2, ws2, vt) /\ \A j \in Nat : findInnerStart(ws2, j, vt) = starts2[j]
      BY <1>1, Lined, StartUnfolds
    <3>3. i + 1 \in Nat /\ i + 1 \in 2 .. Len(ws) + 2
      BY <1>1, <2>1, <2>8
    <3>4. starts[i + 1] >= 2 /\ (starts[i + 1] <= Len(ws) => starts2[i + 1] = starts[i + 1])
      BY <3>1, <3>2, <3>3, StartsStay
    <3> QED
      BY <3>1, <3>2, <3>3, <3>4
  <2>13. \A j : FoundAt(j).start = j
    BY DEF FoundAt
  <2>14. ASSUME ~(k = NoVerb /\ ws[i] \notin DOMAIN subs) PROVE left \in Int
    BY <2>14 DEF Skips
  <2>15. at.ok /\ i >= 2
    BY <2>4
  <2> HIDE DEF at, c, left, claim, Good, n
  <2>16. at.start >= 2 /\ (at.start <= Len(ws) => scan2[<<i, k>>] = at)
    BY <2>2, <2>3, <2>6, <2>9, <2>10, <2>11, <2>12, <2>13, <2>14, <2>15
  <2> QED
    BY <2>16 DEF at
<1>3. \A i \in 2 .. n + 1 : i \in Good
  <2>1. \A i \in 2 .. n + 1 : (\A j \in 2 .. n + 1 : i < j => j \in Good) => i \in Good
    BY <1>2
  <2> HIDE DEF Good, n
  <2> QED
    BY <1>1, <2>1, FromTheEnd
<1> QED
  BY <1>1, <1>3 DEF Stays

\* What lookupFlag finds, if it is a text, it finds still.
LEMMA LookupStays ==
  ASSUME NEW ws, NEW ws2, Longer(ws, ws2), NEW key, lookupFlag(ws, key).value # EmptyWord
  PROVE  lookupFlag(ws2, key).value = lookupFlag(ws, key).value
<1> DEFINE here(l) == {i \in DOMAIN l : isFlag(Shape[l[i]], key)}
           first(l) == CHOOSE i \in here(l) : \A j \in here(l) : i <= j
           value(l, i) == IF Shape[l[i]].eq THEN Shape[l[i]].value
                          ELSE IF i < Len(l) THEN l[i + 1] ELSE EmptyWord
<1>1. /\ Len(ws) \in Nat /\ DOMAIN ws = 1 .. Len(ws) /\ DOMAIN ws2 = 1 .. Len(ws) + 1 /\ Len(ws2) = Len(ws) + 1
      /\ \A i \in 1 .. Len(ws) : ws2[i] = ws[i]
  BY Lined DEF Longer
<1>2. \A l : lookupFlag(l, key).value = IF here(l) = {} THEN EmptyWord ELSE value(l, first(l))
  BY DEF lookupFlag
<1>3. here(ws) # {} /\ lookupFlag(ws, key).value = value(ws, first(ws))
  <2> HIDE DEF here, first, value
  <2> QED
    BY <1>2
<1>4. here(ws) \in SUBSET Nat
  BY <1>1
<1>5. PICK i \in here(ws) : \A j \in here(ws) : i <= j
  <2> HIDE DEF here
  <2> QED
    BY <1>3, <1>4, Least
<1>6. i \in 1 .. Len(ws) /\ i \in Nat
  BY <1>1
<1>7. i \in here(ws2) /\ \A j \in here(ws2) : i <= j
  <2>1. i \in here(ws2)
    BY <1>1, <1>6
  <2>2. ASSUME NEW j \in here(ws2) PROVE i <= j
    <3>1. j \in 1 .. Len(ws) + 1
      BY <1>1
    <3>2. j \in here(ws) \/ j = Len(ws) + 1
      BY <1>1, <3>1
    <3> HIDE DEF here
    <3> QED
      BY <1>1, <1>5, <1>6, <3>2
  <2> QED
    BY <2>1, <2>2
<1>8. here(ws2) \in SUBSET Nat
  BY <1>1
<1>9. first(ws) = i /\ first(ws2) = i
  <2>1. first(ws) \in here(ws) /\ first(ws) <= i /\ i <= first(ws)
    <3> HIDE DEF here
    <3> QED  BY <1>5
  <2>2. first(ws2) \in here(ws2) /\ first(ws2) <= i /\ i <= first(ws2)
    <3> HIDE DEF here
    <3> QED  BY <1>7
  <2> HIDE DEF first, here
  <2> QED
    BY <1>4, <1>6, <1>8, <2>1, <2>2
<1>10. here(ws2) # {}
  <2> HIDE DEF here
  <2> QED
    BY <1>7
<1> HIDE DEF here, first
<1>11. lookupFlag(ws, key).value = value(ws, i) /\ lookupFlag(ws2, key).value = value(ws2, i)
  BY <1>2, <1>3, <1>9, <1>10
<1>12. CASE Shape[ws[i]].eq
  BY <1>1, <1>6, <1>11, <1>12
<1>13. CASE ~Shape[ws[i]].eq
  <2>1. i < Len(ws)
    BY <1>11, <1>13
  <2>2. i + 1 \in 1 .. Len(ws) /\ i < Len(ws2)
    BY <1>1, <1>6, <2>1
  <2> QED
    BY <1>1, <1>6, <1>11, <1>13, <2>1, <2>2
<1> QED
  BY <1>12, <1>13

LEMMA SuffixGrows ==
  ASSUME NEW ws, NEW ws2, Longer(ws, ws2), NEW i \in 1 .. Len(ws) + 1
  PROVE  /\ Suffix(ws, i) \in Seq(Words) /\ Suffix(ws2, i) \in Seq(Words)
         /\ IsPrefix(Suffix(ws, i), Suffix(ws2, i))
         /\ i <= Len(ws) => Suffix(ws, i)[1] = ws[i] /\ Suffix(ws, i) # << >>
         /\ i > Len(ws) => Suffix(ws, i) = << >>
<1>1. /\ ws \in Seq(Words) /\ ws2 \in Seq(Words) /\ Len(ws) \in Nat /\ Len(ws2) = Len(ws) + 1 /\ i \in Nat
      /\ \A k \in 1 .. Len(ws) : ws2[k] = ws[k]
  BY Lined DEF Longer, Line
<1> DEFINE a == Suffix(ws, i)
           b == Suffix(ws2, i)
<1>2. /\ a \in Seq(Words) /\ Len(a) = Len(ws) + 1 - i
      /\ \A k \in 1 .. Len(ws) + 1 - i : a[k] = ws[i + k - 1]
  BY <1>1 DEF Suffix
<1>3. /\ b \in Seq(Words) /\ Len(b) = Len(ws2) + 1 - i
      /\ \A k \in 1 .. Len(ws2) + 1 - i : b[k] = ws2[i + k - 1]
  BY <1>1 DEF Suffix
<1> HIDE DEF a, b
<1>4. Len(a) <= Len(b) /\ \A k \in 1 .. Len(a) : k \in 1 .. Len(b) /\ i + k - 1 \in 1 .. Len(ws)
  BY <1>1, <1>2, <1>3
<1>5. \A k \in 1 .. Len(a) : a[k] = b[k]
  BY <1>1, <1>2, <1>3, <1>4
<1>6. IsPrefix(a, b)
  BY <1>2, <1>3, <1>4, <1>5, Prefixed
<1>7. ASSUME i <= Len(ws) PROVE a[1] = ws[i] /\ a # << >>
  <2>1. 1 \in 1 .. Len(ws) + 1 - i /\ i + 1 - 1 = i
    BY <1>1, <1>7
  <2> QED
    BY <1>2, <2>1
<1>8. ASSUME i > Len(ws) PROVE a = << >>
  <2>1. Len(a) = 0
    BY <1>1, <1>2, <1>8
  <2> QED
    BY <1>2, <2>1
<1> QED
  BY <1>2, <1>3, <1>6, <1>7, <1>8 DEF a, b

LEMMA TailGrows ==
  ASSUME NEW S, NEW s \in Seq(S), NEW t \in Seq(S), IsPrefix(s, t), s # << >>
  PROVE  IsPrefix(Tail(s), Tail(t)) /\ t # << >> /\ s[1] = t[1]
<1>1. Len(s) <= Len(t) /\ \A k \in 1 .. Len(s) : s[k] = t[k]
  BY Prefixed
<1>2. Len(s) \in Nat /\ Len(t) \in Nat /\ Len(s) >= 1
  OBVIOUS
<1>3. Len(t) >= 1 /\ t # << >>
  BY <1>1, <1>2
<1>4. /\ Tail(s) \in Seq(S) /\ Len(Tail(s)) = Len(s) - 1 /\ \A k \in 1 .. Len(s) - 1 : Tail(s)[k] = s[k + 1]
      /\ Tail(t) \in Seq(S) /\ Len(Tail(t)) = Len(t) - 1 /\ \A k \in 1 .. Len(t) - 1 : Tail(t)[k] = t[k + 1]
  BY <1>3
<1>5. \A k \in 1 .. Len(s) - 1 : k + 1 \in 1 .. Len(s) /\ k \in 1 .. Len(t) - 1
  BY <1>1, <1>2
<1>6. \A k \in 1 .. Len(Tail(s)) : Tail(s)[k] = Tail(t)[k]
  BY <1>1, <1>4, <1>5
<1>7. Len(Tail(s)) <= Len(Tail(t))
  BY <1>1, <1>2, <1>4
<1>8. IsPrefix(Tail(s), Tail(t))
  BY <1>4, <1>6, <1>7, Prefixed
<1> QED
  BY <1>1, <1>2, <1>3, <1>8

\* A text that has others before it is no empty text.
LEMMA TextGrows ==
  ASSUME NEW S, EmptyWord \in S, NEW s \in Seq(S), NEW t \in Seq(S), IsPrefix(s, t), s \notin {<< >>, <<EmptyWord>>}
  PROVE  t \notin {<< >>, <<EmptyWord>>}
<1>1. t # << >> /\ s[1] = t[1] /\ Len(s) <= Len(t) /\ Len(s) \in Nat /\ Len(s) # 0
  BY TailGrows, Prefixed
<1>2. ASSUME t = <<EmptyWord>> PROVE FALSE
  <2>1. Len(s) = 1 /\ s[1] = EmptyWord
    BY <1>1, <1>2
  <2>2. s = <<EmptyWord>>
    BY <2>1
  <2> QED
    BY <2>2
<1> QED
  BY <1>1, <1>2

LEMMA TerminatorTailGrows ==
  ASSUME NEW ws, NEW ws2, Longer(ws, ws2), terminatorTail(ws) # << >>
  PROVE  /\ terminatorTail(ws) \in Seq(Words) /\ terminatorTail(ws2) \in Seq(Words)
         /\ IsPrefix(terminatorTail(ws), terminatorTail(ws2))
<1> DEFINE stops(l) == {i \in DOMAIN l : Shape[l[i]].kind = "terminator"}
           first(l) == CHOOSE i \in stops(l) : \A j \in stops(l) : i <= j
<1>1. /\ Len(ws) \in Nat /\ DOMAIN ws = 1 .. Len(ws) /\ DOMAIN ws2 = 1 .. Len(ws) + 1
      /\ \A i \in 1 .. Len(ws) : ws2[i] = ws[i]
  BY Lined DEF Longer
<1>2. \A l : terminatorTail(l) = IF stops(l) = {} THEN << >> ELSE Suffix(l, 1 + first(l))
  BY DEF terminatorTail
<1>3. stops(ws) # {} /\ terminatorTail(ws) = Suffix(ws, 1 + first(ws))
  <2> HIDE DEF stops, first
  <2> QED
    BY <1>2
<1>4. stops(ws) \in SUBSET Nat /\ stops(ws2) \in SUBSET Nat
  BY <1>1
<1>5. PICK i \in stops(ws) : \A j \in stops(ws) : i <= j
  <2> HIDE DEF stops
  <2> QED
    BY <1>3, <1>4, Least
<1>6. i \in 1 .. Len(ws) /\ i \in Nat
  BY <1>1
<1>7. i \in stops(ws2) /\ \A j \in stops(ws2) : i <= j
  <2>1. i \in stops(ws2)
    BY <1>1, <1>6
  <2>2. ASSUME NEW j \in stops(ws2) PROVE i <= j
    <3>1. j \in 1 .. Len(ws) + 1
      BY <1>1
    <3>2. j \in stops(ws) \/ j = Len(ws) + 1
      BY <1>1, <3>1
    <3> HIDE DEF stops
    <3> QED
      BY <1>1, <1>5, <1>6, <3>2
  <2> QED
    BY <2>1, <2>2
<1>8. first(ws) = i /\ first(ws2) = i /\ stops(ws2) # {}
  <2>1. first(ws) \in stops(ws) /\ first(ws) <= i /\ i <= first(ws)
    <3> HIDE DEF stops
    <3> QED  BY <1>5
  <2>2. first(ws2) \in stops(ws2) /\ first(ws2) <= i /\ i <= first(ws2)
    <3> HIDE DEF stops
    <3> QED  BY <1>7
  <2> HIDE DEF first, stops
  <2> QED
    BY <1>4, <1>6, <2>1, <2>2
<1> HIDE DEF stops, first
<1>9. terminatorTail(ws) = Suffix(ws, 1 + i) /\ terminatorTail(ws2) = Suffix(ws2, 1 + i)
  BY <1>2, <1>3, <1>8
<1>10. 1 + i \in 1 .. Len(ws) + 1
  BY <1>1, <1>6
<1>11. /\ Suffix(ws, 1 + i) \in Seq(Words) /\ Suffix(ws2, 1 + i) \in Seq(Words)
       /\ IsPrefix(Suffix(ws, 1 + i), Suffix(ws2, 1 + i))
  BY <1>10, SuffixGrows
<1> QED
  BY <1>9, <1>11

LEMMA SubcommandTailGrows ==
  ASSUME NEW ws, NEW ws2, Longer(ws, ws2), NEW vt, NEW subs, Skips(subs),
         subcommandTail(ws, extractSubcommandTarget(ws, vt, subs)) # << >>
  PROVE  LET a == subcommandTail(ws, extractSubcommandTarget(ws, vt, subs))
             b == subcommandTail(ws2, extractSubcommandTarget(ws2, vt, subs))
         IN  a \in Seq(Words) /\ b \in Seq(Words) /\ IsPrefix(a, b)
<1> DEFINE at == extractSubcommandTarget(ws, vt, subs)
           at2 == extractSubcommandTarget(ws2, vt, subs)
           t == Suffix(ws, at.start)
           t2 == Suffix(ws2, at.start)
<1>1. Line(ws) /\ Line(ws2) /\ Len(ws) \in Nat /\ Len(ws) >= 1
  BY Lined DEF Longer, Line
<1>2. PICK scan : Scans(scan, ws, vt, subs) /\ at = scan[<<2, NoVerb>>]
  BY <1>1, Lined, ScanUnfolds
<1>3. PICK scan2 : Scans(scan2, ws2, vt, subs) /\ at2 = scan2[<<2, NoVerb>>]
  BY <1>1, Lined, ScanUnfolds
<1>4. at.start \in Nat
  <2>1. <<2, NoVerb>> \in ScanPlaces
    BY DEF ScanPlaces, NoVerb
  <2> QED
    BY <1>2, <2>1 DEF Scans, ScanResults
<1>5. at.ok => at.start >= 2 /\ (at.start <= Len(ws) => at2 = at)
  <2>1. 2 \in 2 .. Len(ws) + 2 /\ NoVerb \in Int
    BY <1>1 DEF NoVerb
  <2> HIDE DEF at, at2, t, t2
  <2>2. Stays(scan, scan2, ws)
    BY <1>2, <1>3, ScansStay
  <2> QED
    BY <1>2, <1>3, <2>1, <2>2 DEF Stays
<1>6. at.ok
  BY DEF subcommandTail
<1>7. subcommandTail(ws, at) =
        IF t # << >> /\ Shape[t[1]].kind = "terminator" THEN Tail(t) ELSE t
  BY <1>6 DEF subcommandTail
<1> HIDE DEF at, at2
<1>8. at.start <= Len(ws)
  <2> SUFFICES ASSUME at.start > Len(ws) PROVE FALSE
    BY <1>1, <1>4
  <2>1. SubSeq(ws, at.start, Len(ws)) = << >>
    <3>1. ws \in Seq(Words)
      BY <1>1 DEF Line
    <3> QED
      BY <1>1, <1>4, <3>1
  <2>2. t = << >>
    BY <2>1 DEF Suffix
  <2> QED
    BY <1>7, <2>2 DEF at
<1>9. /\ t \in Seq(Words) /\ t2 \in Seq(Words) /\ IsPrefix(t, t2) /\ t # << >>
  <2>1. at.start \in 1 .. Len(ws) + 1
    BY <1>1, <1>4, <1>5, <1>6, <1>8
  <2> QED
    BY <1>8, <2>1, SuffixGrows
<1>10. subcommandTail(ws2, at) =
        IF t2 # << >> /\ Shape[t2[1]].kind = "terminator" THEN Tail(t2) ELSE t2
  BY <1>6 DEF subcommandTail
<1> HIDE DEF t, t2
<1>11. IsPrefix(Tail(t), Tail(t2)) /\ t2 # << >> /\ t[1] = t2[1]
  BY <1>9, TailGrows
<1>12. Tail(t) \in Seq(Words) /\ Tail(t2) \in Seq(Words)
  BY <1>9, <1>11
<1>13. at2 = at
  BY <1>5, <1>6, <1>8
<1> QED
  BY <1>7, <1>9, <1>10, <1>11, <1>12, <1>13 DEF at, at2

\* Each text that is a target grows into a text that is one.
LEMMA TargetsGrow ==
  ASSUME NEW ws, NEW ws2, Longer(ws, ws2), NEW vt, NEW spec,
         spec.flags \in Seq({spec.flags[n] : n \in DOMAIN spec.flags}), Skips(spec.subcommands)
  PROVE  LET a == extractRecursionTargets(ws, spec, vt).targets
             b == extractRecursionTargets(ws2, spec, vt).targets
         IN  \A n \in DOMAIN a : \E k \in DOMAIN b : IsPrefix(a[n], b[k])
<1> DEFINE m == Len(spec.flags)
           s == TextsOf(ws, spec, vt)
           t == TextsOf(ws2, spec, vt)
           a == nonEmpty(s)
           b == nonEmpty(t)
           places == {k \in DOMAIN s : s[k] \notin {<< >>, <<EmptyWord>>}}
           S == Words \cup {EmptyWord}
<1>1. /\ m \in Nat /\ DOMAIN s = 1 .. m + 2
      /\ \A n \in 1 .. m : s[n] = <<lookupFlag(ws, spec.flags[n]).value>>
      /\ s[m + 1] = IF spec.terminator THEN terminatorTail(ws) ELSE << >>
      /\ s[m + 2] = subcommandTail(ws, extractSubcommandTarget(ws, vt, spec.subcommands))
  <2>1. Counted(s, ws, spec, vt)
    BY TextsCounted
  <2> HIDE DEF s
  <2> QED
    BY <2>1 DEF Counted
<1>2. /\ DOMAIN t = 1 .. m + 2
      /\ \A n \in 1 .. m : t[n] = <<lookupFlag(ws2, spec.flags[n]).value>>
      /\ t[m + 1] = IF spec.terminator THEN terminatorTail(ws2) ELSE << >>
      /\ t[m + 2] = subcommandTail(ws2, extractSubcommandTarget(ws2, vt, spec.subcommands))
  <2>1. Counted(t, ws2, spec, vt)
    BY TextsCounted
  <2> HIDE DEF t
  <2> QED
    BY <2>1 DEF Counted
<1> HIDE DEF s, t, m
<1>3. ASSUME NEW p \in 1 .. m + 2, s[p] \notin {<< >>, <<EmptyWord>>}
      PROVE  IsPrefix(s[p], t[p]) /\ t[p] \notin {<< >>, <<EmptyWord>>}
  <2>1. CASE p \in 1 .. m
    <3> DEFINE v == lookupFlag(ws, spec.flags[p]).value
    <3>1. s[p] = <<v>> /\ v # EmptyWord
      BY <1>1, <1>3, <2>1
    <3>2. lookupFlag(ws2, spec.flags[p]).value = v
      BY <3>1, LookupStays
    <3>3. t[p] = <<v>>
      BY <1>2, <2>1, <3>2
    <3> HIDE DEF v
    <3>4. <<v>> \in Seq({v})
      OBVIOUS
    <3>5. IsPrefix(<<v>>, <<v>>)
      BY <3>4, PrefixOfItself
    <3> QED
      BY <1>3, <3>1, <3>3, <3>5
  <2>2. CASE p = m + 1
    <3>1. s[p] = terminatorTail(ws) /\ t[p] = terminatorTail(ws2)
      BY <1>1, <1>2, <1>3, <2>2
    <3>2. s[p] \in Seq(Words) /\ t[p] \in Seq(Words) /\ IsPrefix(s[p], t[p])
      BY <1>3, <3>1, TerminatorTailGrows
    <3>3. s[p] \in Seq(S) /\ t[p] \in Seq(S)
      BY <3>2
    <3>4. EmptyWord \in S
      OBVIOUS
    <3> HIDE DEF S
    <3> QED
      BY <1>3, <3>2, <3>3, <3>4, TextGrows
  <2>3. CASE p = m + 2
    <3>1. s[p] = subcommandTail(ws, extractSubcommandTarget(ws, vt, spec.subcommands))
          /\ t[p] = subcommandTail(ws2, extractSubcommandTarget(ws2, vt, spec.subcommands))
      BY <1>1, <1>2, <2>3
    <3>2. s[p] \in Seq(Words) /\ t[p] \in Seq(Words) /\ IsPrefix(s[p], t[p])
      BY <1>3, <3>1, SubcommandTailGrows
    <3>3. s[p] \in Seq(S) /\ t[p] \in Seq(S)
      BY <3>2
    <3>4. EmptyWord \in S
      OBVIOUS
    <3> HIDE DEF S
    <3> QED
      BY <1>3, <3>2, <3>3, <3>4, TextGrows
  <2> QED
    BY <1>1, <2>1, <2>2, <2>3
<1>4. places \in SUBSET Nat /\ IsFiniteSet(places) /\ \A p \in places : p \in 1 .. m + 2
  <2>1. IsFiniteSet(1 .. m + 2)
    <3>1. PICK l \in Nat : l = m + 2
      BY <1>1
    <3>2. IsFiniteSet(1 .. l)
      BY FS_Interval
    <3> QED
      BY <3>1, <3>2
  <2>2. places \in SUBSET (1 .. m + 2)
    BY <1>1
  <2>3. \A k \in 1 .. m + 2 : k \in Nat
    BY <1>1
  <2> HIDE DEF places
  <2>4. IsFiniteSet(places)
    BY <2>1, <2>2, FS_Subset
  <2> QED
    BY <2>2, <2>3, <2>4
<1>5. a = AtPlaces(s, places)
  BY DEF nonEmpty
<1> HIDE DEF a, b
<1>6. ASSUME NEW n \in DOMAIN a PROVE \E k \in DOMAIN b : IsPrefix(a[n], b[k])
  <2>1. PICK p \in places : a[n] = s[p]
    <3>1. ElementsOf(AtPlaces(s, places)) = {s[p] : p \in places}
      <4> HIDE DEF places
      <4> QED
        BY <1>4, PlacesReached
    <3>2. a[n] \in ElementsOf(a)
      BY DEF ElementsOf
    <3> HIDE DEF places
    <3> QED
      BY <1>5, <3>1, <3>2
  <2>2. p \in 1 .. m + 2 /\ s[p] \notin {<< >>, <<EmptyWord>>}
    BY <1>1
  <2>3. IsPrefix(s[p], t[p]) /\ t[p] \notin {<< >>, <<EmptyWord>>}
    BY <1>3, <2>2
  <2>4. PICK k \in DOMAIN b : b[k] = t[p]
    <3>1. PICK l \in Nat : l = m + 2
      BY <1>1
    <3>2. DOMAIN t = 1 .. l /\ p \in 1 .. l
      BY <1>2, <2>2, <3>1
    <3> HIDE DEF places
    <3> QED
      BY <2>3, <3>1, <3>2, TextIsTarget DEF b
  <2> QED
    BY <2>1, <2>3, <2>4
<1>7. extractRecursionTargets(ws, spec, vt).targets = a /\ extractRecursionTargets(ws2, spec, vt).targets = b
  BY Targets DEF a, b, s, t
<1> QED
  BY <1>6, <1>7

\* What was found on a command line is found on every longer one (GrowthOnlyAdds):
\* flags, positionals, captured values and inner commands, which only get longer.
THEOREM GrowthIsMonotone == Spec => GrowthOnlyAdds
<1> DEFINE Step == LET more == words'
                   IN  OnlyAdds(norm, extraction, normOf(more), extractionOf(more))
<1>1. LineInv /\ [AppendWord]_vars => [Step]_vars
  <2> SUFFICES ASSUME LineInv, AppendWord PROVE Step
    OBVIOUS
  <2> DEFINE vt == valueTaking
             spec == wrapper.spec
  <2>1. PICK w \in Words : words' = Append(words, w)
    BY DEF AppendWord
  <2> DEFINE more == Append(words, w)
  <2>2. Line(words) /\ wrapper \in Wrappers
    BY DEF LineInv
  <2>3. Longer(words, more)
    <3>1. words \in Seq(Words) /\ Len(words) \in Nat /\ Len(words) >= 1
      BY <2>2 DEF Line
    <3>2. more \in Seq(Words) /\ Len(more) = Len(words) + 1 /\ \A i \in 1 .. Len(words) : more[i] = words[i]
      BY <3>1
    <3> HIDE DEF more
    <3> QED
      BY <2>2, <3>1, <3>2 DEF Longer, Line
  <2> HIDE DEF more
  <2>4. Line(more) /\ Len(words) \in Nat /\ Len(words) >= 1
    BY <2>2, <2>3 DEF Longer, Line
  <2>5. PICK norms : Reads(norms, words, vt) /\ norm = norms[2]
    BY <2>2, NormalizeUnfolds DEF norm, normOf
  <2>6. PICK norms2 : Reads(norms2, more, vt) /\ normOf(more) = norms2[2]
    BY <2>4, NormalizeUnfolds DEF normOf
  <2>7. Grows(norm, normOf(more))
    <3>1. 2 \in 2 .. Len(words) + 1
      BY <2>4
    <3>2. Grows(norms[2], norms2[2])
      <4> HIDE DEF vt
      <4> QED
        BY <2>3, <2>5, <2>6, <3>1, ReadingsGrow
    <3> QED
      BY <2>5, <2>6, <3>2
  <2>8. \A n \in DOMAIN extraction.targets : \E m \in DOMAIN extractionOf(more).targets :
          IsPrefix(extraction.targets[n], extractionOf(more).targets[m])
    <3>1. spec.flags \in Seq({spec.flags[n] : n \in DOMAIN spec.flags}) /\ Skips(spec.subcommands)
      BY <2>2, WrappersAssumption DEF Skips
    <3> HIDE DEF spec, vt
    <3>2. LET a == extractRecursionTargets(words, spec, vt).targets
              b == extractRecursionTargets(more, spec, vt).targets
          IN  \A n \in DOMAIN a : \E k \in DOMAIN b : IsPrefix(a[n], b[k])
      BY <2>3, <3>1, TargetsGrow
    <3> QED
      BY <3>2 DEF extraction, extractionOf, spec, vt
  <2>9. OnlyAdds(norm, extraction, normOf(more), extractionOf(more))
    BY <2>7, <2>8 DEF OnlyAdds, Grows
  <2> QED
    BY <2>1, <2>9 DEF more
<1> QED
  BY <1>1, Typing, PTL DEF Spec, GrowthOnlyAdds
================================================================================
