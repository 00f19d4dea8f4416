------------------------------ MODULE CommonProofs -----------------------------
(* Lemmas about the lists of module Lists, about recursive functions, and about *)
(* the loops of module Recurse, for the proofs about the modules that use them. *)
EXTENDS Recurse, FiniteSetTheorems, NaturalsInduction, SequenceTheorems, WellFoundedInduction,
        TLAPS

ElementsOf(list) == {list[n] : n \in DOMAIN list}

\* A set of natural numbers that is not empty has a least element.
LEMMA Least ==
  ASSUME NEW S \in SUBSET Nat, S # {}
  PROVE  \E m \in S : \A k \in S : m <= k
<1>1. IsWellFoundedOn(OpToRel(<, Nat), Nat)  BY NatLessThanWellFounded
<1>2. PICK m \in S : \A k \in S : <<k, m>> \notin OpToRel(<, Nat)  BY <1>1, WFMin
<1>3. \A k \in S : ~(k < m)  BY <1>2 DEF OpToRel
<1> QED  BY <1>3

\* A subsequence has the elements of the places it is made of, each place counted.
LEMMA PlacesReached ==
  ASSUME NEW list, NEW places \in SUBSET Nat, IsFiniteSet(places)
  PROVE  /\ AtPlaces(list, places) \in Seq(ElementsOf(AtPlaces(list, places)))
         /\ ElementsOf(AtPlaces(list, places)) = {list[p] : p \in places}
<1> DEFINE upTo(m) == {j \in places : j <= m}
           nth(n) == CHOOSE m \in places : Cardinality(upTo(m)) = n
           N == Cardinality(places)
           count == [m \in places |-> Cardinality(upTo(m))]
           picked == [n \in 1 .. N |-> list[nth(n)]]
<1>1. AtPlaces(list, places) = picked  BY DEF AtPlaces
<1>2. N \in Nat  BY FS_CardinalityType
<1>3. ASSUME NEW m \in places
      PROVE  IsFiniteSet(upTo(m)) /\ Cardinality(upTo(m)) \in 1 .. N
  <2>1. upTo(m) \in SUBSET places /\ m \in upTo(m)  OBVIOUS
  <2>2. IsFiniteSet(upTo(m)) /\ Cardinality(upTo(m)) <= N  BY <2>1, FS_Subset
  <2>3. Cardinality(upTo(m)) \in Nat /\ Cardinality(upTo(m)) # 0
    BY <2>1, <2>2, FS_CardinalityType, FS_EmptySet
  <2> QED  BY <2>2, <2>3, <1>2
<1>4. ASSUME NEW m \in places, NEW k \in places, m < k
      PROVE  Cardinality(upTo(m)) # Cardinality(upTo(k))
  <2>0. /\ \A j \in places : j <= m => j <= k
        /\ k <= k /\ ~(k <= m)
    BY <1>4
  <2>1. upTo(m) \in SUBSET upTo(k) /\ k \in upTo(k) /\ k \notin upTo(m)  BY <2>0
  <2>2. upTo(m) # upTo(k) /\ IsFiniteSet(upTo(k))  BY <2>1, <1>3
  <2> HIDE DEF upTo
  <2> QED  BY <2>1, <2>2, FS_Subset
<1>5. count \in Injection(places, 1 .. N)
  <2>1. count \in [places -> 1 .. N]  BY <1>3
  <2>2. \A m, k \in places : count[m] = count[k] => m = k
    <3> SUFFICES ASSUME NEW m \in places, NEW k \in places, m # k PROVE count[m] # count[k]
      OBVIOUS
    <3>1. m < k \/ k < m  OBVIOUS
    <3> QED  BY <3>1, <1>4
  <2> HIDE DEF count
  <2> QED  BY <2>1, <2>2 DEF Injection, IsInjective
<1>6. count \in Surjection(places, 1 .. N)
  <2>1. IsFiniteSet(1 .. N) /\ Cardinality(1 .. N) = N  BY <1>2, FS_Interval
  <2> HIDE DEF count
  <2> QED  BY <2>1, <1>5, FS_Injection
<1>7. ASSUME NEW n \in 1 .. N PROVE nth(n) \in places /\ Cardinality(upTo(nth(n))) = n
  <2>1. PICK m \in places : count[m] = n  BY <1>6 DEF Surjection
  <2>2. Cardinality(upTo(m)) = n  BY <2>1
  <2> HIDE DEF upTo
  <2> QED  BY <2>2
<1>8. ASSUME NEW p \in places PROVE \E n \in 1 .. N : nth(n) = p
  <2>1. Cardinality(upTo(p)) \in 1 .. N  BY <1>3
  <2>2. PICK n \in 1 .. N : n = Cardinality(upTo(p))  BY <2>1
  <2>3. nth(n) \in places /\ Cardinality(upTo(nth(n))) = Cardinality(upTo(p))  BY <1>7, <2>2
  <2>4. PICK q \in places : q = nth(n)  BY <2>3
  <2>5. Cardinality(upTo(q)) = Cardinality(upTo(p))  BY <2>3, <2>4
  <2>6. q = p
    <3>1. ~(q < p) /\ ~(p < q)  BY <2>5, <1>4
    <3> QED  BY <3>1
  <2> QED  BY <2>4, <2>6
<1> HIDE DEF nth, N, upTo, count
<1>9. ElementsOf(picked) = {list[p] : p \in places}  BY <1>7, <1>8 DEF ElementsOf
<1>10. picked \in Seq(ElementsOf(picked))
  <2>1. \A n \in 1 .. N : picked[n] \in ElementsOf(picked)  BY DEF ElementsOf
  <2>2. picked = [n \in 1 .. N |-> picked[n]]  OBVIOUS
  <2> HIDE DEF picked
  <2> QED  BY <2>1, <2>2, <1>2
<1> QED  BY <1>1, <1>9, <1>10

\* All the places of a list are the list itself, and none of them is no list.
LEMMA AllPlaces ==
  ASSUME NEW list, list \in Seq({list[i] : i \in DOMAIN list})
  PROVE  AtPlaces(list, DOMAIN list) = list
<1> DEFINE N == Len(list)
           nth(n) == CHOOSE m \in 1 .. N : Cardinality({j \in 1 .. N : j <= m}) = n
<1>1. N \in Nat /\ DOMAIN list = 1 .. N
  OBVIOUS
<1> HIDE DEF N
<1>2. \A m \in 1 .. N : Cardinality({j \in 1 .. N : j <= m}) = m
  <2> SUFFICES ASSUME NEW m \in 1 .. N PROVE Cardinality({j \in 1 .. N : j <= m}) = m
    OBVIOUS
  <2>1. {j \in 1 .. N : j <= m} = 1 .. m
    BY <1>1
  <2>2. Cardinality(1 .. m) = m
    BY FS_Interval
  <2> QED
    BY <2>1, <2>2
<1>3. Cardinality(1 .. N) = N
  BY <1>1, FS_Interval
<1>4. \A n \in 1 .. N : nth(n) = n
  BY <1>2
<1>5. AtPlaces(list, 1 .. N) = [n \in 1 .. N |-> list[nth(n)]]
  BY <1>3 DEF AtPlaces
<1> HIDE DEF nth
<1>6. [n \in 1 .. N |-> list[nth(n)]] = [n \in 1 .. N |-> list[n]]
  BY <1>4
<1>7. list = [n \in 1 .. N |-> list[n]]
  BY <1>1
<1> QED
  BY <1>1, <1>5, <1>6, <1>7

LEMMA NoPlaces ==
  ASSUME NEW list
  PROVE  AtPlaces(list, {}) = << >>
<1>1. Cardinality({}) = 0
  BY FS_EmptySet
<1>2. DOMAIN AtPlaces(list, {}) = {}
  BY <1>1 DEF AtPlaces
<1> QED
  BY <1>1, <1>2 DEF AtPlaces

--------------------------------------------------------------------------------
(* Recursive functions *)

\* An equation for functions from D to T that takes a value of the function only where
\* less is left to do; H[<<f, x>>] is its right side.
IsRecursion(D, T, N, left, H) ==
  /\ T # {} /\ N \in Nat /\ left \in [D -> 0 .. N]
  /\ \A f \in [D -> T], x \in D : H[<<f, x>>] \in T
  /\ \A f, g \in [D -> T], x \in D :
       (\A y \in D : left[y] < left[x] => f[y] = g[y]) => H[<<f, x>>] = H[<<g, x>>]

\* It has a solution.
LEMMA RecursionIsSound ==
  ASSUME NEW D, NEW T, NEW N, NEW left, NEW H, IsRecursion(D, T, N, left, H)
  PROVE  \E f \in [D -> T] : \A x \in D : f[x] = H[<<f, x>>]
<1> USE DEF IsRecursion
<1> DEFINE Solves(f, n) == f \in [D -> T] /\ \A x \in D : left[x] < n => f[x] = H[<<f, x>>]
           Unsolved == {n \in Nat : ~\E f : Solves(f, n)}
<1>1. 0 \notin Unsolved
  <2>1. PICK t : t \in T  OBVIOUS
  <2>2. Solves([x \in D |-> t], 0)  BY <2>1
  <2> HIDE DEF Solves
  <2> QED  BY <2>2
<1>2. ASSUME NEW n \in Nat, n \notin Unsolved
      PROVE  n + 1 \notin Unsolved
  <2>1. PICK f : Solves(f, n)  BY <1>2
  <2> DEFINE h == [x \in D |-> IF left[x] = n THEN H[<<f, x>>] ELSE f[x]]
  <2>2. h \in [D -> T]  BY <2>1
  <2>3. ASSUME NEW x \in D, left[x] < n + 1
        PROVE  h[x] = H[<<h, x>>]
    <3>1. h[x] = H[<<f, x>>]  BY <2>1, <2>3
    <3>2. \A y \in D : left[y] < left[x] => f[y] = h[y]  BY <2>3
    <3> HIDE DEF h
    <3>3. H[<<f, x>>] = H[<<h, x>>]  BY <2>1, <2>2, <3>2
    <3> QED  BY <3>1, <3>3
  <2> HIDE DEF h
  <2>4. Solves(h, n + 1)  BY <2>2, <2>3
  <2> HIDE DEF Solves
  <2> QED  BY <2>4
<1>3. Unsolved = {}
  <2>1. SUFFICES ASSUME Unsolved # {} PROVE FALSE  OBVIOUS
  <2> HIDE DEF Solves
  <2>2. PICK m \in Unsolved : \A k \in Unsolved : m <= k  BY <2>1, Least
  <2>3. m # 0 /\ m - 1 \in Nat /\ m - 1 \notin Unsolved  BY <1>1, <2>2
  <2> QED  BY <1>2, <2>2, <2>3
<1>4. PICK f : Solves(f, N + 1)
  <2> HIDE DEF Solves
  <2> QED  BY <1>3
<1> QED  BY <1>4

\* Two functions that agree on x if they agree wherever less is left agree on all.
AgreeStepwise(D, left, f, g) ==
  /\ \A x \in D : left[x] \in Nat
  /\ \A x \in D : (\A y \in D : left[y] < left[x] => f[y] = g[y]) => f[x] = g[x]

LEMMA RecursionIsUnique ==
  ASSUME NEW D, NEW left, NEW f, NEW g, AgreeStepwise(D, left, f, g)
  PROVE  \A x \in D : f[x] = g[x]
<1> USE DEF AgreeStepwise
<1> DEFINE Differ == {left[x] : x \in {x \in D : f[x] # g[x]}}
<1>1. SUFFICES ASSUME Differ # {} PROVE FALSE  OBVIOUS
<1>2. Differ \in SUBSET Nat  OBVIOUS
<1>3. PICK n \in Differ : \A k \in Differ : n <= k
  <2> HIDE DEF Differ
  <2> QED  BY <1>1, <1>2, Least
<1>4. PICK x \in D : f[x] # g[x] /\ left[x] = n  BY <1>3
<1>5. \A y \in D : left[y] < left[x] => f[y] = g[y]
  <2> SUFFICES ASSUME NEW y \in D, left[y] < left[x], f[y] # g[y] PROVE FALSE  OBVIOUS
  <2>1. left[y] \in Differ  OBVIOUS
  <2>2. left[x] <= left[y] /\ left[x] \in Nat /\ left[y] \in Nat
    <3> HIDE DEF Differ
    <3> QED  BY <1>3, <1>4, <2>1
  <2> QED  BY <2>2
<1> QED  BY <1>4, <1>5

\* Induction from the end of a list of n elements towards its second.
LEMMA FromTheEnd ==
  ASSUME NEW n \in Nat, NEW Good,
         \A i \in 2 .. n + 1 : (\A j \in 2 .. n + 1 : i < j => j \in Good) => i \in Good
  PROVE  \A i \in 2 .. n + 1 : i \in Good
<1> DEFINE Bad == {n + 1 - i : i \in {i \in 2 .. n + 1 : i \notin Good}}
<1>1. SUFFICES ASSUME Bad # {} PROVE FALSE  OBVIOUS
<1>2. Bad \in SUBSET Nat  OBVIOUS
<1>3. PICK m \in Bad : \A k \in Bad : m <= k
  <2> HIDE DEF Bad
  <2> QED  BY <1>1, <1>2, Least
<1>4. PICK i \in 2 .. n + 1 : i \notin Good /\ m = n + 1 - i  BY <1>3
<1>5. \A j \in 2 .. n + 1 : i < j => j \in Good
  <2> SUFFICES ASSUME NEW j \in 2 .. n + 1, i < j, j \notin Good PROVE FALSE  OBVIOUS
  <2>1. n + 1 - j \in Bad  OBVIOUS
  <2>2. m <= n + 1 - j
    <3> HIDE DEF Bad
    <3> QED  BY <1>3, <2>1
  <2> QED  BY <1>4, <2>2
<1> QED  BY <1>4, <1>5

--------------------------------------------------------------------------------
(* The loops of recurse.go *)

\* The words of a call, whatever they are.
HasLength(ws) == Len(ws) \in Nat

\* Where the inner command begins, from each word on.
Starts(starts, ws, vt) ==
  /\ starts \in [Nat -> Nat]
  /\ \A j \in Nat : starts[j] = IF j > Len(ws) THEN Len(ws) + 1
                                ELSE IF isFlagToken(ws[j]) THEN starts[consumeFlag(ws, j, vt)]
                                ELSE j

LEMMA Consumed ==
  ASSUME NEW ws, NEW i \in Nat, NEW vt
  PROVE  consumeFlag(ws, i, vt) \in {i + 1, i + 2}
BY DEF consumeFlag

LEMMA StartUnfolds ==
  ASSUME NEW ws, HasLength(ws), NEW vt
  PROVE  \E starts : Starts(starts, ws, vt) /\ \A j \in Nat : findInnerStart(ws, j, vt) = starts[j]
<1> DEFINE body(f, j) == IF j > Len(ws) THEN Len(ws) + 1
                         ELSE IF isFlagToken(ws[j]) THEN f[consumeFlag(ws, j, vt)]
                         ELSE j
           from == CHOOSE f : f = [j \in Nat |-> body(f, j)]
           H == [p \in [Nat -> Nat] \X Nat |-> body(p[1], p[2])]
           left == [j \in Nat |-> IF j > Len(ws) THEN 0 ELSE Len(ws) + 1 - j]
<1>1. Len(ws) \in Nat
  BY DEF HasLength
<1>2. ASSUME NEW j PROVE findInnerStart(ws, j, vt) = from[j]
  BY Zenon DEF findInnerStart
<1>3. ASSUME NEW f \in [Nat -> Nat], NEW j \in Nat
      PROVE  body(f, j) \in Nat
  <2>1. f[consumeFlag(ws, j, vt)] \in Nat
    <3>1. consumeFlag(ws, j, vt) \in Nat
      BY Consumed
    <3> QED
      BY <3>1
  <2> HIDE DEF H, from, left
  <2> QED
    BY <1>1, <2>1
<1>4. left \in [Nat -> 0 .. Len(ws) + 1]
  BY <1>1
<1>5. ASSUME NEW f, NEW g, NEW j \in Nat, \A k \in Nat : left[k] < left[j] => f[k] = g[k]
      PROVE  body(f, j) = body(g, j)
  <2>1. CASE j > Len(ws) \/ ~isFlagToken(ws[j])
    BY <2>1
  <2>2. CASE ~(j > Len(ws)) /\ isFlagToken(ws[j])
    <3>1. consumeFlag(ws, j, vt) \in Nat /\ left[consumeFlag(ws, j, vt)] < left[j]
      <4>1. consumeFlag(ws, j, vt) \in {j + 1, j + 2}
        BY Consumed
      <4> HIDE DEF body, H, from
      <4> QED
        BY <1>1, <2>2, <4>1
    <3>2. f[consumeFlag(ws, j, vt)] = g[consumeFlag(ws, j, vt)]
      BY <1>5, <3>1
    <3> QED
      BY <2>2, <3>2
  <2> QED
    BY <2>1, <2>2
<1> HIDE DEF body
<1>6. \A f \in [Nat -> Nat], j \in Nat : H[<<f, j>>] = body(f, j)
  OBVIOUS
<1> HIDE DEF H, left
<1>7. PICK f \in [Nat -> Nat] : \A j \in Nat : f[j] = H[<<f, j>>]
  <2>1. \A g \in [Nat -> Nat], j \in Nat : H[<<g, j>>] \in Nat
    BY <1>3, <1>6
  <2>2. \A g, h \in [Nat -> Nat], j \in Nat :
          (\A k \in Nat : left[k] < left[j] => g[k] = h[k]) => H[<<g, j>>] = H[<<h, j>>]
    BY <1>5, <1>6
  <2>3. Nat # {} /\ Len(ws) + 1 \in Nat
    BY <1>1
  <2>4. IsRecursion(Nat, Nat, Len(ws) + 1, left, H)
    BY <1>4, <2>1, <2>2, <2>3 DEF IsRecursion
  <2> QED
    BY <2>4, RecursionIsSound
<1>8. f = [j \in Nat |-> body(f, j)]
  BY <1>6, <1>7
<1>9. from = [j \in Nat |-> body(from, j)]
  BY <1>8
<1>10. \A j \in Nat : from[j] = f[j]
  <2>1. \A j \in Nat : left[j] \in Nat
    BY <1>4
  <2>2. \A j \in Nat : from[j] = body(from, j) /\ f[j] = body(f, j)
    BY <1>8, <1>9
  <2>3. \A j \in Nat : (\A k \in Nat : left[k] < left[j] => from[k] = f[k]) => from[j] = f[j]
    BY <1>5, <2>2
  <2>4. AgreeStepwise(Nat, left, from, f)
    BY <2>1, <2>3 DEF AgreeStepwise
  <2> HIDE DEF from
  <2> QED
    BY <2>4, RecursionIsUnique
<1>11. \A j \in Nat : f[j] = body(f, j)
  BY <1>8
<1>12. Starts(f, ws, vt)
  BY <1>11 DEF Starts, body
<1> HIDE DEF from
<1> QED
  BY <1>2, <1>10, <1>12

LEMMA StartTyped ==
  ASSUME NEW ws, HasLength(ws), NEW vt, NEW j \in Nat
  PROVE  findInnerStart(ws, j, vt) \in Nat
<1>1. PICK starts : Starts(starts, ws, vt) /\ \A k \in Nat : findInnerStart(ws, k, vt) = starts[k]
  BY StartUnfolds
<1> QED
  BY <1>1 DEF Starts

\* How many positionals to skip after each verb.
Skips(subs) == \A v \in DOMAIN subs : subs[v] \in Nat

\* The search for the subcommand's target, from each word on.
ScanPlaces == Nat \X Int
ScanResults == [found : BOOLEAN, ok : BOOLEAN, start : Nat]

Scans(scan, ws, vt, subs) ==
  /\ scan \in [ScanPlaces -> ScanResults]
  /\ \A i \in Nat, toSkip \in Int :
       scan[<<i, toSkip>>] =
         IF i > Len(ws) THEN IF toSkip = NoVerb THEN NotFound ELSE TooShort
         ELSE IF Shape[ws[i]].kind = "terminator"
           THEN IF toSkip = NoVerb THEN NotFound
                ELSE IF toSkip = 0 THEN FoundAt(i) ELSE TooShort
         ELSE IF isFlagToken(ws[i]) THEN scan[<<consumeFlag(ws, i, vt), toSkip>>]
         ELSE IF toSkip = NoVerb /\ ws[i] \notin DOMAIN subs THEN NotFound
         ELSE LET left == IF toSkip = NoVerb THEN subs[ws[i]] ELSE toSkip - 1
              IN  IF left = 0 THEN FoundAt(findInnerStart(ws, i + 1, vt))
                  ELSE scan[<<i + 1, left>>]

LEMMA ScanUnfolds ==
  ASSUME NEW ws, HasLength(ws), NEW vt, NEW subs, Skips(subs)
  PROVE  \E scan : Scans(scan, ws, vt, subs) /\ extractSubcommandTarget(ws, vt, subs) = scan[<<2, NoVerb>>]
<1> DEFINE body(scan, at) ==
        LET i == at[1]
            toSkip == at[2]
            w == ws[i]
        IN  IF i > Len(ws) THEN IF toSkip = NoVerb THEN NotFound ELSE TooShort
            ELSE IF Shape[w].kind = "terminator"
              THEN IF toSkip = NoVerb THEN NotFound
                   ELSE IF toSkip = 0 THEN FoundAt(i) ELSE TooShort
            ELSE IF isFlagToken(w) THEN scan[<<consumeFlag(ws, i, vt), toSkip>>]
            ELSE IF toSkip = NoVerb /\ w \notin DOMAIN subs THEN NotFound
            ELSE LET left == IF toSkip = NoVerb THEN subs[w] ELSE toSkip - 1
                 IN  IF left = 0 THEN FoundAt(findInnerStart(ws, i + 1, vt))
                     ELSE scan[<<i + 1, left>>]
           from == CHOOSE scan : scan = [at \in Nat \X Int |-> body(scan, at)]
           H == [p \in [ScanPlaces -> ScanResults] \X ScanPlaces |-> body(p[1], p[2])]
           rest == [p \in ScanPlaces |-> IF p[1] > Len(ws) THEN 0 ELSE Len(ws) + 1 - p[1]]
<1> USE DEF Skips
<1>1. Len(ws) \in Nat
  BY DEF HasLength
<1>2. extractSubcommandTarget(ws, vt, subs) = from[<<2, NoVerb>>]
  BY Zenon DEF extractSubcommandTarget
<1>3. ASSUME NEW f \in [ScanPlaces -> ScanResults], NEW p \in ScanPlaces
      PROVE  body(f, p) \in ScanResults
  <2>1. p[1] \in Nat /\ p[2] \in Int
    BY DEF ScanPlaces
  <2>2. <<consumeFlag(ws, p[1], vt), p[2]>> \in ScanPlaces
    BY <2>1, Consumed DEF ScanPlaces
  <2>3. ASSUME NEW left \in Int PROVE <<p[1] + 1, left>> \in ScanPlaces
    BY <2>1 DEF ScanPlaces
  <2>4. findInnerStart(ws, p[1] + 1, vt) \in Nat
    <3>1. p[1] + 1 \in Nat
      BY <2>1
    <3> HIDE DEF body, H, from, rest
    <3> QED
      BY <3>1, StartTyped
  <2>5. NotFound \in ScanResults /\ TooShort \in ScanResults /\ \A i \in Nat : FoundAt(i) \in ScanResults
    BY DEF NotFound, TooShort, FoundAt, ScanResults
  <2>6. NoVerb \in Int
    BY DEF NoVerb
  <2> DEFINE left == IF p[2] = NoVerb THEN subs[ws[p[1]]] ELSE p[2] - 1
  <2>7. ASSUME ~(p[2] = NoVerb /\ ws[p[1]] \notin DOMAIN subs) PROVE left \in Int
    BY <2>1, <2>6, <2>7
  <2> HIDE DEF H, from, rest, ScanPlaces, ScanResults, NotFound, TooShort, FoundAt, NoVerb
  <2>8. f[<<consumeFlag(ws, p[1], vt), p[2]>>] \in ScanResults /\ \A n \in Int : f[<<p[1] + 1, n>>] \in ScanResults
    BY <2>2, <2>3
  <2> QED
    BY <2>1, <2>4, <2>5, <2>7, <2>8
<1>4. rest \in [ScanPlaces -> 0 .. Len(ws) + 1]
  BY <1>1 DEF ScanPlaces
<1>5. ASSUME NEW f, NEW g, NEW p \in ScanPlaces, \A q \in ScanPlaces : rest[q] < rest[p] => f[q] = g[q]
      PROVE  body(f, p) = body(g, p)
  <2>1. p[1] \in Nat /\ p[2] \in Int
    BY DEF ScanPlaces
  <2>2. CASE p[1] > Len(ws)
    BY <2>2
  <2>3. CASE ~(p[1] > Len(ws))
    <3>1. ASSUME NEW j \in Nat, NEW k \in Int, j > p[1] PROVE f[<<j, k>>] = g[<<j, k>>]
      <4>1. <<j, k>> \in ScanPlaces
        BY DEF ScanPlaces
      <4>2. rest[<<j, k>>] < rest[p]
        BY <1>1, <2>1, <2>3, <3>1, <4>1
      <4> QED
        BY <1>5, <4>1, <4>2
    <3>2. f[<<consumeFlag(ws, p[1], vt), p[2]>>] = g[<<consumeFlag(ws, p[1], vt), p[2]>>]
      <4>1. consumeFlag(ws, p[1], vt) \in Nat /\ consumeFlag(ws, p[1], vt) > p[1]
        BY <2>1, Consumed
      <4> QED
        BY <2>1, <3>1, <4>1
    <3>3. \A k \in Int : f[<<p[1] + 1, k>>] = g[<<p[1] + 1, k>>]
      BY <2>1, <3>1
    <3> DEFINE left == IF p[2] = NoVerb THEN subs[ws[p[1]]] ELSE p[2] - 1
    <3>4. ASSUME ~(p[2] = NoVerb /\ ws[p[1]] \notin DOMAIN subs) PROVE left \in Int
      BY <2>1, <3>4 DEF NoVerb
    <3> HIDE DEF H, from, rest, ScanPlaces, NoVerb
    <3> QED
      BY <3>2, <3>3, <3>4
  <2> QED
    BY <2>2, <2>3
<1> HIDE DEF body
<1>6. \A f \in [ScanPlaces -> ScanResults], p \in ScanPlaces : H[<<f, p>>] = body(f, p)
  OBVIOUS
<1> HIDE DEF H, rest
<1>7. PICK f \in [ScanPlaces -> ScanResults] : \A p \in ScanPlaces : f[p] = H[<<f, p>>]
  <2>1. \A g \in [ScanPlaces -> ScanResults], p \in ScanPlaces : H[<<g, p>>] \in ScanResults
    BY <1>3, <1>6
  <2>2. \A g, h \in [ScanPlaces -> ScanResults], p \in ScanPlaces :
          (\A q \in ScanPlaces : rest[q] < rest[p] => g[q] = h[q]) => H[<<g, p>>] = H[<<h, p>>]
    BY <1>5, <1>6
  <2>3. ScanResults # {} /\ Len(ws) + 1 \in Nat
    <3>1. NotFound \in ScanResults
      BY DEF NotFound, ScanResults
    <3> QED
      BY <1>1, <3>1
  <2>4. IsRecursion(ScanPlaces, ScanResults, Len(ws) + 1, rest, H)
    BY <1>4, <2>1, <2>2, <2>3 DEF IsRecursion
  <2> QED
    BY <2>4, RecursionIsSound
<1>8. f = [p \in ScanPlaces |-> body(f, p)]
  BY <1>6, <1>7
<1>9. from = [p \in ScanPlaces |-> body(from, p)]
  BY <1>8 DEF ScanPlaces
<1>10. \A p \in ScanPlaces : from[p] = f[p]
  <2>1. \A p \in ScanPlaces : rest[p] \in Nat
    BY <1>4
  <2>2. \A p \in ScanPlaces : from[p] = body(from, p) /\ f[p] = body(f, p)
    BY <1>8, <1>9
  <2>3. \A p \in ScanPlaces : (\A q \in ScanPlaces : rest[q] < rest[p] => from[q] = f[q]) => from[p] = f[p]
    BY <1>5, <2>2
  <2>4. AgreeStepwise(ScanPlaces, rest, from, f)
    BY <2>1, <2>3 DEF AgreeStepwise
  <2> HIDE DEF from
  <2> QED
    BY <2>4, RecursionIsUnique
<1>11. \A i \in Nat, k \in Int : <<i, k>> \in ScanPlaces /\ f[<<i, k>>] = body(f, <<i, k>>)
  BY <1>8 DEF ScanPlaces
<1>12. Scans(f, ws, vt, subs)
  <2> HIDE DEF from, ScanPlaces, ScanResults
  <2> QED
    BY <1>11 DEF Scans, body
<1>13. <<2, NoVerb>> \in ScanPlaces
  BY DEF ScanPlaces, NoVerb
<1> HIDE DEF from
<1> QED
  BY <1>2, <1>10, <1>12, <1>13

--------------------------------------------------------------------------------
(* The texts of a wrapper *)

\* The texts of which the targets are those that are not empty.
TextsOf(ws, spec, vt) ==
  [n \in DOMAIN spec.flags |-> <<lookupFlag(ws, spec.flags[n]).value>>]
    \o <<IF spec.terminator THEN terminatorTail(ws) ELSE << >>,
         subcommandTail(ws, extractSubcommandTarget(ws, vt, spec.subcommands))>>

LEMMA Targets ==
  ASSUME NEW ws, NEW spec, NEW vt
  PROVE  extractRecursionTargets(ws, spec, vt).targets = nonEmpty(TextsOf(ws, spec, vt))
<1> DEFINE flags == spec.flags
           found == [k \in DOMAIN flags |-> lookupFlag(ws, flags[k])]
           two == <<IF spec.terminator THEN terminatorTail(ws) ELSE << >>,
                    subcommandTail(ws, extractSubcommandTarget(ws, vt, spec.subcommands))>>
<1>1. extractRecursionTargets(ws, spec, vt).targets = nonEmpty([k \in DOMAIN found |-> <<found[k].value>>] \o two)
  BY DEF extractRecursionTargets
<1>2. TextsOf(ws, spec, vt) = [k \in DOMAIN flags |-> <<lookupFlag(ws, flags[k]).value>>] \o two
  BY DEF TextsOf
<1> HIDE DEF two
<1>3. [k \in DOMAIN found |-> <<found[k].value>>] = [k \in DOMAIN flags |-> <<lookupFlag(ws, flags[k]).value>>]
  <2> HIDE DEF flags
  <2> QED  OBVIOUS
<1> QED
  BY <1>1, <1>2, <1>3

\* Each strategy's text in its place.
Counted(texts, ws, spec, vt) ==
  LET m == Len(spec.flags)
  IN  /\ m \in Nat /\ DOMAIN spec.flags = 1 .. m /\ DOMAIN texts = 1 .. m + 2
      /\ \A n \in 1 .. m : texts[n] = <<lookupFlag(ws, spec.flags[n]).value>>
      /\ texts[m + 1] = IF spec.terminator THEN terminatorTail(ws) ELSE << >>
      /\ texts[m + 2] = subcommandTail(ws, extractSubcommandTarget(ws, vt, spec.subcommands))

LEMMA TextsCounted ==
  ASSUME NEW ws, NEW spec, NEW vt, spec.flags \in Seq({spec.flags[n] : n \in DOMAIN spec.flags})
  PROVE  Counted(TextsOf(ws, spec, vt), ws, spec, vt)
<1> DEFINE flags == spec.flags
           m == Len(flags)
           values == [n \in DOMAIN flags |-> <<lookupFlag(ws, flags[n]).value>>]
           x == IF spec.terminator THEN terminatorTail(ws) ELSE << >>
           y == subcommandTail(ws, extractSubcommandTarget(ws, vt, spec.subcommands))
           two == <<x, y>>
           all == {values[k] : k \in 1 .. m} \cup {x, y}
<1>1. m \in Nat /\ DOMAIN flags = 1 .. m
  OBVIOUS
<1>2. TextsOf(ws, spec, vt) = values \o two
  BY DEF TextsOf
<1> HIDE DEF flags, m, x, y
<1>3. \A n \in 1 .. m : values[n] = <<lookupFlag(ws, flags[n]).value>>
  BY <1>1
<1>4. values = [n \in 1 .. m |-> values[n]]
  BY <1>1
<1> HIDE DEF values
<1>5. values \in Seq(all) /\ Len(values) = m
  BY <1>1, <1>4
<1>6. two \in Seq(all) /\ Len(two) = 2 /\ two[1] = x /\ two[2] = y
  OBVIOUS
<1> HIDE DEF two, all
<1>7. /\ values \o two \in Seq(all) /\ Len(values \o two) = m + 2
      /\ \A n \in 1 .. m + 2 : (values \o two)[n] = IF n <= m THEN values[n] ELSE two[n - m]
  <2>1. /\ values \o two \in Seq(all) /\ Len(values \o two) = Len(values) + Len(two)
        /\ \A n \in 1 .. Len(values) + Len(two) :
             (values \o two)[n] = IF n <= Len(values) THEN values[n] ELSE two[n - Len(values)]
    BY <1>5, <1>6, ConcatProperties
  <2> QED
    BY <1>5, <1>6, <2>1
<1> DEFINE texts == values \o two
<1> HIDE DEF texts
<1>8. DOMAIN texts = 1 .. m + 2
  BY <1>7 DEF texts
<1>9. \A n \in 1 .. m : texts[n] = values[n]
  BY <1>1, <1>7 DEF texts
<1>10. texts[m + 1] = x /\ texts[m + 2] = y
  <2>1. /\ m + 1 \in 1 .. m + 2 /\ m + 2 \in 1 .. m + 2 /\ ~(m + 1 <= m) /\ ~(m + 2 <= m)
        /\ m + 1 - m = 1 /\ m + 2 - m = 2
    BY <1>1
  <2> QED
    <3>1. \A n \in 1 .. m + 2 : texts[n] = IF n <= m THEN values[n] ELSE two[n - m]
      BY <1>7 DEF texts
    <3> QED
      BY <1>1, <1>6, <2>1, <3>1
<1> QED
  BY <1>1, <1>2, <1>3, <1>8, <1>9, <1>10 DEF Counted, texts, flags, m, x, y

\* The targets are the texts that are not empty.
LEMMA TextsAreTargets ==
  ASSUME NEW texts, NEW m \in Nat, DOMAIN texts = 1 .. m
  PROVE  ElementsOf(nonEmpty(texts)) = {texts[n] : n \in {n \in 1 .. m : texts[n] \notin {<< >>, <<EmptyWord>>}}}
<1> DEFINE places == {n \in DOMAIN texts : texts[n] \notin {<< >>, <<EmptyWord>>}}
<1>1. nonEmpty(texts) = AtPlaces(texts, places)
  BY DEF nonEmpty
<1>2. places \in SUBSET Nat /\ IsFiniteSet(places)
  <2>1. IsFiniteSet(1 .. m)
    BY FS_Interval
  <2>2. places \in SUBSET (1 .. m)
    OBVIOUS
  <2>3. \A k \in 1 .. m : k \in Nat
    OBVIOUS
  <2> HIDE DEF places
  <2>4. IsFiniteSet(places)
    BY <2>1, <2>2, FS_Subset
  <2> QED
    BY <2>2, <2>3, <2>4
<1>3. places = {n \in 1 .. m : texts[n] \notin {<< >>, <<EmptyWord>>}}
  OBVIOUS
<1> HIDE DEF places
<1> QED
  BY <1>1, <1>2, <1>3, PlacesReached
================================================================================
