----------------------------- MODULE CLISpecsProofs ----------------------------
(* Proofs about the memory behind the CLI specs: for any built-in specs, any    *)
(* declarations and any writes of the callers, every map of specs has cells of  *)
(* its own.  The argument goes by the owners of the cells: what a call builds   *)
(* lies in cells of that call, and nothing else is ever written by it.          *)
(* Hence every call merges the same two maps, and merging is by value what      *)
(* merge.go promises.                                                           *)
EXTENDS CLISpecs, CommonProofs

\* Every cell of the specs has one of these owners, and exists.
Within(specs, owners) ==
  \A ref \in Cells(specs) : ref \in DOMAIN mem /\ ref[1] \in owners

OwnersOf(k) == {BaseOwner(k), ResultOwner(k)}

\* The inductive invariant: who owns the cells of whom.
MemInv ==
  /\ results \in Seq(Range(results))
  /\ depth \in Int
  /\ Within(builtins, {BuiltinOwner})
  /\ Within(declared, {ConfigOwner})
  /\ \A k \in DOMAIN results : Within(results[k], OwnersOf(k))

--------------------------------------------------------------------------------
(* Lists *)

\* What is appended twice is kept once, and nothing is lost (merge.go:101-122).
LEMMA Deduplicated ==
  ASSUME NEW base, NEW override, IsList(base), IsList(override)
  PROVE  /\ IsList(dedupAppend(base, override))
         /\ Range(dedupAppend(base, override)) = Range(base) \cup Range(override)
<1>1. PICK all : all = base \o override  OBVIOUS
<1>2. /\ Len(base) \in Nat /\ Len(override) \in Nat
      /\ DOMAIN base = 1 .. Len(base) /\ DOMAIN override = 1 .. Len(override)
      /\ DOMAIN all = 1 .. Len(base) + Len(override)
      /\ \A n \in DOMAIN base : all[n] = base[n]
      /\ \A n \in DOMAIN override : all[Len(base) + n] = override[n]
  BY <1>1 DEF IsList
<1>3. Range(all) = Range(base) \cup Range(override)
  <2>1. ASSUME NEW n \in DOMAIN all PROVE all[n] \in Range(base) \cup Range(override)
    <3>1. n \in DOMAIN base \/ (n - Len(base) \in DOMAIN override /\ n = Len(base) + (n - Len(base)))
      BY <1>2
    <3> QED  BY <3>1, <1>2 DEF Range
  <2>2. \A n \in DOMAIN base : base[n] \in Range(all)
    <3>1. \A n \in DOMAIN base : n \in DOMAIN all  BY <1>2
    <3> QED  BY <3>1, <1>2 DEF Range
  <2>3. \A n \in DOMAIN override : override[n] \in Range(all)
    <3>1. \A n \in DOMAIN override : Len(base) + n \in DOMAIN all  BY <1>2
    <3> QED  BY <3>1, <1>2 DEF Range
  <2> QED  BY <2>1, <2>2, <2>3 DEF Range
<1> DEFINE first == {n \in DOMAIN all : \A m \in 1 .. n - 1 : all[m] # all[n]}
<1>4. first \in SUBSET Nat /\ IsFiniteSet(first)
  <2>1. IsFiniteSet(DOMAIN all)  BY <1>2, FS_Interval
  <2> QED  BY <2>1, <1>2, FS_Subset
<1>5. ASSUME NEW n \in DOMAIN all PROVE \E p \in first : all[p] = all[n]
  <2> DEFINE same == {m \in DOMAIN all : all[m] = all[n]}
  <2>1. PICK p \in same : \A m \in same : p <= m
    <3>1. same \subseteq Nat /\ n \in same  BY <1>2
    <3> HIDE DEF same
    <3> QED  BY <3>1, Least
  <2>2. \A m \in 1 .. p - 1 : m \in DOMAIN all  BY <1>2
  <2>3. p \in first  BY <2>1, <2>2, <1>2
  <2> QED  BY <2>1, <2>3
<1>6. dedupAppend(base, override) = AtPlaces(all, first)  BY <1>1 DEF dedupAppend
<1>7. /\ IsList(AtPlaces(all, first))
      /\ Range(AtPlaces(all, first)) = {all[p] : p \in first}
  <2> HIDE DEF first
  <2> QED  BY <1>4, PlacesReached DEF IsList, Range, ElementsOf
<1>8. {all[p] : p \in first} = Range(all)
  <2>1. first \subseteq DOMAIN all  OBVIOUS
  <2> HIDE DEF first
  <2> QED  BY <2>1, <1>5 DEF Range
<1> QED  BY <1>3, <1>6, <1>7, <1>8

LEMMA EmptyList == IsList(<< >>) /\ Range(<< >>) = {}
BY DEF IsList, Range

\* A list that is not empty has elements.
LEMMA NotEmpty ==
  ASSUME NEW s, IsList(s), s # << >>
  PROVE  Range(s) # {}
<1>1. Len(s) \in Nat /\ DOMAIN s = 1 .. Len(s) /\ (Len(s) = 0 => s = << >>)  BY DEF IsList
<1>2. 1 \in DOMAIN s  BY <1>1
<1> QED  BY <1>2 DEF Range

--------------------------------------------------------------------------------
(* Merging by value *)

\* Two specs as one, by value.
Merged(b, u) ==
  [valueTaking |-> dedupAppend(b.valueTaking, u.valueTaking),
   recurse |-> IF u.recurse = {} THEN b.recurse
               ELSE {mergeRecurse(r, o) : r \in IF b.recurse = {} THEN {NoRecurse} ELSE b.recurse,
                                          o \in u.recurse}]

\* Flags of both, verbs of both, those declared first (merge.go:84-99).
LEMMA MergedRecurse ==
  ASSUME NEW dst, NEW override, IsList(dst.flags), IsList(override.flags),
         dst.terminator \in BOOLEAN, override.terminator \in BOOLEAN
  PROVE  LET r == mergeRecurse(dst, override)
         IN  /\ IsList(r.flags) /\ Range(r.flags) = Range(dst.flags) \cup Range(override.flags)
             /\ (r.terminator <=> dst.terminator \/ override.terminator)
             /\ r.terminator \in BOOLEAN
             /\ DOMAIN r.subcommands = DOMAIN dst.subcommands \cup DOMAIN override.subcommands
             /\ \A v \in DOMAIN r.subcommands :
                  r.subcommands[v] = IF v \in DOMAIN override.subcommands
                                       THEN override.subcommands[v] ELSE dst.subcommands[v]
<1>1. PICK t \in BOOLEAN : t = (dst.terminator \/ override.terminator)  OBVIOUS
<1>2. PICK f : f = dedupAppend(dst.flags, override.flags)  OBVIOUS
<1>3. PICK o : o = Over(override.subcommands, dst.subcommands)  OBVIOUS
<1>4. mergeRecurse(dst, override) = [flags |-> f, terminator |-> t, subcommands |-> o]
  BY <1>1, <1>2, <1>3, Zenon DEF mergeRecurse
<1>5. IsList(f) /\ Range(f) = Range(dst.flags) \cup Range(override.flags)
  BY <1>2, Deduplicated
<1>6. /\ DOMAIN o = DOMAIN dst.subcommands \cup DOMAIN override.subcommands
      /\ \A v \in DOMAIN o : o[v] = IF v \in DOMAIN override.subcommands
                                      THEN override.subcommands[v] ELSE dst.subcommands[v]
  BY <1>3 DEF Over
<1> QED  BY <1>1, <1>4, <1>5, <1>6

\* The RecurseSpec that is merged into: one that asks for nothing in the place of none.
LEMMA BaseRecurse ==
  ASSUME NEW b, IsSpec(b), NEW r \in IF b.recurse = {} THEN {NoRecurse} ELSE b.recurse
  PROVE  /\ IsList(r.flags) /\ r.terminator \in BOOLEAN
         /\ RecurseFlags(b) = Range(r.flags)
         /\ Terminates(b) <=> r.terminator
         /\ Verbs(b) = {<<v, r.subcommands[v]>> : v \in DOMAIN r.subcommands}
         /\ \A v \in DOMAIN r.subcommands : r.subcommands[v] \in Int
<1>1. CASE b.recurse = {}
  <2>1. r.flags = << >> /\ r.terminator = FALSE /\ r.subcommands = << >>
    BY <1>1 DEF NoRecurse
  <2>2. RecurseFlags(b) = {} /\ ~Terminates(b) /\ Verbs(b) = {}
    BY <1>1 DEF RecurseFlags, Terminates, Verbs
  <2>3. DOMAIN r.subcommands = {}  BY <2>1
  <2> QED  BY <2>1, <2>2, <2>3, EmptyList
<1>2. CASE b.recurse # {}
  <2>1. b.recurse = {r} /\ IsList(r.flags) /\ r.terminator \in BOOLEAN  BY <1>2 DEF IsSpec
  <2>2. RecurseFlags(b) = Range(r.flags)  BY <2>1 DEF RecurseFlags
  <2>3. Terminates(b) <=> r.terminator  BY <2>1 DEF Terminates
  <2>4. Verbs(b) = {<<v, r.subcommands[v]>> : v \in DOMAIN r.subcommands}  BY <2>1 DEF Verbs
  <2>5. \A v \in DOMAIN r.subcommands : r.subcommands[v] \in Int  BY <2>1, Zenon DEF IsSpec
  <2> QED  BY <2>1, <2>2, <2>3, <2>4, <2>5
<1> QED  BY <1>1, <1>2

\* What is merged is again a spec (of the type that the decoder makes).
LEMMA MergedIsSpec ==
  ASSUME NEW b, NEW u, IsSpec(b), IsSpec(u)
  PROVE  /\ IsSpec(Merged(b, u))
         /\ Range(Merged(b, u).valueTaking) = Range(b.valueTaking) \cup Range(u.valueTaking)
<1> DEFINE s == Merged(b, u)
<1>1. IsList(s.valueTaking) /\ Range(s.valueTaking) = Range(b.valueTaking) \cup Range(u.valueTaking)
  BY Deduplicated DEF Merged, IsSpec
<1>2. s = [valueTaking |-> s.valueTaking, recurse |-> s.recurse]  BY DEF Merged
<1>3. \A r, q \in s.recurse : r = q  BY DEF Merged, IsSpec
<1>4. ASSUME NEW r \in s.recurse
      PROVE  /\ IsList(r.flags) /\ r.terminator \in BOOLEAN
             /\ \A v \in DOMAIN r.subcommands : r.subcommands[v] \in Int
  <2>1. CASE u.recurse = {}
    <3>1. r \in b.recurse  BY <2>1, <1>4 DEF Merged
    <3> QED  BY <3>1, Zenon DEF IsSpec
  <2>2. CASE u.recurse # {}
    <3>1. PICK d \in IF b.recurse = {} THEN {NoRecurse} ELSE b.recurse, o \in u.recurse :
            r = mergeRecurse(d, o)
      BY <2>2, <1>4 DEF Merged
    <3>2. /\ IsList(d.flags) /\ d.terminator \in BOOLEAN
          /\ \A v \in DOMAIN d.subcommands : d.subcommands[v] \in Int
      BY BaseRecurse
    <3>3. /\ IsList(o.flags) /\ o.terminator \in BOOLEAN
          /\ \A v \in DOMAIN o.subcommands : o.subcommands[v] \in Int
      BY Zenon DEF IsSpec
    <3> QED  BY <3>1, <3>2, <3>3, MergedRecurse
  <2> QED  BY <2>1, <2>2
<1>5. \A r \in s.recurse : /\ IsList(r.flags) /\ r.terminator \in BOOLEAN
                          /\ \A v \in DOMAIN r.subcommands : r.subcommands[v] \in Int
  BY <1>4
<1> HIDE DEF s
<1>6. IsSpec(s)  BY <1>1, <1>2, <1>3, <1>5, Zenon DEF IsSpec
<1> QED  BY <1>1, <1>6 DEF s

\* Merging by value gives the union (merge.go:68-99).
LEMMA MergedIsUnion ==
  ASSUME NEW b, NEW u, IsSpec(b), IsSpec(u)
  PROVE  IsUnion(Merged(b, u), b, u)
<1> DEFINE s == Merged(b, u)
<1> SUFFICES IsUnion(s, b, u)  OBVIOUS
<1>1. Flags(s) = Flags(b) \cup Flags(u)  BY MergedIsSpec DEF Flags
<1>2. CASE u.recurse = {}
  <2>1. s.recurse = b.recurse  BY <1>2 DEF Merged
  <2>2. RecurseFlags(u) = {} /\ ~Terminates(u) /\ Verbs(u) = {}
    BY <1>2 DEF RecurseFlags, Terminates, Verbs
  <2>3. /\ RecurseFlags(s) = RecurseFlags(b)
        /\ Terminates(s) <=> Terminates(b)
        /\ Verbs(s) = Verbs(b)
    BY <2>1 DEF RecurseFlags, Terminates, Verbs
  <2> HIDE DEF s
  <2> QED  BY <1>1, <2>2, <2>3 DEF IsUnion
<1>3. CASE u.recurse # {}
  <2>1. PICK d : d \in IF b.recurse = {} THEN {NoRecurse} ELSE b.recurse  OBVIOUS
  <2>2. PICK o \in u.recurse : u.recurse = {o}  BY <1>3 DEF IsSpec
  <2>3. PICK r : r = mergeRecurse(d, o)  OBVIOUS
  <2>4. s.recurse = {r}
    <3>1. (IF b.recurse = {} THEN {NoRecurse} ELSE b.recurse) = {d}  BY <2>1 DEF IsSpec
    <3> QED  BY <3>1, <1>3, <2>2, <2>3 DEF Merged
  <2>5. /\ RecurseFlags(b) = Range(d.flags) /\ IsList(d.flags)
        /\ (Terminates(b) <=> d.terminator) /\ d.terminator \in BOOLEAN
        /\ Verbs(b) = {<<v, d.subcommands[v]>> : v \in DOMAIN d.subcommands}
    BY <2>1, BaseRecurse
  <2>6. /\ RecurseFlags(u) = Range(o.flags) /\ IsList(o.flags)
        /\ (Terminates(u) <=> o.terminator) /\ o.terminator \in BOOLEAN
        /\ Verbs(u) = {<<v, o.subcommands[v]>> : v \in DOMAIN o.subcommands}
    <3>1. IsList(o.flags) /\ o.terminator \in BOOLEAN  BY DEF IsSpec
    <3>2. RecurseFlags(u) = Range(o.flags)  BY <2>2 DEF RecurseFlags
    <3>3. Terminates(u) <=> o.terminator  BY <2>2 DEF Terminates
    <3>4. Verbs(u) = {<<v, o.subcommands[v]>> : v \in DOMAIN o.subcommands}  BY <2>2 DEF Verbs
    <3> QED  BY <3>1, <3>2, <3>3, <3>4
  <2>7. /\ Range(r.flags) = Range(d.flags) \cup Range(o.flags)
        /\ (r.terminator <=> d.terminator \/ o.terminator)
        /\ DOMAIN r.subcommands = DOMAIN d.subcommands \cup DOMAIN o.subcommands
        /\ \A v \in DOMAIN r.subcommands :
             r.subcommands[v] = IF v \in DOMAIN o.subcommands THEN o.subcommands[v] ELSE d.subcommands[v]
    BY <2>3, <2>5, <2>6, MergedRecurse
  <2>8. /\ RecurseFlags(s) = Range(r.flags)
        /\ (Terminates(s) <=> r.terminator)
        /\ Verbs(s) = {<<v, r.subcommands[v]>> : v \in DOMAIN r.subcommands}
    <3> HIDE DEF s
    <3>1. RecurseFlags(s) = Range(r.flags)  BY <2>4 DEF RecurseFlags
    <3>2. Terminates(s) <=> r.terminator  BY <2>4 DEF Terminates
    <3>3. Verbs(s) = {<<v, r.subcommands[v]>> : v \in DOMAIN r.subcommands}  BY <2>4 DEF Verbs
    <3> QED  BY <3>1, <3>2, <3>3
  <2> HIDE DEF s
  <2>9. RecurseFlags(s) = RecurseFlags(b) \cup RecurseFlags(u)  BY <2>5, <2>6, <2>7, <2>8
  <2>10. Terminates(s) <=> Terminates(b) \/ Terminates(u)  BY <2>5, <2>6, <2>7, <2>8
  <2>11. Verbs(s) = Verbs(u) \cup {v \in Verbs(b) : v[1] \notin {w[1] : w \in Verbs(u)}}
    <3>1. {w[1] : w \in Verbs(u)} = DOMAIN o.subcommands
      <4>1. \A w \in Verbs(u) : w[1] \in DOMAIN o.subcommands  BY <2>6
      <4>2. \A v \in DOMAIN o.subcommands : <<v, o.subcommands[v]>> \in Verbs(u)  BY <2>6
      <4>3. \A v \in DOMAIN o.subcommands : \E w \in Verbs(u) : w[1] = v  BY <4>2
      <4> QED  BY <4>1, <4>3
    <3>2. \A v \in DOMAIN r.subcommands :
            <<v, r.subcommands[v]>> \in Verbs(u) \cup {w \in Verbs(b) : w[1] \notin DOMAIN o.subcommands}
      BY <2>5, <2>6, <2>7
    <3>3. \A w \in Verbs(u) : w \in Verbs(s)  BY <2>6, <2>7, <2>8
    <3>4. \A w \in Verbs(b) : w[1] \notin DOMAIN o.subcommands => w \in Verbs(s)
      BY <2>5, <2>7, <2>8
    <3> QED  BY <3>1, <3>2, <3>3, <3>4, <2>8
  <2> QED  BY <1>1, <2>9, <2>10, <2>11 DEF IsUnion
<1> QED  BY <1>2, <1>3

\* ... and a valid spec if both were.
LEMMA MergedIsValid ==
  ASSUME NEW b, NEW u, IsSpec(b), IsSpec(u), Validate(b), Validate(u)
  PROVE  Validate(Merged(b, u))
<1> DEFINE s == Merged(b, u)
<1>1. Range(s.valueTaking) \cap (Dashed \cup {""}) = {}  BY MergedIsSpec DEF Validate
<1>2. s.valueTaking # << >> \/ s.recurse # {}
  <2>1. CASE b.valueTaking # << >> \/ u.valueTaking # << >>
    <3>1. Range(b.valueTaking) # {} \/ Range(u.valueTaking) # {}
      BY <2>1, NotEmpty DEF IsSpec
    <3> QED  BY <3>1, MergedIsSpec, EmptyList
  <2>2. CASE u.recurse # {}
    <3>1. (IF b.recurse = {} THEN {NoRecurse} ELSE b.recurse) # {}  OBVIOUS
    <3> QED  BY <2>2, <3>1 DEF Merged
  <2>3. CASE u.recurse = {} /\ b.recurse # {}  BY <2>3 DEF Merged
  <2> QED  BY <2>1, <2>2, <2>3 DEF Validate
<1>3. ASSUME NEW r \in s.recurse
      PROVE  /\ r.flags # << >> \/ r.terminator \/ DOMAIN r.subcommands # {}
             /\ \A verb \in DOMAIN r.subcommands : verb # "" /\ r.subcommands[verb] >= 0
  <2>1. CASE u.recurse = {}
    <3>1. r \in b.recurse  BY <2>1, <1>3 DEF Merged
    <3> QED  BY <3>1, Zenon DEF Validate
  <2>2. CASE u.recurse # {}
    <3>1. PICK d \in IF b.recurse = {} THEN {NoRecurse} ELSE b.recurse, o \in u.recurse :
            r = mergeRecurse(d, o)
      BY <2>2, <1>3 DEF Merged
    <3>2. IsList(d.flags) /\ d.terminator \in BOOLEAN  BY BaseRecurse
    <3>3. IsList(o.flags) /\ o.terminator \in BOOLEAN  BY DEF IsSpec
    <3>4. /\ Range(r.flags) = Range(d.flags) \cup Range(o.flags)
          /\ (r.terminator <=> d.terminator \/ o.terminator)
          /\ DOMAIN r.subcommands = DOMAIN d.subcommands \cup DOMAIN o.subcommands
          /\ \A v \in DOMAIN r.subcommands :
               r.subcommands[v] = IF v \in DOMAIN o.subcommands THEN o.subcommands[v] ELSE d.subcommands[v]
      BY <3>1, <3>2, <3>3, MergedRecurse
    <3>5. o.flags # << >> \/ o.terminator \/ DOMAIN o.subcommands # {}  BY Zenon DEF Validate
    <3>6. o.flags # << >> => Range(o.flags) # {}  BY <3>3, NotEmpty
    <3>7. r.flags # << >> \/ r.terminator \/ DOMAIN r.subcommands # {}
      BY <3>4, <3>5, <3>6, EmptyList
    <3>8. \A v \in DOMAIN d.subcommands : v # "" /\ d.subcommands[v] >= 0
      <4>1. CASE b.recurse = {}
        <5>1. DOMAIN d.subcommands = {}  BY <4>1 DEF NoRecurse
        <5> QED  BY <5>1
      <4>2. CASE b.recurse # {}  BY <4>2 DEF Validate
      <4> QED  BY <4>1, <4>2
    <3>9. \A v \in DOMAIN o.subcommands : v # "" /\ o.subcommands[v] >= 0  BY DEF Validate
    <3> QED  BY <3>4, <3>7, <3>8, <3>9
  <2> QED  BY <2>1, <2>2
<1> QED  BY <1>1, <1>2, <1>3 DEF Validate

--------------------------------------------------------------------------------
(* What allocates *)

\* One spec, and a map of specs, with exactly the cells that it writes, all new.
FreshSpec(a, owner, cli) ==
  /\ References(a.spec) = DOMAIN a.written
  /\ \A ref \in DOMAIN a.written : ref[1] = owner /\ ref[2] = cli

Fresh(g, owner) ==
  /\ Cells(g.spec) = DOMAIN g.written
  /\ \A ref \in DOMAIN g.written : ref[1] = owner

\* A spec that is allocated consists of new cells (cloneSpec, merge.go:32-66).
LEMMA Allocated ==
  ASSUME NEW owner, NEW cli, NEW valueTaking, NEW recurse
  PROVE  FreshSpec(Allocate(owner, cli, valueTaking, recurse), owner, cli)
<1> DEFINE list == <<owner, cli, "valueTaking">>
           struct == <<owner, cli, "recurse">>
           a == Allocate(owner, cli, valueTaking, recurse)
<1>1. /\ a.spec.valueTaking = list
      /\ a.spec.recurse = {struct : r \in recurse}
      /\ DOMAIN a.written = {list} \cup {struct : r \in recurse}
  BY DEF Allocate
<1>2. list[1] = owner /\ list[2] = cli /\ struct[1] = owner /\ struct[2] = cli  OBVIOUS
<1> HIDE DEF a, list, struct
<1>3. References(a.spec) = DOMAIN a.written  BY <1>1 DEF References
<1>4. \A ref \in DOMAIN a.written : ref[1] = owner /\ ref[2] = cli  BY <1>1, <1>2
<1> QED  BY <1>3, <1>4 DEF FreshSpec, a

\* So does a map of such specs (the loops of builtins.go and merge.go).
LEMMA Gathered ==
  ASSUME NEW specs, NEW owner, \A cli \in DOMAIN specs : FreshSpec(specs[cli], owner, cli)
  PROVE  Fresh(Gather(specs), owner)
<1> DEFINE g == Gather(specs)
<1>1. /\ g.spec = [cli \in DOMAIN specs |-> specs[cli].spec]
      /\ DOMAIN g.written = UNION {DOMAIN specs[cli].written : cli \in DOMAIN specs}
  BY DEF Gather
<1> HIDE DEF g
<1>2. Cells(g.spec) = UNION {References(specs[cli].spec) : cli \in DOMAIN specs}
  BY <1>1 DEF Cells
<1>3. Cells(g.spec) = DOMAIN g.written  BY <1>1, <1>2 DEF FreshSpec
<1>4. \A ref \in DOMAIN g.written : ref[1] = owner  BY <1>1 DEF FreshSpec
<1> QED  BY <1>3, <1>4 DEF Fresh, g

\* The three functions that build a map of specs.
LEMMA StoredFresh ==
  ASSUME NEW owner, NEW specs
  PROVE  Fresh(Stored(owner, specs), owner)
<1> DEFINE all == [cli \in DOMAIN specs |->
                     Allocate(owner, cli, specs[cli].valueTaking, specs[cli].recurse)]
<1>1. \A cli \in DOMAIN all : FreshSpec(all[cli], owner, cli)  BY Allocated
<1> HIDE DEF all
<1>2. Fresh(Gather(all), owner)  BY <1>1, Gathered
<1> QED  BY <1>2 DEF Stored, all

LEMMA BuiltinsFresh ==
  ASSUME NEW m, NEW owner
  PROVE  Fresh(Builtins(m, owner), owner)
<1> DEFINE all == [cli \in DOMAIN builtins |-> cloneSpec(m, builtins[cli], owner, cli)]
<1>1. \A cli \in DOMAIN all : FreshSpec(all[cli], owner, cli)  BY Allocated DEF cloneSpec
<1> HIDE DEF all
<1>2. Fresh(Gather(all), owner)  BY <1>1, Gathered
<1> QED  BY <1>2 DEF Builtins, all

LEMMA MergedFresh ==
  ASSUME NEW m, NEW base, NEW override, NEW owner
  PROVE  Fresh(MergeCLISpecs(m, base, override, owner), owner)
<1> DEFINE all == [cli \in DOMAIN base \cup DOMAIN override |->
                     IF cli \notin DOMAIN override THEN cloneSpec(m, base[cli], owner, cli)
                     ELSE IF cli \notin DOMAIN base THEN cloneSpec(m, override[cli], owner, cli)
                     ELSE mergeSpec(m, base[cli], override[cli], owner, cli)]
<1>1. ASSUME NEW cli PROVE FreshSpec(mergeSpec(m, base[cli], override[cli], owner, cli), owner, cli)
  BY Allocated DEF mergeSpec
<1>2. ASSUME NEW cli, NEW s PROVE FreshSpec(cloneSpec(m, s, owner, cli), owner, cli)
  BY Allocated DEF cloneSpec
<1>3. \A cli \in DOMAIN all : FreshSpec(all[cli], owner, cli)  BY <1>1, <1>2
<1> HIDE DEF all
<1>4. Fresh(Gather(all), owner)  BY <1>3, Gathered
<1> QED  BY <1>4 DEF MergeCLISpecs, all

\* A call of ResolvedCLISpecs writes cells of its own only, its result among them.
LEMMA Resolved ==
  ASSUME NEW n, NEW r, r = ResolvedCLISpecs(n)
  PROVE  /\ Cells(r.spec) \subseteq DOMAIN r.written
         /\ \A ref \in DOMAIN r.written : ref[1] \in OwnersOf(n)
<1> DEFINE base == Builtins(mem, BaseOwner(n))
           merged == MergeCLISpecs(Over(base.written, mem), base.spec, declared, ResultOwner(n))
<1>1. Fresh(base, BaseOwner(n))  BY BuiltinsFresh
<1>2. Fresh(merged, ResultOwner(n))  BY MergedFresh
<1>3. CASE DOMAIN declared = {}
  <2>1. r = base  BY <1>3 DEF ResolvedCLISpecs
  <2> HIDE DEF base
  <2> QED  BY <2>1, <1>1 DEF Fresh, OwnersOf
<1>4. CASE DOMAIN declared # {}
  <2>1. r = [spec |-> merged.spec, written |-> Over(merged.written, base.written)]
    BY <1>4 DEF ResolvedCLISpecs
  <2> HIDE DEF base, merged
  <2>2. r.spec = merged.spec /\ DOMAIN r.written = DOMAIN merged.written \cup DOMAIN base.written
    BY <2>1 DEF Over
  <2> QED  BY <2>2, <1>1, <1>2 DEF Fresh, OwnersOf
<1> QED  BY <1>3, <1>4

--------------------------------------------------------------------------------
(* What is seen *)

\* Two memories that agree on the cells of some specs say the same of them.
LEMMA SameView ==
  ASSUME NEW m1, NEW m2, NEW specs, \A ref \in Cells(specs) : m1[ref] = m2[ref]
  PROVE  View(m1, specs) = View(m2, specs)
<1>1. ASSUME NEW cli \in DOMAIN specs
      PROVE  /\ m1[specs[cli].valueTaking] = m2[specs[cli].valueTaking]
             /\ \A ref \in specs[cli].recurse : m1[ref] = m2[ref]
  BY DEF Cells, References
<1>2. ASSUME NEW cli \in DOMAIN specs
      PROVE  {m1[ref] : ref \in specs[cli].recurse} = {m2[ref] : ref \in specs[cli].recurse}
  BY <1>1
<1> QED  BY <1>1, <1>2 DEF View, Value

\* No two holders of specs have an owner in common.
LEMMA OwnersDiffer ==
  /\ BuiltinOwner # ConfigOwner
  /\ \A k : BuiltinOwner \notin OwnersOf(k) /\ ConfigOwner \notin OwnersOf(k)
  /\ \A j, k : j # k => OwnersOf(j) \cap OwnersOf(k) = {}
BY DEF BuiltinOwner, ConfigOwner, OwnersOf, BaseOwner, ResultOwner

\* What a step leaves alone in the cells of some owners, nobody sees changed.
LEMMA Untouched ==
  ASSUME NEW specs, NEW owners, Within(specs, owners),
         \A ref \in DOMAIN mem : ref[1] \in owners => mem'[ref] = mem[ref]
  PROVE  View(mem', specs) = View(mem, specs)
<1>1. \A ref \in Cells(specs) : mem'[ref] = mem[ref]  BY DEF Within
<1> QED  BY <1>1, SameView

--------------------------------------------------------------------------------
(* The steps *)

\* The next result is the last of a sequence, and the earlier ones stay.
LEMMA OneMore ==
  ASSUME results \in Seq(Range(results)), NEW spec, results' = Append(results, spec)
  PROVE  /\ results' \in Seq(Range(results'))
         /\ Len(results) + 1 \notin DOMAIN results
         /\ DOMAIN results' = DOMAIN results \cup {Len(results) + 1}
         /\ results'[Len(results) + 1] = spec
         /\ \A k \in DOMAIN results : results'[k] = results[k]
<1> DEFINE n == Len(results) + 1
<1>1. /\ DOMAIN results = 1 .. Len(results) /\ Len(results) \in Nat
      /\ DOMAIN results' = 1 .. n /\ Len(results') = n
      /\ results'[n] = spec
      /\ \A k \in DOMAIN results : results'[k] = results[k]
      /\ results' \in Seq(Range(results) \cup {spec})
  OBVIOUS
<1>2. \A k \in 1 .. n : results'[k] \in Range(results')  BY <1>1 DEF Range
<1>3. results' \in Seq(Range(results'))  BY <1>1, <1>2
<1> QED  BY <1>1, <1>3

\* What a call of ResolvedCLISpecs does to the memory.
LEMMA Resolving ==
  ASSUME MemInv, Resolve
  PROVE  /\ DOMAIN mem \subseteq DOMAIN mem'
         /\ \A ref \in DOMAIN mem : ref[1] \notin OwnersOf(Len(results) + 1) => mem'[ref] = mem[ref]
         /\ \A ref \in Cells(results'[Len(results) + 1]) :
              ref \in DOMAIN mem' /\ ref[1] \in OwnersOf(Len(results) + 1)
         /\ results' \in Seq(Range(results'))
         /\ Len(results) + 1 \notin DOMAIN results
         /\ DOMAIN results' = DOMAIN results \cup {Len(results) + 1}
         /\ \A k \in DOMAIN results : results'[k] = results[k]
<1> DEFINE n == Len(results) + 1
<1>1. PICK r : r = ResolvedCLISpecs(n)  OBVIOUS
<1>2. results' = Append(results, r.spec) /\ mem' = Over(r.written, mem)
  BY <1>1 DEF Resolve
<1>3. /\ Cells(r.spec) \subseteq DOMAIN r.written
      /\ \A ref \in DOMAIN r.written : ref[1] \in OwnersOf(n)
  BY <1>1, Resolved
<1>4. /\ DOMAIN mem' = DOMAIN r.written \cup DOMAIN mem
      /\ \A ref \in DOMAIN mem : ref \notin DOMAIN r.written => mem'[ref] = mem[ref]
  BY <1>2 DEF Over
<1>5. /\ results' \in Seq(Range(results')) /\ n \notin DOMAIN results
      /\ DOMAIN results' = DOMAIN results \cup {n}
      /\ results'[n] = r.spec
      /\ \A k \in DOMAIN results : results'[k] = results[k]
  BY <1>2, OneMore DEF MemInv
<1> QED  BY <1>3, <1>4, <1>5

\* What a caller does to it.
LEMMA Scribbling ==
  ASSUME NEW k, Scribble(k)
  PROVE  /\ DOMAIN mem' = DOMAIN mem
         /\ \A ref \in DOMAIN mem : ref \notin Cells(results[k]) => mem'[ref] = mem[ref]
         /\ UNCHANGED <<builtins, declared, depth, results>>
BY DEF Scribble

LEMMA MemInvInit == Init => MemInv
<1> SUFFICES ASSUME Init PROVE MemInv  OBVIOUS
<1>1. PICK d : LET b == Stored(BuiltinOwner, Embedded)
                   c == Stored(ConfigOwner, d)
               IN  builtins = b.spec /\ declared = c.spec /\ mem = Over(b.written, c.written)
  BY DEF Init
<1>2. PICK b : b = Stored(BuiltinOwner, Embedded)  OBVIOUS
<1>3. PICK c : c = Stored(ConfigOwner, d)  OBVIOUS
<1>4. Fresh(b, BuiltinOwner) /\ Fresh(c, ConfigOwner)  BY <1>2, <1>3, StoredFresh
<1>5. /\ builtins = b.spec /\ declared = c.spec
      /\ DOMAIN mem = DOMAIN b.written \cup DOMAIN c.written
  BY <1>1, <1>2, <1>3 DEF Over
<1>6. Within(builtins, {BuiltinOwner}) /\ Within(declared, {ConfigOwner})
  BY <1>4, <1>5 DEF Within, Fresh
<1>7. results = << >> /\ depth \in Int  BY DepthsAssumption DEF Init
<1>8. results \in Seq(Range(results)) /\ DOMAIN results = {}  BY <1>7
<1> QED  BY <1>6, <1>7, <1>8 DEF MemInv

LEMMA MemInvStep == MemInv /\ [Next]_vars => MemInv'
<1> SUFFICES ASSUME MemInv, [Next]_vars PROVE MemInv'  OBVIOUS
<1>1. CASE Resolve
  <2> DEFINE n == Len(results) + 1
  <2>1. /\ DOMAIN mem \subseteq DOMAIN mem'
        /\ \A ref \in Cells(results'[n]) : ref \in DOMAIN mem' /\ ref[1] \in OwnersOf(n)
        /\ results' \in Seq(Range(results'))
        /\ DOMAIN results' = DOMAIN results \cup {n}
        /\ \A k \in DOMAIN results : results'[k] = results[k]
    BY <1>1, Resolving
  <2>2. UNCHANGED <<builtins, declared, depth>>  BY <1>1 DEF Resolve
  <2>3. Within(builtins, {BuiltinOwner})' /\ Within(declared, {ConfigOwner})'
    BY <2>1, <2>2 DEF MemInv, Within
  <2>4. ASSUME NEW k \in DOMAIN results'
        PROVE  \A ref \in Cells(results'[k]) : ref \in DOMAIN mem' /\ ref[1] \in OwnersOf(k)
    BY <2>1 DEF MemInv, Within
  <2> QED  BY <2>1, <2>2, <2>3, <2>4 DEF MemInv, Within
<1>2. ASSUME NEW k \in DOMAIN results, Scribble(k) PROVE MemInv'
  <2>1. DOMAIN mem' = DOMAIN mem /\ UNCHANGED <<builtins, declared, depth, results>>
    BY <1>2, Scribbling
  <2> QED  BY <2>1 DEF MemInv, Within
<1>3. CASE UNCHANGED vars  BY <1>3 DEF vars, MemInv, Within
<1> QED  BY <1>1, <1>2, <1>3 DEF Next

LEMMA MemInvAlways == Spec => []MemInv
BY MemInvInit, MemInvStep, PTL DEF Spec

--------------------------------------------------------------------------------
(* The theorems *)

\* Every spec in use leads to memory, and the built-in table, the config and the
\* results of the calls have no cell in common (builtins.go:24-28, defaults.go:7-9).
THEOREM TypeCorrect == Spec => []TypeOK
<1>1. MemInv => TypeOK
  <2> SUFFICES ASSUME MemInv PROVE TypeOK  OBVIOUS
  <2> DEFINE holders == <<builtins, declared>> \o results
             owners == [i \in DOMAIN holders |-> IF i = 1 THEN {BuiltinOwner}
                                                 ELSE IF i = 2 THEN {ConfigOwner} ELSE OwnersOf(i - 2)]
  <2>1. /\ DOMAIN holders = 1 .. Len(results) + 2 /\ Len(results) \in Nat
        /\ holders[1] = builtins /\ holders[2] = declared
        /\ \A i \in 3 .. Len(results) + 2 : i - 2 \in DOMAIN results /\ holders[i] = results[i - 2]
    BY DEF MemInv
  <2> HIDE DEF holders
  <2>2. \A i \in DOMAIN holders : Within(holders[i], owners[i])  BY <2>1 DEF MemInv
  <2>3. \A i, j \in DOMAIN holders : i # j => owners[i] \cap owners[j] = {}
    BY <2>1, OwnersDiffer
  <2>4. \A i \in DOMAIN holders : Cells(holders[i]) \subseteq DOMAIN mem  BY <2>2 DEF Within
  <2> HIDE DEF owners
  <2>5. \A i, j \in DOMAIN holders : i # j => Cells(holders[i]) \cap Cells(holders[j]) = {}
    BY <2>2, <2>3 DEF Within
  <2>6. ResolvedRecursiveMaxDepth > 0  BY DEF MemInv, ResolvedRecursiveMaxDepth
  <2> QED  BY <2>4, <2>5, <2>6 DEF TypeOK, holders
<1> QED  BY <1>1, MemInvAlways, PTL

\* A call, as the rest of the program sees it: nothing that was there looks different.
LEMMA ResolveIsolated ==
  ASSUME MemInv, Resolve
  PROVE  /\ View(mem', builtins') = View(mem, builtins)
         /\ View(mem', declared') = View(mem, declared)
         /\ \A k \in DOMAIN results : View(mem', results'[k]) = View(mem, results[k])
<1> DEFINE n == Len(results) + 1
<1>1. \A ref \in DOMAIN mem : ref[1] \notin OwnersOf(n) => mem'[ref] = mem[ref]  BY Resolving
<1>2. n \notin DOMAIN results /\ \A k \in DOMAIN results : results'[k] = results[k]  BY Resolving
<1>3. builtins' = builtins /\ declared' = declared  BY DEF Resolve
<1> HIDE DEF n
<1>4. View(mem', builtins) = View(mem, builtins)
  BY <1>1, OwnersDiffer, Untouched DEF MemInv
<1>5. View(mem', declared) = View(mem, declared)
  BY <1>1, OwnersDiffer, Untouched DEF MemInv
<1>6. ASSUME NEW k \in DOMAIN results PROVE View(mem', results[k]) = View(mem, results[k])
  <2>1. k # n  BY <1>2
  <2>2. \A ref \in DOMAIN mem : ref[1] \in OwnersOf(k) => mem'[ref] = mem[ref]
    BY <1>1, <2>1, OwnersDiffer
  <2> QED  BY <2>2, Untouched DEF MemInv
<1> QED  BY <1>2, <1>3, <1>4, <1>5, <1>6

\* What a caller does to the k-th result is seen there at most.
LEMMA ScribbleIsolated ==
  ASSUME MemInv, NEW k \in DOMAIN results, Scribble(k)
  PROVE  /\ View(mem', builtins') = View(mem, builtins)
         /\ View(mem', declared') = View(mem, declared)
         /\ results' = results
         /\ \A j \in DOMAIN results \ {k} : View(mem', results'[j]) = View(mem, results[j])
<1>1. /\ \A ref \in DOMAIN mem : ref \notin Cells(results[k]) => mem'[ref] = mem[ref]
      /\ UNCHANGED <<builtins, declared, depth, results>>
  BY Scribbling
<1>2. \A ref \in DOMAIN mem : ref[1] \notin OwnersOf(k) => mem'[ref] = mem[ref]
  BY <1>1 DEF MemInv, Within
<1>3. View(mem', builtins) = View(mem, builtins)
  BY <1>2, OwnersDiffer, Untouched DEF MemInv
<1>4. View(mem', declared) = View(mem, declared)
  BY <1>2, OwnersDiffer, Untouched DEF MemInv
<1>5. ASSUME NEW j \in DOMAIN results, j # k PROVE View(mem', results[j]) = View(mem, results[j])
  <2>1. \A ref \in DOMAIN mem : ref[1] \in OwnersOf(j) => mem'[ref] = mem[ref]
    BY <1>2, <1>5, OwnersDiffer
  <2> QED  BY <2>1, Untouched DEF MemInv
<1> QED  BY <1>1, <1>3, <1>4, <1>5

\* Neither a merge nor a caller that changes what it was given changes the built-in
\* specs, the config, or what another call returned (merge.go:12, builtins.go:24-28,
\* defaults.go:7-9).
THEOREM CopiesStayApart == Spec => CopiesAreIsolated
<1> DEFINE Apart ==
      /\ Contents'.builtins = Contents.builtins /\ Contents'.declared = Contents.declared
      /\ \A j, k \in DOMAIN results :
           j # k => Contents'.results[j] = Contents.results[j] \/ Contents'.results[k] = Contents.results[k]
      /\ results' # results =>
           \A k \in DOMAIN results : Contents'.results[k] = Contents.results[k]
<1>1. ASSUME MemInv, [Next]_vars PROVE Apart \/ UNCHANGED vars
  <2>1. /\ Contents.builtins = View(mem, builtins) /\ Contents'.builtins = View(mem', builtins')
        /\ Contents.declared = View(mem, declared) /\ Contents'.declared = View(mem', declared')
        /\ \A k \in DOMAIN results : Contents.results[k] = View(mem, results[k])
        /\ \A k \in DOMAIN results' : Contents'.results[k] = View(mem', results'[k])
    BY DEF Contents
  <2>2. CASE Resolve
    <3>1. DOMAIN results \subseteq DOMAIN results'  BY <2>2, <1>1, Resolving
    <3>2. /\ View(mem', builtins') = View(mem, builtins)
          /\ View(mem', declared') = View(mem, declared)
          /\ \A k \in DOMAIN results : View(mem', results'[k]) = View(mem, results[k])
      BY <2>2, <1>1, ResolveIsolated
    <3> QED  BY <2>1, <3>1, <3>2
  <2>3. ASSUME NEW k \in DOMAIN results, Scribble(k) PROVE Apart
    <3>1. /\ View(mem', builtins') = View(mem, builtins)
          /\ View(mem', declared') = View(mem, declared)
          /\ results' = results
          /\ \A j \in DOMAIN results \ {k} : View(mem', results'[j]) = View(mem, results[j])
      BY <2>3, <1>1, ScribbleIsolated
    <3> QED  BY <2>1, <3>1
  <2> QED  BY <2>2, <2>3, <1>1 DEF Next
<1> QED  BY <1>1, MemInvAlways, PTL DEF Spec, CopiesAreIsolated

--------------------------------------------------------------------------------
(* What the cells hold *)

\* In memory m the specs read as d does by value.
ReadsAs(m, specs, d) ==
  /\ DOMAIN specs = DOMAIN d
  /\ \A cli \in DOMAIN d : Value(m, specs[cli]) = d[cli]

AllSpecs(d) == \A cli \in DOMAIN d : IsSpec(d[cli])

\* MergeCLISpecs by value.
MergedSpecs(b, u) ==
  [cli \in DOMAIN b \cup DOMAIN u |->
     IF cli \notin DOMAIN u THEN b[cli] ELSE IF cli \notin DOMAIN b THEN u[cli]
     ELSE Merged(b[cli], u[cli])]

LEMMA AllocatedValue ==
  ASSUME NEW owner, NEW cli, NEW valueTaking, NEW recurse, \A r, q \in recurse : r = q
  PROVE  LET a == Allocate(owner, cli, valueTaking, recurse)
         IN  Value(a.written, a.spec) = [valueTaking |-> valueTaking, recurse |-> recurse]
<1> DEFINE list == <<owner, cli, "valueTaking">>
           struct == <<owner, cli, "recurse">>
           a == Allocate(owner, cli, valueTaking, recurse)
<1>1. /\ a.spec.valueTaking = list
      /\ a.spec.recurse = {struct : r \in recurse}
      /\ a.written = [ref \in {list} \cup {struct : r \in recurse} |->
                        IF ref = list THEN valueTaking ELSE CHOOSE r \in recurse : TRUE]
  BY DEF Allocate
<1>2. list # struct  OBVIOUS
<1> HIDE DEF a, list, struct
<1>3. a.written[list] = valueTaking  BY <1>1
<1>4. \A r \in recurse : a.written[struct] = r
  <2> SUFFICES ASSUME NEW r \in recurse PROVE a.written[struct] = r  OBVIOUS
  <2>1. struct \in {struct : q \in recurse}  OBVIOUS
  <2>2. a.written[struct] = CHOOSE q \in recurse : TRUE  BY <1>1, <1>2, <2>1
  <2>3. (CHOOSE q \in recurse : TRUE) \in recurse  OBVIOUS
  <2> QED  BY <2>2, <2>3
<1>5. {a.written[ref] : ref \in a.spec.recurse} = recurse
  <2>1. ASSUME NEW ref \in a.spec.recurse PROVE a.written[ref] \in recurse
    <3>1. PICK r \in recurse : ref = struct  BY <1>1
    <3> QED  BY <3>1, <1>4
  <2>2. ASSUME NEW r \in recurse PROVE \E ref \in a.spec.recurse : a.written[ref] = r
    <3>1. struct \in a.spec.recurse  BY <1>1
    <3> QED  BY <3>1, <1>4
  <2> QED  BY <2>1, <2>2
<1> QED  BY <1>1, <1>3, <1>5 DEF Value, a

\* Cells written over others hide them, and leave the rest.
LEMMA OverValue ==
  ASSUME NEW w, NEW m, NEW s
  PROVE  /\ References(s) \subseteq DOMAIN w => Value(Over(w, m), s) = Value(w, s)
         /\ References(s) \subseteq DOMAIN m \ DOMAIN w => Value(Over(w, m), s) = Value(m, s)
<1>1. ASSUME NEW m1, NEW m2, \A ref \in References(s) : m1[ref] = m2[ref]
      PROVE  Value(m1, s) = Value(m2, s)
  <2>1. m1[s.valueTaking] = m2[s.valueTaking] /\ \A ref \in s.recurse : m1[ref] = m2[ref]
    BY <1>1 DEF References
  <2>2. {m1[ref] : ref \in s.recurse} = {m2[ref] : ref \in s.recurse}  BY <2>1
  <2> QED  BY <2>1, <2>2 DEF Value
<1>2. PICK o : o = Over(w, m)  OBVIOUS
<1>3. /\ \A ref \in DOMAIN w : o[ref] = w[ref]
      /\ \A ref \in DOMAIN m \ DOMAIN w : o[ref] = m[ref]
  BY <1>2 DEF Over
<1>4. ASSUME References(s) \subseteq DOMAIN w PROVE Value(o, s) = Value(w, s)
  <2>1. \A ref \in References(s) : o[ref] = w[ref]  BY <1>3, <1>4
  <2> QED  BY <2>1, <1>1
<1>5. ASSUME References(s) \subseteq DOMAIN m \ DOMAIN w PROVE Value(o, s) = Value(m, s)
  <2>1. \A ref \in References(s) : o[ref] = m[ref]  BY <1>3, <1>5
  <2> QED  BY <2>1, <1>1
<1> QED  BY <1>2, <1>4, <1>5

\* A map of specs holds what each of them holds.
LEMMA GatheredReads ==
  ASSUME NEW specs, NEW owner, NEW d, DOMAIN specs = DOMAIN d,
         \A cli \in DOMAIN specs : FreshSpec(specs[cli], owner, cli),
         \A cli \in DOMAIN specs : Value(specs[cli].written, specs[cli].spec) = d[cli]
  PROVE  ReadsAs(Gather(specs).written, Gather(specs).spec, d)
<1> DEFINE g == Gather(specs)
<1>1. /\ g.spec = [cli \in DOMAIN specs |-> specs[cli].spec]
      /\ g.written = [ref \in UNION {DOMAIN specs[cli].written : cli \in DOMAIN specs} |->
                        specs[ref[2]].written[ref]]
  BY DEF Gather
<1> HIDE DEF g
<1>2. ASSUME NEW cli \in DOMAIN specs
      PROVE  Value(g.written, g.spec[cli]) = Value(specs[cli].written, specs[cli].spec)
  <2>1. g.spec[cli] = specs[cli].spec  BY <1>1
  <2>2. ASSUME NEW ref \in References(specs[cli].spec)
        PROVE  g.written[ref] = specs[cli].written[ref]
    <3>1. ref \in DOMAIN specs[cli].written /\ ref[2] = cli  BY DEF FreshSpec
    <3>2. ref \in UNION {DOMAIN specs[c].written : c \in DOMAIN specs}  BY <3>1
    <3> QED  BY <3>1, <3>2, <1>1
  <2>3. /\ specs[cli].spec.valueTaking \in References(specs[cli].spec)
        /\ \A ref \in specs[cli].spec.recurse : ref \in References(specs[cli].spec)
    BY DEF References
  <2>4. {g.written[ref] : ref \in specs[cli].spec.recurse}
          = {specs[cli].written[ref] : ref \in specs[cli].spec.recurse}
    BY <2>2, <2>3
  <2> QED  BY <2>1, <2>2, <2>3, <2>4 DEF Value
<1>3. DOMAIN g.spec = DOMAIN d  BY <1>1
<1> QED  BY <1>2, <1>3 DEF ReadsAs, g

LEMMA StoredReads ==
  ASSUME NEW owner, NEW d, AllSpecs(d)
  PROVE  ReadsAs(Stored(owner, d).written, Stored(owner, d).spec, d)
<1> DEFINE all == [cli \in DOMAIN d |->
                     Allocate(owner, cli, d[cli].valueTaking, d[cli].recurse)]
<1>1. \A cli \in DOMAIN all : FreshSpec(all[cli], owner, cli)  BY Allocated
<1>2. ASSUME NEW cli \in DOMAIN d PROVE Value(all[cli].written, all[cli].spec) = d[cli]
  <2>1. IsSpec(d[cli])  BY DEF AllSpecs
  <2>2. \A r, q \in d[cli].recurse : r = q  BY <2>1 DEF IsSpec
  <2>3. all[cli] = Allocate(owner, cli, d[cli].valueTaking, d[cli].recurse)  OBVIOUS
  <2>4. d[cli] = [valueTaking |-> d[cli].valueTaking, recurse |-> d[cli].recurse]
    BY <2>1 DEF IsSpec
  <2> HIDE DEF all
  <2> QED  BY <2>2, <2>3, <2>4, AllocatedValue
<1>3. DOMAIN all = DOMAIN d  OBVIOUS
<1> HIDE DEF all
<1>4. ReadsAs(Gather(all).written, Gather(all).spec, d)  BY <1>1, <1>2, <1>3, GatheredReads
<1> QED  BY <1>4 DEF Stored, all

\* A copy holds what was copied.
LEMMA ClonedReads ==
  ASSUME NEW m, NEW s, NEW owner, NEW cli, NEW v, IsSpec(v), Value(m, s) = v
  PROVE  Value(cloneSpec(m, s, owner, cli).written, cloneSpec(m, s, owner, cli).spec) = v
<1>1. m[s.valueTaking] = v.valueTaking /\ {m[ref] : ref \in s.recurse} = v.recurse
  BY DEF Value
<1>2. cloneSpec(m, s, owner, cli) = Allocate(owner, cli, v.valueTaking, v.recurse)
  BY <1>1 DEF cloneSpec
<1>3. v = [valueTaking |-> v.valueTaking, recurse |-> v.recurse] /\ \A r, q \in v.recurse : r = q
  BY DEF IsSpec
<1> QED  BY <1>2, <1>3, AllocatedValue

\* And a merge what merging by value gives.
LEMMA MergingReads ==
  ASSUME NEW m, NEW s, NEW o, NEW owner, NEW cli, NEW b, NEW u,
         IsSpec(b), IsSpec(u), Value(m, s) = b, Value(m, o) = u
  PROVE  Value(mergeSpec(m, s, o, owner, cli).written, mergeSpec(m, s, o, owner, cli).spec)
           = Merged(b, u)
<1>1. /\ m[s.valueTaking] = b.valueTaking /\ {m[ref] : ref \in s.recurse} = b.recurse
      /\ m[o.valueTaking] = u.valueTaking /\ {m[ref] : ref \in o.recurse} = u.recurse
  BY DEF Value
<1> DEFINE base == IF b.recurse = {} THEN {NoRecurse} ELSE b.recurse
<1>2. {mergeRecurse(r, m[ref]) : r \in base, ref \in o.recurse}
        = {mergeRecurse(r, x) : r \in base, x \in u.recurse}
  <2> HIDE DEF base
  <2>1. \A ref \in o.recurse : m[ref] \in u.recurse  BY <1>1
  <2>2. \A x \in u.recurse : \E ref \in o.recurse : x = m[ref]  BY <1>1
  <2> QED  BY <2>1, <2>2
<1>3. o.recurse = {} <=> u.recurse = {}  BY <1>1
<1>4. mergeSpec(m, s, o, owner, cli) = Allocate(owner, cli, Merged(b, u).valueTaking, Merged(b, u).recurse)
  <2> DEFINE mine == {m[ref] : ref \in s.recurse}
             list == dedupAppend(m[s.valueTaking], m[o.valueTaking])
             both == {mergeRecurse(r, m[ref]) : r \in IF mine = {} THEN {NoRecurse} ELSE mine,
                                                ref \in o.recurse}
             struct == IF o.recurse = {} THEN mine ELSE both
  <2>1. mergeSpec(m, s, o, owner, cli) = Allocate(owner, cli, list, struct)
    BY DEF mergeSpec
  <2>2. mine = b.recurse  BY <1>1
  <2>3. list = Merged(b, u).valueTaking  BY <1>1 DEF Merged
  <2> HIDE DEF mine, list
  <2>4. both = {mergeRecurse(r, x) : r \in base, x \in u.recurse}  BY <1>2, <2>2
  <2> HIDE DEF both, base
  <2>5. Merged(b, u).recurse = IF u.recurse = {} THEN b.recurse
                               ELSE {mergeRecurse(r, x) : r \in base, x \in u.recurse}
    BY DEF Merged, base
  <2>6. struct = Merged(b, u).recurse  BY <2>2, <2>4, <2>5, <1>3
  <2> QED  BY <2>1, <2>3, <2>6
<1>5. IsSpec(Merged(b, u))  BY MergedIsSpec
<1>6. /\ Merged(b, u) = [valueTaking |-> Merged(b, u).valueTaking, recurse |-> Merged(b, u).recurse]
      /\ \A r, q \in Merged(b, u).recurse : r = q
  BY <1>5 DEF IsSpec
<1> QED  BY <1>4, <1>6, AllocatedValue

LEMMA BuiltinsReads ==
  ASSUME NEW m, NEW owner, NEW d, AllSpecs(d), ReadsAs(m, builtins, d)
  PROVE  ReadsAs(Builtins(m, owner).written, Builtins(m, owner).spec, d)
<1> DEFINE all == [cli \in DOMAIN builtins |-> cloneSpec(m, builtins[cli], owner, cli)]
<1>1. \A cli \in DOMAIN all : FreshSpec(all[cli], owner, cli)  BY Allocated DEF cloneSpec
<1>2. DOMAIN all = DOMAIN d  BY DEF ReadsAs
<1>3. ASSUME NEW cli \in DOMAIN d PROVE Value(all[cli].written, all[cli].spec) = d[cli]
  <2>1. all[cli] = cloneSpec(m, builtins[cli], owner, cli)  BY DEF ReadsAs
  <2>2. IsSpec(d[cli]) /\ Value(m, builtins[cli]) = d[cli]  BY DEF AllSpecs, ReadsAs
  <2> HIDE DEF all
  <2> QED  BY <2>1, <2>2, ClonedReads
<1> HIDE DEF all
<1>4. ReadsAs(Gather(all).written, Gather(all).spec, d)  BY <1>1, <1>2, <1>3, GatheredReads
<1> QED  BY <1>4 DEF Builtins, all

LEMMA MergeReads ==
  ASSUME NEW m, NEW base, NEW override, NEW owner, NEW b, NEW u, AllSpecs(b), AllSpecs(u),
         ReadsAs(m, base, b), ReadsAs(m, override, u)
  PROVE  LET g == MergeCLISpecs(m, base, override, owner)
         IN  ReadsAs(g.written, g.spec, MergedSpecs(b, u))
<1> DEFINE all == [cli \in DOMAIN base \cup DOMAIN override |->
                     IF cli \notin DOMAIN override THEN cloneSpec(m, base[cli], owner, cli)
                     ELSE IF cli \notin DOMAIN base THEN cloneSpec(m, override[cli], owner, cli)
                     ELSE mergeSpec(m, base[cli], override[cli], owner, cli)]
<1>1. ASSUME NEW cli PROVE FreshSpec(mergeSpec(m, base[cli], override[cli], owner, cli), owner, cli)
  BY Allocated DEF mergeSpec
<1>2. ASSUME NEW cli, NEW s PROVE FreshSpec(cloneSpec(m, s, owner, cli), owner, cli)
  BY Allocated DEF cloneSpec
<1>3. \A cli \in DOMAIN all : FreshSpec(all[cli], owner, cli)  BY <1>1, <1>2
<1>4. DOMAIN base = DOMAIN b /\ DOMAIN override = DOMAIN u  BY DEF ReadsAs
<1>5. DOMAIN all = DOMAIN MergedSpecs(b, u)  BY <1>4 DEF MergedSpecs
<1>6. ASSUME NEW cli \in DOMAIN all
      PROVE  Value(all[cli].written, all[cli].spec) = MergedSpecs(b, u)[cli]
  <2>1. CASE cli \notin DOMAIN u
    <3>1. all[cli] = cloneSpec(m, base[cli], owner, cli)  BY <2>1, <1>4
    <3>2. IsSpec(b[cli]) /\ Value(m, base[cli]) = b[cli]  BY <2>1, <1>4 DEF AllSpecs, ReadsAs
    <3>3. MergedSpecs(b, u)[cli] = b[cli]  BY <2>1, <1>4 DEF MergedSpecs
    <3> HIDE DEF all
    <3> QED  BY <3>1, <3>2, <3>3, ClonedReads
  <2>2. CASE cli \in DOMAIN u /\ cli \notin DOMAIN b
    <3>1. all[cli] = cloneSpec(m, override[cli], owner, cli)  BY <2>2, <1>4
    <3>2. IsSpec(u[cli]) /\ Value(m, override[cli]) = u[cli]  BY <2>2, <1>4 DEF AllSpecs, ReadsAs
    <3>3. MergedSpecs(b, u)[cli] = u[cli]  BY <2>2, <1>4 DEF MergedSpecs
    <3> HIDE DEF all
    <3> QED  BY <3>1, <3>2, <3>3, ClonedReads
  <2>3. CASE cli \in DOMAIN u /\ cli \in DOMAIN b
    <3>1. all[cli] = mergeSpec(m, base[cli], override[cli], owner, cli)  BY <2>3, <1>4
    <3>2. /\ IsSpec(b[cli]) /\ Value(m, base[cli]) = b[cli]
          /\ IsSpec(u[cli]) /\ Value(m, override[cli]) = u[cli]
      BY <2>3, <1>4 DEF AllSpecs, ReadsAs
    <3>3. MergedSpecs(b, u)[cli] = Merged(b[cli], u[cli])  BY <2>3, <1>4 DEF MergedSpecs
    <3> HIDE DEF all
    <3> QED  BY <3>1, <3>2, <3>3, MergingReads
  <2> QED  BY <2>1, <2>2, <2>3
<1> HIDE DEF all
<1>7. ReadsAs(Gather(all).written, Gather(all).spec, MergedSpecs(b, u))
  BY <1>3, <1>5, <1>6, GatheredReads
<1> QED  BY <1>7 DEF MergeCLISpecs, all

\* What ResolvedCLISpecs returns reads as the declared specs merged into the built-in ones.
LEMMA ResolvedReads ==
  ASSUME NEW n, NEW r, r = ResolvedCLISpecs(n), NEW b, NEW u, AllSpecs(b), AllSpecs(u),
         ReadsAs(mem, builtins, b), ReadsAs(mem, declared, u), Within(declared, {ConfigOwner})
  PROVE  ReadsAs(r.written, r.spec, MergedSpecs(b, u))
<1> DEFINE base == Builtins(mem, BaseOwner(n))
           m == Over(base.written, mem)
           merged == MergeCLISpecs(m, base.spec, declared, ResultOwner(n))
<1>1. ReadsAs(base.written, base.spec, b)  BY BuiltinsReads
<1>2. Fresh(base, BaseOwner(n)) /\ Fresh(merged, ResultOwner(n))  BY BuiltinsFresh, MergedFresh
<1>3. CASE DOMAIN declared = {}
  <2>1. r = base  BY <1>3 DEF ResolvedCLISpecs
  <2>2. DOMAIN u = {}  BY <1>3 DEF ReadsAs
  <2>3. DOMAIN MergedSpecs(b, u) = DOMAIN b /\ \A cli \in DOMAIN b : MergedSpecs(b, u)[cli] = b[cli]
    BY <2>2 DEF MergedSpecs
  <2> HIDE DEF base
  <2> QED  BY <2>1, <2>3, <1>1 DEF ReadsAs
<1>4. CASE DOMAIN declared # {}
  <2>1. r = [spec |-> merged.spec, written |-> Over(merged.written, base.written)]
    BY <1>4 DEF ResolvedCLISpecs
  <2>2. BaseOwner(n) # ConfigOwner  BY DEF BaseOwner, ConfigOwner
  <2> HIDE DEF base
  <2>3. ReadsAs(m, base.spec, b)
    <3>1. ASSUME NEW cli \in DOMAIN base.spec PROVE References(base.spec[cli]) \subseteq DOMAIN base.written
      BY <1>2 DEF Fresh, Cells
    <3> QED  BY <3>1, <1>1, OverValue DEF ReadsAs
  <2>4. ReadsAs(m, declared, u)
    <3>1. ASSUME NEW cli \in DOMAIN declared
          PROVE  References(declared[cli]) \subseteq DOMAIN mem \ DOMAIN base.written
      BY <1>2, <2>2 DEF Fresh, Within, Cells
    <3> QED  BY <3>1, OverValue DEF ReadsAs
  <2> HIDE DEF m
  <2>5. ReadsAs(merged.written, merged.spec, MergedSpecs(b, u))  BY <2>3, <2>4, MergeReads
  <2> HIDE DEF merged
  <2>6. ASSUME NEW cli \in DOMAIN merged.spec
        PROVE  References(merged.spec[cli]) \subseteq DOMAIN merged.written
    BY <1>2 DEF Fresh, Cells
  <2>7. ReadsAs(Over(merged.written, base.written), merged.spec, MergedSpecs(b, u))
    BY <2>5, <2>6, OverValue DEF ReadsAs
  <2> QED  BY <2>1, <2>7
<1> QED  BY <1>3, <1>4

--------------------------------------------------------------------------------
(* The union *)

\* The built-in specs and the config stay what they were when they were loaded: valid,
\* and as the file says.
ContentInv ==
  /\ ReadsAs(mem, builtins, Embedded)
  /\ \A cli \in DOMAIN Embedded : Validate(Embedded[cli])
  /\ \E d \in Declared : ReadsAs(mem, declared, d) /\ \A cli \in DOMAIN d : Validate(d[cli])

LEMMA ContentInit == Init => ContentInv
<1> SUFFICES ASSUME Init PROVE ContentInv  OBVIOUS
<1>1. PICK d \in Declared :
        /\ \A cli \in DOMAIN d : Validate(d[cli])
        /\ LET b == Stored(BuiltinOwner, Embedded)
               c == Stored(ConfigOwner, d)
           IN  builtins = b.spec /\ declared = c.spec /\ mem = Over(b.written, c.written)
  BY DEF Init
<1>2. PICK b : b = Stored(BuiltinOwner, Embedded)  OBVIOUS
<1>3. PICK c : c = Stored(ConfigOwner, d)  OBVIOUS
<1>4. builtins = b.spec /\ declared = c.spec /\ mem = Over(b.written, c.written)
  BY <1>1, <1>2, <1>3
<1>5. AllSpecs(Embedded) /\ AllSpecs(d)  BY SpecsAssumption DEF AllSpecs
<1>6. ReadsAs(b.written, b.spec, Embedded) /\ ReadsAs(c.written, c.spec, d)
  BY <1>2, <1>3, <1>5, StoredReads
<1>7. Fresh(b, BuiltinOwner) /\ Fresh(c, ConfigOwner) /\ BuiltinOwner # ConfigOwner
  BY <1>2, <1>3, StoredFresh, OwnersDiffer
<1>8. ReadsAs(mem, builtins, Embedded)
  <2>1. ASSUME NEW cli \in DOMAIN b.spec PROVE References(b.spec[cli]) \subseteq DOMAIN b.written
    BY <1>7 DEF Fresh, Cells
  <2> QED  BY <2>1, <1>4, <1>6, OverValue DEF ReadsAs
<1>9. ReadsAs(mem, declared, d)
  <2>1. ASSUME NEW cli \in DOMAIN c.spec
        PROVE  References(c.spec[cli]) \subseteq DOMAIN c.written \ DOMAIN b.written
    BY <1>7 DEF Fresh, Cells
  <2> QED  BY <2>1, <1>4, <1>6, OverValue DEF ReadsAs
<1>10. \A cli \in DOMAIN Embedded : Validate(Embedded[cli])  BY DEF Init
<1> QED  BY <1>1, <1>8, <1>9, <1>10 DEF ContentInv

\* What looks the same reads the same.
LEMMA SameReading ==
  ASSUME NEW m1, NEW m2, NEW s1, NEW s2, NEW d, View(m2, s2) = View(m1, s1), ReadsAs(m1, s1, d)
  PROVE  ReadsAs(m2, s2, d)
<1>1. DOMAIN View(m1, s1) = DOMAIN s1 /\ DOMAIN View(m2, s2) = DOMAIN s2  BY DEF View
<1>2. \A cli \in DOMAIN s1 : View(m1, s1)[cli] = Value(m1, s1[cli])  BY DEF View
<1>3. \A cli \in DOMAIN s2 : View(m2, s2)[cli] = Value(m2, s2[cli])  BY DEF View
<1> QED  BY <1>1, <1>2, <1>3 DEF ReadsAs

LEMMA ContentStep == MemInv /\ ContentInv /\ [Next]_vars => ContentInv'
<1> SUFFICES ASSUME MemInv, ContentInv, [Next]_vars PROVE ContentInv'  OBVIOUS
<1>1. View(mem', builtins') = View(mem, builtins) /\ View(mem', declared') = View(mem, declared)
  <2>1. CASE Resolve  BY <2>1, ResolveIsolated
  <2>2. ASSUME NEW k \in DOMAIN results, Scribble(k)
        PROVE  View(mem', builtins') = View(mem, builtins) /\ View(mem', declared') = View(mem, declared)
    BY <2>2, ScribbleIsolated
  <2>3. CASE UNCHANGED vars  BY <2>3 DEF vars
  <2> QED  BY <2>1, <2>2, <2>3 DEF Next
<1>2. ReadsAs(mem', builtins', Embedded)  BY <1>1, SameReading DEF ContentInv
<1>3. PICK d \in Declared : ReadsAs(mem, declared, d) /\ \A cli \in DOMAIN d : Validate(d[cli])
  BY DEF ContentInv
<1>4. ReadsAs(mem', declared', d)  BY <1>1, <1>3, SameReading
<1> QED  BY <1>2, <1>3, <1>4 DEF ContentInv

LEMMA ContentAlways == Spec => []ContentInv
<1>1. Init => ContentInv  BY ContentInit
<1>2. MemInv /\ ContentInv /\ [Next]_vars => ContentInv'  BY ContentStep
<1> QED  BY <1>1, <1>2, MemInvAlways, PTL DEF Spec

\* A copy is the union with nothing.
LEMMA UnionWithNothing ==
  ASSUME NEW s
  PROVE  IsUnion(s, s, NoSpec) /\ IsUnion(s, NoSpec, s)
<1>1. Flags(NoSpec) = {} /\ RecurseFlags(NoSpec) = {} /\ ~Terminates(NoSpec) /\ Verbs(NoSpec) = {}
  BY EmptyList DEF NoSpec, Flags, RecurseFlags, Terminates, Verbs
<1> QED  BY <1>1 DEF IsUnion

LEMMA MergedAmong ==
  ASSUME NEW b, NEW u, AllSpecs(b), AllSpecs(u),
         \A cli \in DOMAIN b : Validate(b[cli]), \A cli \in DOMAIN u : Validate(u[cli]),
         NEW cli \in DOMAIN b \cup DOMAIN u
  PROVE  /\ IsUnion(MergedSpecs(b, u)[cli], Among(b, cli), Among(u, cli))
         /\ Validate(MergedSpecs(b, u)[cli])
<1>1. CASE cli \notin DOMAIN u
  <2>1. MergedSpecs(b, u)[cli] = b[cli] /\ Among(b, cli) = b[cli] /\ Among(u, cli) = NoSpec
    BY <1>1 DEF MergedSpecs, Among
  <2> QED  BY <1>1, <2>1, UnionWithNothing
<1>2. CASE cli \in DOMAIN u /\ cli \notin DOMAIN b
  <2>1. MergedSpecs(b, u)[cli] = u[cli] /\ Among(u, cli) = u[cli] /\ Among(b, cli) = NoSpec
    BY <1>2 DEF MergedSpecs, Among
  <2> QED  BY <1>2, <2>1, UnionWithNothing
<1>3. CASE cli \in DOMAIN u /\ cli \in DOMAIN b
  <2>1. /\ MergedSpecs(b, u)[cli] = Merged(b[cli], u[cli])
        /\ Among(u, cli) = u[cli] /\ Among(b, cli) = b[cli]
    BY <1>3 DEF MergedSpecs, Among
  <2>2. IsSpec(b[cli]) /\ IsSpec(u[cli])  BY <1>3 DEF AllSpecs
  <2> QED  BY <1>3, <2>1, <2>2, MergedIsUnion, MergedIsValid
<1> QED  BY <1>1, <1>2, <1>3

\* A call is about to return, by value, the built-in specs merged with the declared d.
ResolvesTo(d) ==
  LET merged == View(mem', results'[Len(results')])
      user == Contents.declared
  IN  /\ AllSpecs(Embedded) /\ AllSpecs(d) /\ \A cli \in DOMAIN d : Validate(d[cli])
      /\ DOMAIN user = DOMAIN d /\ \A cli \in DOMAIN d : user[cli] = d[cli]
      /\ DOMAIN merged = DOMAIN Embedded \cup DOMAIN d
      /\ \A cli \in DOMAIN merged : merged[cli] = MergedSpecs(Embedded, d)[cli]

LEMMA ResolvedAsDeclared ==
  ASSUME MemInv, ContentInv, Resolve
  PROVE  \E d \in Declared : ResolvesTo(d)
<1>1. PICK n : n = Len(results) + 1  OBVIOUS
<1>2. PICK r : r = ResolvedCLISpecs(n)  OBVIOUS
<1>3. results' = Append(results, r.spec) /\ mem' = Over(r.written, mem)
  BY <1>1, <1>2 DEF Resolve
<1>4. results'[Len(results')] = r.spec  BY <1>3 DEF MemInv
<1>5. PICK d \in Declared : ReadsAs(mem, declared, d) /\ \A cli \in DOMAIN d : Validate(d[cli])
  BY DEF ContentInv
<1>6. AllSpecs(Embedded) /\ AllSpecs(d)  BY SpecsAssumption DEF AllSpecs
<1>7. ReadsAs(r.written, r.spec, MergedSpecs(Embedded, d))
  BY <1>2, <1>5, <1>6, ResolvedReads DEF MemInv, ContentInv
<1>8. ReadsAs(mem', r.spec, MergedSpecs(Embedded, d))
  <2>1. Cells(r.spec) \subseteq DOMAIN r.written  BY <1>2, Resolved
  <2>2. ASSUME NEW cli \in DOMAIN r.spec PROVE References(r.spec[cli]) \subseteq DOMAIN r.written
    BY <2>1 DEF Cells
  <2> QED  BY <1>3, <1>7, <2>2, OverValue DEF ReadsAs
<1>9. PICK merged : merged = View(mem', r.spec)  OBVIOUS
<1>10. /\ DOMAIN merged = DOMAIN Embedded \cup DOMAIN d
       /\ \A cli \in DOMAIN merged : merged[cli] = MergedSpecs(Embedded, d)[cli]
  BY <1>8, <1>9 DEF View, ReadsAs, MergedSpecs
<1>11. PICK user : user = Contents.declared  OBVIOUS
<1>12. DOMAIN user = DOMAIN d /\ \A cli \in DOMAIN d : user[cli] = d[cli]
  BY <1>5, <1>11 DEF Contents, View, ReadsAs
<1> QED  BY <1>4, <1>5, <1>6, <1>9, <1>10, <1>11, <1>12 DEF ResolvesTo

\* Every call, the last as the first, returns the union of the built-in specs as they
\* are embedded and the declared ones, in specs that are valid, whatever happened to
\* the results of earlier calls (merge.go:3-13, defaults.go:7-15).
THEOREM ResolvesAreUnions == Spec => EveryResolveIsUnion
<1> DEFINE Union ==
      results' # results =>
        LET merged == View(mem', results'[Len(results')])
            user == Contents.declared
        IN  /\ DOMAIN merged = DOMAIN Embedded \cup DOMAIN user
            /\ \A cli \in DOMAIN merged :
                 /\ IsUnion(merged[cli], Among(Embedded, cli), Among(user, cli))
                 /\ Validate(merged[cli])
<1>1. ASSUME MemInv, ContentInv, [Next]_vars PROVE Union
  <2>1. CASE Resolve
    <3>1. PICK d \in Declared : ResolvesTo(d)
      BY <1>1, <2>1, ResolvedAsDeclared
    <3>2. PICK merged : merged = View(mem', results'[Len(results')])  OBVIOUS
    <3>3. PICK user : user = Contents.declared  OBVIOUS
    <3>4. \A cli : Among(user, cli) = Among(d, cli)  BY <3>1, <3>3 DEF Among, ResolvesTo
    <3>5. \A cli \in DOMAIN merged :
             /\ IsUnion(merged[cli], Among(Embedded, cli), Among(user, cli))
             /\ Validate(merged[cli])
      BY <3>1, <3>2, <3>4, <1>1, MergedAmong DEF ContentInv, ResolvesTo
    <3> QED  BY <3>1, <3>2, <3>3, <3>5 DEF ResolvesTo
  <2>2. ASSUME NEW k \in DOMAIN results, Scribble(k) PROVE Union
    BY <2>2, Scribbling
  <2>3. CASE UNCHANGED vars  BY <2>3 DEF vars
  <2> QED  BY <2>1, <2>2, <2>3, <1>1 DEF Next
<1>2. Union => [Union]_vars  OBVIOUS
<1> QED  BY <1>1, MemInvAlways, ContentAlways, PTL DEF Spec, EveryResolveIsUnion

--------------------------------------------------------------------------------
(* The texts found in a line *)

\* Both readers know of the line's flags alike which ones take a value.
Alike(ws, vt, wider) ==
  \A i \in 1 .. Len(ws) :
    isFlagToken(ws[i]) => (Shape[ws[i]].name \in vt <=> Shape[ws[i]].name \in wider)

LEMMA ConsumedAlike ==
  ASSUME NEW ws, NEW vt, NEW wider, Alike(ws, vt, wider), NEW i \in 1 .. Len(ws), isFlagToken(ws[i])
  PROVE  consumeFlag(ws, i, vt) = consumeFlag(ws, i, wider)
BY DEF consumeFlag, Alike

\* Then they find the same inner commands (recurse.go:199-219).
LEMMA StartsAlike ==
  ASSUME NEW ws, HasLength(ws), NEW vt, NEW wider, Alike(ws, vt, wider)
  PROVE  \A j \in 2 .. Len(ws) + 2 : findInnerStart(ws, j, vt) = findInnerStart(ws, j, wider)
<1> DEFINE n == Len(ws) + 1
<1>1. PICK f : Starts(f, ws, vt) /\ \A j \in Nat : findInnerStart(ws, j, vt) = f[j]
  BY StartUnfolds
<1>2. PICK g : Starts(g, ws, wider) /\ \A j \in Nat : findInnerStart(ws, j, wider) = g[j]
  BY StartUnfolds
<1> DEFINE Good == {j \in 2 .. n + 1 : f[j] = g[j]}
<1>3. Len(ws) \in Nat /\ n \in Nat /\ n + 1 = Len(ws) + 2 /\ \A j \in 2 .. n + 1 : j \in Nat
  BY DEF HasLength
<1>4. ASSUME NEW i \in 2 .. n + 1, \A j \in 2 .. n + 1 : i < j => j \in Good
      PROVE  i \in Good
  <2>1. /\ f[i] = IF i > Len(ws) THEN Len(ws) + 1
                  ELSE IF isFlagToken(ws[i]) THEN f[consumeFlag(ws, i, vt)] ELSE i
        /\ g[i] = IF i > Len(ws) THEN Len(ws) + 1
                  ELSE IF isFlagToken(ws[i]) THEN g[consumeFlag(ws, i, wider)] ELSE i
    BY <1>1, <1>2, <1>3 DEF Starts
  <2>2. CASE i > Len(ws) \/ ~isFlagToken(ws[i])
    BY <2>1, <2>2
  <2>3. CASE ~(i > Len(ws)) /\ isFlagToken(ws[i])
    <3>1. consumeFlag(ws, i, vt) = consumeFlag(ws, i, wider)
      BY <1>3, <2>3, ConsumedAlike
    <3>2. consumeFlag(ws, i, vt) \in {i + 1, i + 2}
      BY <1>3, Consumed
    <3>3. consumeFlag(ws, i, vt) \in 2 .. n + 1 /\ i < consumeFlag(ws, i, vt)
      BY <1>3, <2>3, <3>2
    <3>4. f[consumeFlag(ws, i, vt)] = g[consumeFlag(ws, i, vt)]
      BY <1>4, <3>3
    <3> QED
      BY <2>1, <2>3, <3>1, <3>4
  <2> QED
    BY <2>2, <2>3
<1>5. \A j \in 2 .. n + 1 : j \in Good
  <2> HIDE DEF Good, n
  <2>1. n \in Nat
    BY <1>3
  <2>2. \A i \in 2 .. n + 1 : (\A j \in 2 .. n + 1 : i < j => j \in Good) => i \in Good
    BY <1>4
  <2> QED
    BY <2>1, <2>2, FromTheEnd
<1> QED
  BY <1>1, <1>2, <1>3, <1>5

\* What one reader finds after a verb, so does one who knows more verbs.
LEMMA ScansAlike ==
  ASSUME NEW ws, HasLength(ws), NEW vt, NEW wider, Alike(ws, vt, wider),
         NEW subs, NEW more, Skips(subs), Skips(more),
         \A v \in DOMAIN subs : v \in DOMAIN more /\ more[v] = subs[v]
  PROVE  LET at == extractSubcommandTarget(ws, vt, subs)
         IN  at.ok => extractSubcommandTarget(ws, wider, more) = at
<1> DEFINE n == Len(ws) + 1
           Kept(at, bt) == at.ok => bt = at
<1>1. PICK f : Scans(f, ws, vt, subs) /\ extractSubcommandTarget(ws, vt, subs) = f[<<2, NoVerb>>]
  BY ScanUnfolds
<1>2. PICK g : Scans(g, ws, wider, more) /\ extractSubcommandTarget(ws, wider, more) = g[<<2, NoVerb>>]
  BY ScanUnfolds
<1> DEFINE Good == {i \in 2 .. n + 1 : \A k \in Int : Kept(f[<<i, k>>], g[<<i, k>>])}
<1>3. Len(ws) \in Nat /\ n \in Nat /\ n + 1 = Len(ws) + 2 /\ \A j \in 2 .. n + 1 : j \in Nat
  BY DEF HasLength
<1>4. ASSUME NEW i \in 2 .. n + 1, \A j \in 2 .. n + 1 : i < j => j \in Good
      PROVE  i \in Good
  <2> SUFFICES ASSUME NEW k \in Int PROVE Kept(f[<<i, k>>], g[<<i, k>>])
    OBVIOUS
  <2> DEFINE left == IF k = NoVerb THEN subs[ws[i]] ELSE k - 1
             left2 == IF k = NoVerb THEN more[ws[i]] ELSE k - 1
  <2>1. f[<<i, k>>] =
             IF i > Len(ws) THEN IF k = NoVerb THEN NotFound ELSE TooShort
             ELSE IF Shape[ws[i]].kind = "terminator"
               THEN IF k = NoVerb THEN NotFound ELSE IF k = 0 THEN FoundAt(i) ELSE TooShort
             ELSE IF isFlagToken(ws[i]) THEN f[<<consumeFlag(ws, i, vt), k>>]
             ELSE IF k = NoVerb /\ ws[i] \notin DOMAIN subs THEN NotFound
             ELSE IF left = 0 THEN FoundAt(findInnerStart(ws, i + 1, vt)) ELSE f[<<i + 1, left>>]
    BY <1>1, <1>3 DEF Scans
  <2>2. g[<<i, k>>] =
             IF i > Len(ws) THEN IF k = NoVerb THEN NotFound ELSE TooShort
             ELSE IF Shape[ws[i]].kind = "terminator"
               THEN IF k = NoVerb THEN NotFound ELSE IF k = 0 THEN FoundAt(i) ELSE TooShort
             ELSE IF isFlagToken(ws[i]) THEN g[<<consumeFlag(ws, i, wider), k>>]
             ELSE IF k = NoVerb /\ ws[i] \notin DOMAIN more THEN NotFound
             ELSE IF left2 = 0 THEN FoundAt(findInnerStart(ws, i + 1, wider)) ELSE g[<<i + 1, left2>>]
    BY <1>2, <1>3 DEF Scans
  <2>3. ~NotFound.ok
    BY DEF NotFound
  <2>4. CASE i > Len(ws) \/ Shape[ws[i]].kind = "terminator"
    BY <2>1, <2>2, <2>4
  <2>5. CASE ~(i > Len(ws)) /\ Shape[ws[i]].kind # "terminator" /\ isFlagToken(ws[i])
    <3>1. consumeFlag(ws, i, vt) = consumeFlag(ws, i, wider)
      BY <1>3, <2>5, ConsumedAlike
    <3>2. consumeFlag(ws, i, vt) \in {i + 1, i + 2}
      BY <1>3, Consumed
    <3>3. consumeFlag(ws, i, vt) \in 2 .. n + 1 /\ i < consumeFlag(ws, i, vt)
      BY <1>3, <2>5, <3>2
    <3> HIDE DEF Kept, n
    <3>4. Kept(f[<<consumeFlag(ws, i, vt), k>>], g[<<consumeFlag(ws, i, vt), k>>])
      BY <1>4, <3>3
    <3> QED
      BY <2>1, <2>2, <2>5, <3>1, <3>4
  <2>6. CASE ~(i > Len(ws)) /\ Shape[ws[i]].kind # "terminator" /\ ~isFlagToken(ws[i])
    <3>1. CASE k = NoVerb /\ ws[i] \notin DOMAIN subs
      BY <2>1, <2>3, <2>6, <3>1
    <3>2. CASE ~(k = NoVerb /\ ws[i] \notin DOMAIN subs)
      <4>1. left2 = left /\ left \in Int /\ ~(k = NoVerb /\ ws[i] \notin DOMAIN more)
        BY <3>2 DEF Skips
      <4>2. i + 1 \in 2 .. n + 1 /\ i < i + 1
        BY <1>3, <2>6
      <4>3. findInnerStart(ws, i + 1, vt) = findInnerStart(ws, i + 1, wider)
        BY <1>3, <4>2, StartsAlike
      <4> HIDE DEF Kept, n, left, left2
      <4>4. Kept(f[<<i + 1, left>>], g[<<i + 1, left>>])
        BY <1>4, <4>1, <4>2
      <4>5. CASE left = 0
        <5>1. f[<<i, k>>] = g[<<i, k>>]
          BY <2>1, <2>2, <2>6, <3>2, <4>1, <4>3, <4>5
        <5> QED
          BY <5>1 DEF Kept
      <4>6. CASE left # 0
        <5>1. f[<<i, k>>] = f[<<i + 1, left>>] /\ g[<<i, k>>] = g[<<i + 1, left>>]
          BY <2>1, <2>2, <2>6, <3>2, <4>1, <4>6
        <5> QED
          BY <4>4, <5>1
      <4> QED
        BY <4>5, <4>6
    <3> QED
      BY <3>1, <3>2
  <2> QED
    BY <2>4, <2>5, <2>6
<1>5. \A i \in 2 .. n + 1 : i \in Good
  <2> HIDE DEF Good, n
  <2>1. n \in Nat
    BY <1>3
  <2>2. \A i \in 2 .. n + 1 : (\A j \in 2 .. n + 1 : i < j => j \in Good) => i \in Good
    BY <1>4
  <2> QED
    BY <2>1, <2>2, FromTheEnd
<1>6. 2 \in 2 .. n + 1 /\ NoVerb \in Int
  BY <1>3 DEF NoVerb
<1>7. Kept(f[<<2, NoVerb>>], g[<<2, NoVerb>>])
  BY <1>5, <1>6
<1> QED
  BY <1>1, <1>2, <1>7

\* A reader who asks for more of a line, and reads its flags alike, finds more texts.
LEMMA MoreIsFound ==
  ASSUME NEW ws, HasLength(ws), NEW vt, NEW wider, Alike(ws, vt, wider),
         NEW r, NEW q, IsList(r.flags), IsList(q.flags), Range(r.flags) \subseteq Range(q.flags),
         r.terminator => q.terminator, Skips(r.subcommands), Skips(q.subcommands),
         \A v \in DOMAIN r.subcommands : v \in DOMAIN q.subcommands /\ q.subcommands[v] = r.subcommands[v]
  PROVE  Range(extractRecursionTargets(ws, r, vt).targets) \subseteq Range(extractRecursionTargets(ws, q, wider).targets)
<1> DEFINE texts == TextsOf(ws, r, vt)
           more == TextsOf(ws, q, wider)
           m == Len(r.flags)
           l == Len(q.flags)
           at == extractSubcommandTarget(ws, vt, r.subcommands)
           bt == extractSubcommandTarget(ws, wider, q.subcommands)
<1>1. Counted(texts, ws, r, vt) /\ Counted(more, ws, q, wider)
  BY TextsCounted DEF IsList, Range
<1>2. at.ok => bt = at
  BY ScansAlike
<1> HIDE DEF texts, more
<1>3. /\ m \in Nat /\ DOMAIN r.flags = 1 .. m /\ DOMAIN texts = 1 .. m + 2
      /\ \A n \in 1 .. m : texts[n] = <<lookupFlag(ws, r.flags[n]).value>>
      /\ texts[m + 1] = (IF r.terminator THEN terminatorTail(ws) ELSE << >>)
      /\ texts[m + 2] = subcommandTail(ws, at)
  BY <1>1 DEF Counted
<1>4. /\ l \in Nat /\ DOMAIN q.flags = 1 .. l /\ DOMAIN more = 1 .. l + 2
      /\ \A n \in 1 .. l : more[n] = <<lookupFlag(ws, q.flags[n]).value>>
      /\ more[l + 1] = (IF q.terminator THEN terminatorTail(ws) ELSE << >>)
      /\ more[l + 2] = subcommandTail(ws, bt)
  BY <1>1 DEF Counted
<1> HIDE DEF m, l, at, bt
<1>5. ASSUME NEW n \in 1 .. m + 2, texts[n] \notin {<< >>, <<EmptyWord>>}
      PROVE  \E k \in 1 .. l + 2 : more[k] = texts[n]
  <2>1. CASE n \in 1 .. m
    <3>1. PICK k \in DOMAIN q.flags : q.flags[k] = r.flags[n]
      BY <1>3, <2>1 DEF Range
    <3>2. k \in 1 .. l /\ k \in 1 .. l + 2
      BY <1>4
    <3> QED
      BY <1>3, <1>4, <2>1, <3>1, <3>2
  <2>2. CASE n = m + 1
    <3>1. r.terminator
      BY <1>3, <1>5, <2>2
    <3>2. l + 1 \in 1 .. l + 2
      BY <1>4
    <3> QED
      BY <1>3, <1>4, <2>2, <3>1, <3>2
  <2>3. CASE n = m + 2
    <3>1. at.ok
      BY <1>3, <1>5, <2>3 DEF subcommandTail
    <3>2. l + 2 \in 1 .. l + 2
      BY <1>4
    <3> QED
      BY <1>2, <1>3, <1>4, <2>3, <3>1, <3>2
  <2> QED
    BY <1>3, <2>1, <2>2, <2>3
<1>6. /\ ElementsOf(nonEmpty(texts)) = {texts[n] : n \in {n \in 1 .. m + 2 : texts[n] \notin {<< >>, <<EmptyWord>>}}}
      /\ ElementsOf(nonEmpty(more)) = {more[n] : n \in {n \in 1 .. l + 2 : more[n] \notin {<< >>, <<EmptyWord>>}}}
  BY <1>3, <1>4, TextsAreTargets
<1>7. ElementsOf(nonEmpty(texts)) \subseteq ElementsOf(nonEmpty(more))
  <2> SUFFICES ASSUME NEW n \in 1 .. m + 2, texts[n] \notin {<< >>, <<EmptyWord>>}
               PROVE  texts[n] \in ElementsOf(nonEmpty(more))
    BY <1>6
  <2> QED
    BY <1>5, <1>6
<1> QED
  BY <1>7, Targets DEF texts, more, ElementsOf, Range

\* What one RecurseSpec finds.
TextsUnder(ws, r, flags) ==
  Range(extractRecursionTargets(ws, r, flags \cup {r.flags[n].name : n \in DOMAIN r.flags}).targets)

\* A union with what does not reread the line finds what was found before.
LEMMA UnionFindsMore ==
  ASSUME NEW b, NEW u, NEW s, IsSpec(b), IsSpec(s), Validate(b), Validate(s), IsUnion(s, b, u),
         NEW ws, IsList(ws), ~Rereads(u, b, ws)
  PROVE  Found(b, ws) \subseteq Found(s, ws)
<1>a. /\ Found(b, ws) = UNION {TextsUnder(ws, r, Flags(b)) : r \in b.recurse}
      /\ Found(s, ws) = UNION {TextsUnder(ws, q, Flags(s)) : q \in s.recurse}
  BY Zenon DEF Found, TextsUnder
<1> SUFFICES ASSUME NEW r \in b.recurse
             PROVE  \E q \in s.recurse : TextsUnder(ws, r, Flags(b)) \subseteq TextsUnder(ws, q, Flags(s))
  BY <1>a
<1>1. /\ IsList(r.flags) /\ r.terminator \in BOOLEAN
      /\ RecurseFlags(b) = Range(r.flags) /\ (Terminates(b) <=> r.terminator)
      /\ Verbs(b) = {<<v, r.subcommands[v]>> : v \in DOMAIN r.subcommands}
      /\ \A v \in DOMAIN r.subcommands : r.subcommands[v] \in Int
  BY BaseRecurse
<1>2. /\ Flags(s) = Flags(b) \cup Flags(u)
      /\ RecurseFlags(s) = RecurseFlags(b) \cup RecurseFlags(u)
      /\ (Terminates(s) <=> Terminates(b) \/ Terminates(u))
      /\ \A v \in Verbs(b) : v \in Verbs(s) \/ \E w \in Verbs(u) : w[1] = v[1]
      /\ Verbs(u) \subseteq Verbs(s)
  BY DEF IsUnion
<1>3. PICK q : q \in s.recurse
  <2>1. r.flags # << >> \/ r.terminator \/ DOMAIN r.subcommands # {}
    BY DEF Validate
  <2>2. RecurseFlags(s) # {} \/ Terminates(s) \/ Verbs(s) # {}
    BY <1>1, <1>2, <2>1, NotEmpty
  <2> QED
    BY <2>2 DEF RecurseFlags, Terminates, Verbs
<1>4. /\ IsList(q.flags) /\ q.terminator \in BOOLEAN
      /\ RecurseFlags(s) = Range(q.flags) /\ (Terminates(s) <=> q.terminator)
      /\ Verbs(s) = {<<v, q.subcommands[v]>> : v \in DOMAIN q.subcommands}
      /\ \A v \in DOMAIN q.subcommands : q.subcommands[v] \in Int
  BY <1>3, BaseRecurse
<1>5. Skips(r.subcommands) /\ Skips(q.subcommands)
  <2>1. \A v \in DOMAIN r.subcommands : r.subcommands[v] >= 0
    BY Zenon DEF Validate
  <2>2. \A v \in DOMAIN q.subcommands : q.subcommands[v] >= 0
    BY <1>3, Zenon DEF Validate
  <2> QED
    BY <1>1, <1>4, <2>1, <2>2 DEF Skips
<1>6. ASSUME NEW v \in DOMAIN r.subcommands
      PROVE  v \in DOMAIN q.subcommands /\ q.subcommands[v] = r.subcommands[v]
  <2>1. <<v, r.subcommands[v]>> \in Verbs(b)
    BY <1>1
  <2>2. \A w \in Verbs(u) : w[1] = v => w = <<v, r.subcommands[v]>>
    BY <2>1 DEF Rereads
  <2>3. <<v, r.subcommands[v]>> \in Verbs(s)
    BY <1>2, <2>1, <2>2
  <2> QED
    BY <1>4, <2>3
<1> DEFINE vt == Flags(b) \cup {r.flags[n].name : n \in DOMAIN r.flags}
           wider == Flags(s) \cup {q.flags[n].name : n \in DOMAIN q.flags}
<1>7. /\ vt = Flags(b) \cup {k.name : k \in RecurseFlags(b)}
      /\ wider = Flags(s) \cup {k.name : k \in RecurseFlags(s)}
  BY <1>1, <1>4 DEF Range
<1> HIDE DEF vt, wider
<1>8. Alike(ws, vt, wider) /\ HasLength(ws)
  <2>1. Len(ws) \in Nat /\ DOMAIN ws = 1 .. Len(ws)
    BY DEF IsList
  <2>2. ASSUME NEW i \in 1 .. Len(ws), isFlagToken(ws[i])
        PROVE  Shape[ws[i]].name \notin Flags(u) \cup {k.name : k \in RecurseFlags(u)}
    BY <2>1, <2>2 DEF Rereads
  <2>3. wider = vt \cup Flags(u) \cup {k.name : k \in RecurseFlags(u)}
    BY <1>2, <1>7
  <2> QED
    BY <2>1, <2>2, <2>3 DEF Alike, HasLength
<1>9. Range(r.flags) \subseteq Range(q.flags) /\ (r.terminator => q.terminator)
  BY <1>1, <1>2, <1>4
<1>10. Range(extractRecursionTargets(ws, r, vt).targets) \subseteq Range(extractRecursionTargets(ws, q, wider).targets)
  BY <1>1, <1>4, <1>5, <1>6, <1>8, <1>9, MoreIsFound
<1> QED
  BY <1>3, <1>10, Zenon DEF TextsUnder, vt, wider

\* A config that declares a spec for a wrapper hides nothing the built-in spec lets
\* wardhook inspect, as long as it does not say otherwise of the flags and the verb that
\* the line has (README.md:599, merge.go:3-11, recurse.go:24-62).
THEOREM DeclaringKeepsTargets == Spec => DeclaringHidesNothing
<1> DEFINE Kept ==
      results' # results =>
        LET merged == View(mem', results'[Len(results')])
        IN  \A words \in Lines :
              words[1] \in DOMAIN Embedded =>
                LET b == Embedded[words[1]]
                IN  ~Rereads(Among(Contents.declared, words[1]), b, words) =>
                      Found(b, words) \subseteq Found(merged[words[1]], words)
<1>1. ASSUME MemInv, ContentInv, [Next]_vars PROVE Kept
  <2>1. CASE Resolve
    <3>1. PICK d \in Declared : ResolvesTo(d)
      BY <1>1, <2>1, ResolvedAsDeclared
    <3>2. PICK merged : merged = View(mem', results'[Len(results')])  OBVIOUS
    <3>3. PICK user : user = Contents.declared  OBVIOUS
    <3>4. \A cli : Among(user, cli) = Among(d, cli)  BY <3>1, <3>3 DEF Among, ResolvesTo
    <3>5. ASSUME NEW words \in Lines, words[1] \in DOMAIN Embedded,
                 ~Rereads(Among(user, words[1]), Embedded[words[1]], words)
          PROVE  Found(Embedded[words[1]], words) \subseteq Found(merged[words[1]], words)
      <4>1. PICK cli \in DOMAIN Embedded : cli = words[1]
        BY <3>5
      <4>2. PICK b : b = Embedded[cli]  OBVIOUS
      <4>3. PICK u : u = Among(d, cli)  OBVIOUS
      <4>4. PICK s : s = merged[cli]  OBVIOUS
      <4>5. cli \in DOMAIN merged /\ s = MergedSpecs(Embedded, d)[cli] /\ AllSpecs(Embedded) /\ AllSpecs(d)
            /\ \A c \in DOMAIN d : Validate(d[c])
        BY <3>1, <3>2, <4>4 DEF ResolvesTo
      <4>6. IsSpec(b) /\ Validate(b)
        BY <1>1, <4>2, <4>5 DEF AllSpecs, ContentInv
      <4>7. IsUnion(s, b, u) /\ Validate(s)
        <5>1. Among(Embedded, cli) = b
          BY <4>2 DEF Among
        <5>2. \A c \in DOMAIN Embedded : Validate(Embedded[c])
          BY <1>1 DEF ContentInv
        <5> QED
          BY <4>3, <4>5, <5>1, <5>2, MergedAmong
      <4>8. IsSpec(s)
        <5>1. CASE cli \notin DOMAIN d
          BY <4>2, <4>5, <4>6, <5>1 DEF MergedSpecs
        <5>2. CASE cli \in DOMAIN d
          <6>1. s = Merged(b, d[cli]) /\ IsSpec(d[cli])
            BY <4>2, <4>5, <5>2 DEF MergedSpecs, AllSpecs
          <6> QED
            BY <4>6, <6>1, MergedIsSpec
        <5> QED
          BY <5>1, <5>2
      <4>9. IsList(words) /\ ~Rereads(u, b, words)
        BY <3>4, <3>5, <4>1, <4>2, <4>3, LinesAssumption
      <4>10. Found(b, words) \subseteq Found(s, words)
        BY <4>6, <4>7, <4>8, <4>9, UnionFindsMore
      <4> QED
        BY <4>1, <4>2, <4>4, <4>10
    <3> QED  BY <3>2, <3>3, <3>5
  <2>2. ASSUME NEW k \in DOMAIN results, Scribble(k) PROVE Kept
    BY <2>2, Scribbling
  <2>3. CASE UNCHANGED vars  BY <2>3 DEF vars
  <2> QED  BY <2>1, <2>2, <2>3, <1>1 DEF Next
<1>2. Kept => [Kept]_vars  OBVIOUS
<1> QED  BY <1>1, MemInvAlways, ContentAlways, PTL DEF Spec, DeclaringHidesNothing
================================================================================
