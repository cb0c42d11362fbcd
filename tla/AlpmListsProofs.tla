---------------------------- MODULE AlpmListsProofs ----------------------------
(***************************************************************************)
(* That the wrappers keep the memory straight, for any packages, values    *)
(* and lengths of lists: AlpmLists' invariants as theorems.  All follow    *)
(* from one exact description of the heap, phase by phase (IInv).          *)
(***************************************************************************)
EXTENDS AlpmLists, AlpmRecordsProofs

--------------------------------------------------------------------------------
(* The inductive invariant                                                     *)

\* What the wrapper makes for a call, and what a result may be.
ForCall(m, in) == Merge(CStrings(m, in), Chains(m, in))
Results(m) == IF m \in OwnsNodes \cup Lends THEN SeqsUpTo(Values[m], MaxResult) ELSE {<<>>}

\* Where the iteration or the freeing loop stands: past the end when at Null.
Position == IF node = Null THEN Len(meant) + 1 ELSE node[2]
Place(m, vs, i) == IF i > Len(vs) THEN Null ELSE At(IF m = "files" THEN "lent" ELSE "result", i)

\* What is left in memory of what libalpm gave.
LeftOf(m, vs, phase, i) ==
  {a \in DOMAIN Given(m, vs) :
     \/ phase = "copy"
     \/ phase = "drop" /\ m \in Lends
     \/ phase = "free_inner" /\ (a[1] = "result" \/ a[2] >= i)
     \/ phase = "free" /\ a[1] = "result" /\ a[2] >= i}
Left == LeftOf(method, meant, pc, Position)
Made == IF pc = "idle" THEN {} ELSE DOMAIN ForCall(method, input)

\* An element of the Vec, and what libalpm reads.
Copied(m, v) == IF m \in {"search", "packages"} THEN At("package", v.name) ELSE v
Said(in) ==
  [l \in DOMAIN in |->
     IF l # "depstring" THEN in[l]
     ELSE [name |-> in[l].name, modifier |-> in[l].modifier, version |-> in[l].version]]

Phases ==
  /\ pc \in {"idle", "call", "copy", "free_inner", "free", "drop"}
  /\ IF pc = "idle" THEN method = "none" ELSE method \in Methods
  /\ pc \in {"idle", "call"} => meant = <<>> /\ told = NoInput
  /\ pc = "idle" => input = NoInput
  /\ pc # "idle" => input \in Slices(method)
  /\ pc = "copy" => method \in OwnsNodes \cup Lends
  /\ pc = "free_inner" => method \in OwnsPayloads
  /\ pc = "free" => method \in OwnsNodes

Walking ==
  /\ meant \in Results(method)
  /\ result = Place(method, meant, 1)
  /\ Position \in 1 .. Len(meant) + 1
  /\ node = Place(method, meant, Position)

Accounted ==
  /\ DOMAIN heap = PackageCells \cup Made \cup Left
  /\ \A a \in PackageCells : heap[a] = Cache[a]
  /\ \A a \in Made : heap[a] = ForCall(method, input)[a]
  /\ \A a \in Left : heap[a] = Given(method, meant)[a]

Collecting ==
  out = [i \in 1 .. (IF pc = "copy" THEN Position - 1 ELSE Len(meant)) |-> Copied(method, meant[i])]

Heard == told \in {NoInput, Said(input)}

IInv == Phases /\ Walking /\ Accounted /\ Collecting /\ Heard

--------------------------------------------------------------------------------
(* Where things are                                                            *)

\* What a cell tells of the struct it belongs to.
SameStruct(a, f) == a \in DOMAIN f /\ \A b \in DOMAIN f : b[1] = a[1] /\ b[2] = a[2]

\* The strings of a struct have its place.
LEMMA StringsKind ==
  ASSUME NEW a, IsAddress(a), NEW F \in SUBSET Labels, NEW v, NEW b \in DOMAIN Strings(a, F, v)
  PROVE  b[1] = a[1] /\ b[2] = a[2]
BY StringsDomain, FieldFacts

\* A struct with its strings lies in one place.
LEMMA StructKind ==
  ASSUME NEW a, IsAddress(a), NEW F \in SUBSET Labels, NEW v, NEW c
  PROVE  SameStruct(a, Merge(Strings(a, F, v), Cell(a, c)))
<1>1. DOMAIN Cell(a, c) = {a} BY DEF Cell
<1>2. \A b \in DOMAIN Strings(a, F, v) : b[1] = a[1] /\ b[2] = a[2]
  BY StringsKind
<1> QED BY <1>1, <1>2 DEF SameStruct, Merge

\* A package with its strings, and any other struct libalpm makes, lies in one
\* place.
LEMMA PackageKind ==
  ASSUME NEW a, IsAddress(a), NEW p
  PROVE  SameStruct(a, PackageAt(a, p))
<1>1. {"name", "version", "desc"} \in SUBSET Labels BY DEF Labels
<1> QED BY <1>1, StructKind DEF PackageAt

Structs == {"check_deps", "check_conflicts", "depends", "licenses", "backup", "files"}

\* A struct of a result lies in one place, with what is embedded in it.
LEMMA ElementKind ==
  ASSUME NEW m \in Structs, NEW a, IsAddress(a), NEW v
  PROVE  SameStruct(a, ElementAt(m, a, v))
<1>1. /\ {"name", "version", "desc"} \in SUBSET Labels /\ {"target", "causing_pkg"} \in SUBSET Labels
      /\ {"name", "hash"} \in SUBSET Labels /\ {"name"} \in SUBSET Labels
      /\ "depend" \in Labels /\ "reason" \in Labels
  BY DEF Labels
<1>2. CASE m = "check_deps"
  <2> DEFINE S == Strings(a, {"target", "causing_pkg"}, v)
             D == DependAt(Field(a, "depend"), v.depend)
             c == [target |-> Pointer(a, "target", v), depend |-> Field(a, "depend"),
                   causingpkg |-> Pointer(a, "causing_pkg", v)]
  <2>1. ElementAt(m, a, v) = Merge(Merge(S, D), Cell(a, c))
    BY <1>2 DEF ElementAt, DepMissingAt
  <2>2. \A b \in DOMAIN S : b[1] = a[1] /\ b[2] = a[2] BY <1>1, StringsKind
  <2>3. \A b \in DOMAIN D : b[1] = a[1] /\ b[2] = a[2] BY <1>1, DependApart
  <2>4. DOMAIN Cell(a, c) = {a} BY DEF Cell
  <2> HIDE DEF S, D, c
  <2> QED BY <2>1, <2>2, <2>3, <2>4 DEF SameStruct, Merge
<1>3. CASE m = "check_conflicts"
  <2> DEFINE D == DependAt(Field(a, "reason"), v.reason)
             c == [package1 |-> At("package", v.package1), package2 |-> At("package", v.package2),
                   reason |-> Field(a, "reason")]
  <2>1. ElementAt(m, a, v) = Merge(D, Cell(a, c))
    BY <1>3 DEF ElementAt, ConflictAt
  <2>2. \A b \in DOMAIN D : b[1] = a[1] /\ b[2] = a[2] BY <1>1, DependApart
  <2>3. DOMAIN Cell(a, c) = {a} BY DEF Cell
  <2> HIDE DEF D, c
  <2> QED BY <2>1, <2>2, <2>3 DEF SameStruct, Merge
<1>4. CASE m = "depends"
  BY <1>1, <1>4, StructKind DEF ElementAt, DependAt
<1>5. CASE m = "licenses"
  BY <1>5 DEF ElementAt, Cell, SameStruct
<1>6. CASE m = "backup"
  BY <1>1, <1>6, StructKind DEF ElementAt, BackupAt
<1>7. CASE m = "files"
  BY <1>1, <1>7, StructKind DEF ElementAt, FileAt
<1> QED BY <1>2, <1>3, <1>4, <1>5, <1>6, <1>7 DEF Structs

\* The cells of the cache, and that it holds each package.
LEMMA CacheFacts ==
  /\ \A a \in PackageCells : a[1] = "package"
  /\ \A p \in Packages : /\ At("package", p.name) \in PackageCells
                         /\ Holds(Cache, PackageAt(At("package", p.name), p))
<1> DEFINE P(p) == PackageAt(At("package", p.name), p)
           Chosen(n) == CHOOSE p \in Packages : p.name = n
<1>1. ASSUME NEW p
      PROVE  /\ At("package", p.name) \in DOMAIN P(p)
             /\ \A b \in DOMAIN P(p) : b[1] = "package" /\ b[2] = p.name
  <2>1. SameStruct(At("package", p.name), P(p))
    BY PackageKind, AtIsAddress
  <2> HIDE DEF P
  <2> QED BY <2>1, AtIsAddress DEF SameStruct
<1>2. \A p \in Packages : Chosen(p.name) = p
  BY AlpmListsAssumption
<1>3. PackageCells = UNION {DOMAIN P(p) : p \in Packages}
  BY DEF PackageCells
<1>4. Cache = [a \in PackageCells |-> PackageAt(At("package", a[2]), Chosen(a[2]))[a]]
  BY DEF Cache
<1>5. ASSUME NEW a \in PackageCells PROVE a[1] = "package"
  <2> HIDE DEF P
  <2> QED BY <1>1, <1>3
<1>6. ASSUME NEW p \in Packages
      PROVE  At("package", p.name) \in PackageCells /\ Holds(Cache, P(p))
  <2>1. At("package", p.name) \in DOMAIN P(p) /\ \A b \in DOMAIN P(p) : b[2] = p.name
    BY <1>1
  <2>2. DOMAIN P(p) \subseteq PackageCells
    <3> HIDE DEF P
    <3> QED BY <1>3
  <2>3. ASSUME NEW b \in DOMAIN P(p) PROVE Cache[b] = P(p)[b]
    <3>1. Chosen(b[2]) = p /\ b[2] = p.name BY <1>2, <2>1
    <3> HIDE DEF Chosen
    <3> QED BY <1>4, <2>2, <3>1
  <2>4. DOMAIN Cache = PackageCells
    BY DEF Cache
  <2> HIDE DEF P
  <2> QED BY <2>1, <2>2, <2>3, <2>4 DEF Holds
<1> QED BY <1>5, <1>6

--------------------------------------------------------------------------------
(* What is made for a call                                                     *)

\* A sequence of bounded length.
LEMMA SeqsUpToFacts ==
  ASSUME NEW S, NEW n \in Nat, NEW s \in SeqsUpTo(S, n)
  PROVE  /\ s \in Seq(S) /\ Len(s) \in 0 .. n /\ DOMAIN s = 1 .. Len(s)
         /\ \A i \in DOMAIN s : s[i] \in S
<1>1. PICK k \in 0 .. n : s \in [1 .. k -> S]
  BY DEF SeqsUpTo
<1>2. s \in Seq(S) /\ Len(s) = k
  BY <1>1
<1> QED BY <1>1, <1>2

\* An input's lists: no longer than MaxInput, of cells that are in memory
\* during the call.
LEMMA InputFacts ==
  ASSUME NEW m \in Methods, NEW in \in Slices(m)
  PROVE  /\ \A l \in InputLists(m) :
               /\ l \in DOMAIN in /\ l \notin {"depstring", "string", "package", "result", "payload", "lent", "filelist"}
               /\ Len(in[l]) \in 0 .. MaxInput /\ DOMAIN in[l] = 1 .. Len(in[l])
               /\ in[l] \in Seq(PackageCells \cup DOMAIN CStrings(m, in))
               /\ \A i \in DOMAIN in[l] : in[l][i][1] \in {"package", "string"}
         /\ \A l \in DOMAIN in : l \in InputLists(m) \/ (l = "depstring" /\ m = "find_dbs_satisfier")
<1> DEFINE P == {At("package", n) : n \in Names}
           C == PackageCells \cup DOMAIN CStrings(m, in)
           Fits(s) == /\ Len(s) \in 0 .. MaxInput /\ DOMAIN s = 1 .. Len(s) /\ s \in Seq(C)
                      /\ \A i \in DOMAIN s : s[i][1] \in {"package", "string"}
<1>1. \A s \in SeqsUpTo(P, MaxInput) : Fits(s)
  <2>1. P \subseteq C /\ \A a \in P : a[1] = "package"
    BY CacheFacts, AtIsAddress DEF Names
  <2> HIDE DEF P, C
  <2>2. ASSUME NEW s \in SeqsUpTo(P, MaxInput) PROVE Fits(s)
    <3>1. /\ s \in Seq(P) /\ Len(s) \in 0 .. MaxInput /\ DOMAIN s = 1 .. Len(s)
          /\ \A i \in DOMAIN s : s[i] \in P
      BY AlpmListsAssumption, SeqsUpToFacts
    <3> QED BY <2>1, <3>1
  <2> QED BY <2>2
<1>2. \A l \in InputLists(m) : l \in {"pkglist", "remove", "upgrade", "needles", "dbs"}
  BY DEF InputLists, Methods, OwnsNodes, OwnsPayloads, Lends
<1>3. CASE m = "search"
  <2>1. PICK k \in 0 .. MaxInput : in = [l \in {"needles"} |-> [i \in 1 .. k |-> At("string", i)]]
    BY <1>3 DEF Slices
  <2>2. InputLists(m) = {"needles"}
    BY <1>3 DEF InputLists, Lends
  <2> DEFINE s == [i \in 1 .. k |-> At("string", i)]
  <2>3. in["needles"] = s /\ DOMAIN in = {"needles"}
    BY <2>1
  <2>4. DOMAIN CStrings(m, in) = {s[i] : i \in 1 .. k}
    BY <1>3, <2>3 DEF CStrings
  <2>5. s \in [1 .. k -> C] /\ \A i \in 1 .. k : s[i][1] = "string"
    BY <2>4, AtIsAddress
  <2>6. Fits(s)
    <3>1. k \in Nat /\ DOMAIN s = 1 .. k BY AlpmListsAssumption
    <3> HIDE DEF s, C
    <3>2. s \in Seq(C) /\ Len(s) = k BY <2>5, <3>1
    <3> QED BY <2>5, <3>1, <3>2
  <2> HIDE DEF Fits, s, C
  <2>7. Fits(in["needles"])
    BY <2>3, <2>6
  <2> QED BY <1>2, <2>2, <2>3, <2>7 DEF Fits, C
<1>4. CASE m = "find_dbs_satisfier"
  <2>1. in \in [dbs : SeqsUpTo(P, MaxInput), depstring : {Parsed(s) : s \in Values[m]}]
    BY <1>4 DEF Slices
  <2>2. InputLists(m) = {"dbs"}
    BY <1>4 DEF InputLists, Lends
  <2>3. Fits(in["dbs"]) /\ DOMAIN in = {"dbs", "depstring"}
    <3> HIDE DEF Fits, P
    <3> QED BY <2>1, <1>1
  <2> HIDE DEF P
  <2> QED BY <1>2, <1>4, <2>2, <2>3
<1>5. CASE m \notin {"search", "find_dbs_satisfier"}
  <2>1. in \in [InputLists(m) -> SeqsUpTo(P, MaxInput)]
    BY <1>5 DEF Slices
  <2>2. DOMAIN in = InputLists(m) /\ \A l \in InputLists(m) : Fits(in[l])
    <3> HIDE DEF Fits, P
    <3> QED BY <2>1, <1>1
  <2> HIDE DEF P
  <2> QED BY <1>2, <2>2
<1> QED BY <1>3, <1>4, <1>5

\* The lists of a call hold packages or strings.
LEMMA InputList ==
  ASSUME NEW m \in Methods, NEW in \in Slices(m), NEW l \in InputLists(m)
  PROVE  /\ Len(in[l]) \in 0 .. MaxInput /\ DOMAIN in[l] = 1 .. Len(in[l])
         /\ \A i \in DOMAIN in[l] : in[l][i][1] \in {"package", "string"}
<1>1. \A k \in InputLists(m) :
        /\ Len(in[k]) \in 0 .. MaxInput /\ DOMAIN in[k] = 1 .. Len(in[k])
        /\ \A i \in DOMAIN in[k] : in[k][i][1] \in {"package", "string"}
  BY InputFacts
<1> QED BY <1>1

\* A chain has a node per element, linked to the next.
Linked(l, ptrs, i) ==
  [data |-> ptrs[i], next |-> IF i < Len(ptrs) THEN At(l, i + 1) ELSE Null]

\* What is made for a call is its strings and a chain per list.
LEMMA ForCallFacts ==
  ASSUME NEW m \in Methods, NEW in \in Slices(m)
  PROVE  /\ \A a \in DOMAIN ForCall(m, in) : a[1] \in InputLists(m) \cup {"string"}
         /\ \A a \in DOMAIN ForCall(m, in) :
              a[1] \in InputLists(m) => /\ a[2] \in DOMAIN in[a[1]]
                                       /\ ForCall(m, in)[a] = Linked(a[1], in[a[1]], a[2])
         /\ \A l \in InputLists(m) : \A i \in DOMAIN in[l] :
              /\ At(l, i) \in DOMAIN ForCall(m, in)
              /\ ForCall(m, in)[At(l, i)] = Linked(l, in[l], i)
         /\ DOMAIN CStrings(m, in) \subseteq DOMAIN ForCall(m, in)
         /\ m = "find_dbs_satisfier" =>
              /\ At("string", 1) \in DOMAIN ForCall(m, in)
              /\ ForCall(m, in)[At("string", 1)] = DisplayString(in["depstring"])
<1> DEFINE C(l) == Chain(l, in[l])
<1>1. ASSUME NEW l \in InputLists(m)
      PROVE  /\ DOMAIN C(l) = {At(l, i) : i \in DOMAIN in[l]}
             /\ \A i \in DOMAIN in[l] : C(l)[At(l, i)] = Linked(l, in[l], i)
  <2>1. DOMAIN C(l) = {At(l, i) : i \in DOMAIN in[l]}
    BY DEF Chain
  <2>2. ASSUME NEW i \in DOMAIN in[l] PROVE C(l)[At(l, i)] = Linked(l, in[l], i)
    <3>1. At(l, i) \in {At(l, j) : j \in DOMAIN in[l]} /\ At(l, i)[2] = i
      BY AtIsAddress
    <3> QED BY <3>1 DEF Chain, Linked
  <2> QED BY <2>1, <2>2
<1>2. DOMAIN Chains(m, in) = UNION {DOMAIN C(l) : l \in InputLists(m)}
  BY DEF Chains
<1>3. ASSUME NEW l \in InputLists(m), NEW i \in DOMAIN in[l]
      PROVE  /\ At(l, i) \in DOMAIN Chains(m, in)
             /\ Chains(m, in)[At(l, i)] = Linked(l, in[l], i)
  <2>1. At(l, i) \in DOMAIN Chains(m, in)
    <3>1. At(l, i) \in DOMAIN C(l)
      BY <1>1
    <3> HIDE DEF C
    <3> QED BY <1>2, <3>1
  <2>2. At(l, i)[1] = l
    BY AtIsAddress
  <2>3. Chains(m, in)[At(l, i)] = Chain(At(l, i)[1], in[At(l, i)[1]])[At(l, i)]
    BY <2>1 DEF Chains
  <2> QED BY <1>1, <2>1, <2>2, <2>3
<1>4. \A a \in DOMAIN Chains(m, in) : \E l \in InputLists(m) : \E i \in DOMAIN in[l] : a = At(l, i)
  <2> SUFFICES ASSUME NEW a \in DOMAIN Chains(m, in)
               PROVE  \E l \in InputLists(m) : \E i \in DOMAIN in[l] : a = At(l, i)
    OBVIOUS
  <2> HIDE DEF C
  <2>1. PICK l \in InputLists(m) : a \in DOMAIN C(l)
    BY <1>2
  <2> QED BY <1>1, <2>1
<1>5. \A a \in DOMAIN CStrings(m, in) : a[1] = "string"
  <2>1. CASE m = "search"
    <3>1. PICK k \in 0 .. MaxInput : in = [l \in {"needles"} |-> [i \in 1 .. k |-> At("string", i)]]
      BY <2>1 DEF Slices
    <3>2. in["needles"] = [i \in 1 .. k |-> At("string", i)] BY <3>1
    <3>3. DOMAIN CStrings(m, in) = {in["needles"][i] : i \in DOMAIN in["needles"]}
      BY <2>1 DEF CStrings
    <3> QED BY <3>2, <3>3, AtIsAddress
  <2>2. CASE m # "search"
    BY <2>2, AtIsAddress DEF CStrings, Cell
  <2> QED BY <2>1, <2>2
<1>6. m = "find_dbs_satisfier" => /\ At("string", 1) \in DOMAIN CStrings(m, in)
                                 /\ CStrings(m, in)[At("string", 1)] = DisplayString(in["depstring"])
  BY DEF CStrings, Cell
<1>7. "string" \notin InputLists(m)
  BY InputFacts
<1>8. /\ DOMAIN ForCall(m, in) = DOMAIN CStrings(m, in) \cup DOMAIN Chains(m, in)
      /\ \A a \in DOMAIN CStrings(m, in) : ForCall(m, in)[a] = CStrings(m, in)[a]
      /\ \A a \in DOMAIN Chains(m, in) :
           a \notin DOMAIN CStrings(m, in) => ForCall(m, in)[a] = Chains(m, in)[a]
  <2> DEFINE f == CStrings(m, in)
             g == Chains(m, in)
  <2>1. ForCall(m, in) = Merge(f, g) BY DEF ForCall
  <2> HIDE DEF f, g
  <2>2. /\ DOMAIN Merge(f, g) = DOMAIN f \cup DOMAIN g
        /\ \A a \in DOMAIN f : Merge(f, g)[a] = f[a]
        /\ \A a \in DOMAIN g : a \notin DOMAIN f => Merge(f, g)[a] = g[a]
    BY DEF Merge
  <2> QED BY <2>1, <2>2 DEF f, g
<1>9. \A a \in DOMAIN Chains(m, in) : a \notin DOMAIN CStrings(m, in)
  BY <1>4, <1>5, <1>7, AtIsAddress
<1>10. ASSUME NEW l \in InputLists(m), NEW i \in DOMAIN in[l]
       PROVE  /\ At(l, i) \in DOMAIN ForCall(m, in)
              /\ ForCall(m, in)[At(l, i)] = Linked(l, in[l], i)
  BY <1>3, <1>8, <1>9
<1>11. ASSUME NEW a \in DOMAIN ForCall(m, in)
       PROVE  /\ a[1] \in InputLists(m) \cup {"string"}
              /\ a[1] \in InputLists(m) => /\ a[2] \in DOMAIN in[a[1]]
                                           /\ ForCall(m, in)[a] = Linked(a[1], in[a[1]], a[2])
  <2>1. CASE a \in DOMAIN CStrings(m, in)
    BY <1>5, <1>7, <2>1
  <2>2. CASE a \in DOMAIN Chains(m, in)
    <3>1. PICK l \in InputLists(m) : \E i \in DOMAIN in[l] : a = At(l, i)
      BY <1>4, <2>2
    <3>2. PICK i \in DOMAIN in[l] : a = At(l, i)
      BY <3>1
    <3>3. a[1] = l /\ a[2] = i
      BY <3>2, AtIsAddress
    <3>4. ForCall(m, in)[a] = Linked(l, in[l], i)
      BY <1>10, <3>2
    <3> QED BY <3>3, <3>4
  <2> QED BY <1>8, <2>1, <2>2
<1>12. m = "find_dbs_satisfier" => /\ At("string", 1) \in DOMAIN ForCall(m, in)
                                  /\ ForCall(m, in)[At("string", 1)] = DisplayString(in["depstring"])
  BY <1>6, <1>8
<1> QED BY <1>8, <1>10, <1>11, <1>12

--------------------------------------------------------------------------------
(* What libalpm gives                                                          *)

Address(m, i) == IF m \in OwnsPayloads THEN At("payload", i) ELSE At("lent", i)
Kind(m) == IF m \in OwnsPayloads THEN "payload" ELSE "lent"

\* The structs of a result are each in a place of their own.
LEMMA ElementsFacts ==
  ASSUME NEW m \in Structs, NEW vs
  PROVE  /\ \A a \in DOMAIN Elements(m, vs) : a[1] = Kind(m) /\ a[2] \in DOMAIN vs
         /\ \A i \in DOMAIN vs : /\ Address(m, i) \in DOMAIN Elements(m, vs)
                                /\ Holds(Elements(m, vs), ElementAt(m, Address(m, i), vs[i]))
<1> DEFINE E(i) == ElementAt(m, Address(m, i), vs[i])
           e == [i \in DOMAIN vs |-> E(i)]
           D == UNION {DOMAIN e[i] : i \in DOMAIN vs}
<1>1. \A i \in DOMAIN vs : ElementAddress(m, i, vs[i]) = Address(m, i)
  BY DEF ElementAddress, Address, Structs
<1>2. Elements(m, vs) = [a \in D |-> e[a[2]][a]]
  <2>1. m \notin {"search", "packages"} BY DEF Structs
  <2>2. e = [i \in DOMAIN vs |-> ElementAt(m, ElementAddress(m, i, vs[i]), vs[i])]
    BY <1>1
  <2> HIDE DEF e
  <2> QED BY <2>1, <2>2 DEF Elements
<1>3. ASSUME NEW i \in DOMAIN vs
      PROVE  /\ Address(m, i) \in DOMAIN E(i)
             /\ \A b \in DOMAIN E(i) : b[1] = Kind(m) /\ b[2] = i
  <2>1. IsAddress(Address(m, i)) /\ Address(m, i)[1] = Kind(m) /\ Address(m, i)[2] = i
    BY AtIsAddress DEF Address, Kind
  <2>2. SameStruct(Address(m, i), E(i))
    BY <2>1, ElementKind
  <2> HIDE DEF E
  <2> QED BY <2>1, <2>2 DEF SameStruct
<1>4. \A i \in DOMAIN vs : e[i] = E(i)
  OBVIOUS
<1> HIDE DEF E, e
<1>5. ASSUME NEW a \in DOMAIN Elements(m, vs) PROVE a[1] = Kind(m) /\ a[2] \in DOMAIN vs
  <2>1. PICK i \in DOMAIN vs : a \in DOMAIN e[i] BY <1>2
  <2> QED BY <1>3, <1>4, <2>1
<1>6. ASSUME NEW i \in DOMAIN vs
      PROVE  Address(m, i) \in DOMAIN Elements(m, vs) /\ Holds(Elements(m, vs), E(i))
  <2>1. DOMAIN E(i) \subseteq D
    BY <1>4
  <2>2. \A b \in DOMAIN E(i) : Elements(m, vs)[b] = E(i)[b]
    BY <1>2, <1>3, <1>4, <2>1
  <2>3. DOMAIN Elements(m, vs) = D
    BY <1>2
  <2> QED BY <1>3, <2>1, <2>2, <2>3 DEF Holds
<1> QED BY <1>5, <1>6 DEF E

\* The node of a list libalpm returns.
Node(m, vs, i) ==
  [data |-> ElementAddress(m, i, vs[i]),
   next |-> IF i < Len(vs) THEN At("result", i + 1) ELSE Null]

\* A result has a node for each of its elements ...
LEMMA LinkNode ==
  ASSUME NEW m, m # "files", NEW vs, NEW i \in DOMAIN vs
  PROVE  At("result", i) \in DOMAIN Links(m, vs) /\ Links(m, vs)[At("result", i)] = Node(m, vs, i)
<1>1. At("result", i) \in {At("result", j) : j \in DOMAIN vs} /\ At("result", i)[2] = i
  BY AtIsAddress
<1> QED BY <1>1 DEF Node, Links

\* ... and no others.
LEMMA LinkOfNode ==
  ASSUME NEW m, m # "files", NEW vs, NEW a \in DOMAIN Links(m, vs)
  PROVE  a[1] = "result" /\ a[2] \in DOMAIN vs /\ a = At("result", a[2])
<1>1. PICK i \in DOMAIN vs : a = At("result", i)
  BY DEF Links
<1> QED BY <1>1, AtIsAddress

\* The files of a package are a counted array.
LEMMA LinkArray ==
  ASSUME NEW vs
  PROVE  /\ DOMAIN Links("files", vs) = {At("filelist", 0)}
         /\ Links("files", vs)[At("filelist", 0)] = [count |-> Len(vs)]
BY DEF Links, Cell

\* A result has nodes or a counted array, never both.
LEMMA LinkKinds ==
  ASSUME NEW m, NEW vs, NEW a \in DOMAIN Links(m, vs)
  PROVE  /\ a[1] \in {"result", "filelist"}
         /\ m # "files" <=> a[1] = "result"
<1>1. CASE m = "files"
  <2>1. a = At("filelist", 0)
    <3>1. a \in DOMAIN Links("files", vs) BY <1>1
    <3> QED BY <3>1, LinkArray
  <2>2. a[1] = "filelist"
    BY <2>1, AtIsAddress
  <2> QED BY <1>1, <2>2
<1>2. CASE m # "files"
  BY <1>2, LinkOfNode
<1> QED BY <1>1, <1>2

\* Structs, where a wrapper's result has any.
LEMMA ElementsKind ==
  ASSUME NEW m \in OwnsNodes \cup Lends, NEW vs, NEW a \in DOMAIN Elements(m, vs)
  PROVE  m \in Structs /\ a[1] = Kind(m) /\ a[2] \in DOMAIN vs
<1>1. CASE m \in Structs
  BY <1>1, ElementsFacts
<1>2. CASE m \in {"search", "packages"}
  BY <1>2 DEF Elements
<1> QED BY <1>1, <1>2 DEF Structs, OwnsNodes, OwnsPayloads, Lends

\* What libalpm gives is the structs of a result and what links them.
LEMMA GivenParts ==
  ASSUME NEW m \in OwnsNodes \cup Lends, NEW vs
  PROVE  /\ DOMAIN Given(m, vs) = DOMAIN Elements(m, vs) \cup DOMAIN Links(m, vs)
         /\ \A a \in DOMAIN Elements(m, vs) : Given(m, vs)[a] = Elements(m, vs)[a]
         /\ \A a \in DOMAIN Links(m, vs) : Given(m, vs)[a] = Links(m, vs)[a]
<1>1. \A a \in DOMAIN Links(m, vs) : a \notin DOMAIN Elements(m, vs)
  <2>1. \A a \in DOMAIN Links(m, vs) : a[1] \in {"result", "filelist"} BY LinkKinds
  <2>2. \A a \in DOMAIN Elements(m, vs) : a[1] \in {"payload", "lent"} BY ElementsKind DEF Kind
  <2> QED BY <2>1, <2>2
<1> QED BY <1>1 DEF Given, Merge

\* Of what kind the cells are: a wrapper that owns nodes gets nodes and payloads,
\* one for each element, search nodes only.
LEMMA GivenKinds ==
  ASSUME NEW m \in OwnsNodes \cup Lends, NEW vs, NEW a \in DOMAIN Given(m, vs)
  PROVE  /\ a[1] \in {"result", "payload", "lent", "filelist"}
         /\ m \in OwnsNodes => a[1] \in {"result", "payload"} /\ a[2] \in DOMAIN vs
         /\ m = "search" => a[1] = "result"
         /\ m \in Lends => a[1] # "payload"
<1>1. CASE a \in DOMAIN Elements(m, vs)
  <2>1. m \in Structs /\ a[1] = Kind(m) /\ a[2] \in DOMAIN vs
    BY <1>1, ElementsKind
  <2> QED BY <2>1 DEF Kind, Structs, OwnsNodes, OwnsPayloads, Lends
<1>2. CASE a \in DOMAIN Links(m, vs)
  <2>1. a[1] \in {"result", "filelist"} BY <1>2, LinkKinds
  <2>2. ASSUME m # "files" PROVE a[1] = "result" /\ a[2] \in DOMAIN vs
    BY <1>2, <2>2, LinkOfNode
  <2> QED BY <2>1, <2>2 DEF OwnsNodes, OwnsPayloads
<1> QED BY <1>1, <1>2, GivenParts

\* The nodes and what they hold.
LEMMA GivenNode ==
  ASSUME NEW m \in OwnsNodes \cup Lends, NEW vs, m # "files", NEW i \in DOMAIN vs
  PROVE  /\ At("result", i) \in DOMAIN Given(m, vs)
         /\ Given(m, vs)[At("result", i)] = Node(m, vs, i)
<1>1. At("result", i) \in DOMAIN Links(m, vs) /\ Links(m, vs)[At("result", i)] = Node(m, vs, i)
  BY LinkNode
<1> QED BY <1>1, GivenParts

\* Nodes are nowhere but at their places.
LEMMA GivenNodes ==
  ASSUME NEW m \in OwnsNodes \cup Lends, NEW vs, NEW a \in DOMAIN Given(m, vs), a[1] = "result"
  PROVE  m # "files" /\ a[2] \in DOMAIN vs /\ a = At("result", a[2]) /\ Given(m, vs)[a] = Node(m, vs, a[2])
<1>1. a \in DOMAIN Links(m, vs)
  <2>1. a \notin DOMAIN Elements(m, vs) BY ElementsKind DEF Kind
  <2> QED BY <2>1, GivenParts
<1>2. m # "files"
  BY <1>1, LinkKinds
<1>3. a[2] \in DOMAIN vs /\ a = At("result", a[2])
  BY <1>1, <1>2, LinkOfNode
<1>4. Given(m, vs)[At("result", a[2])] = Node(m, vs, a[2])
  BY <1>2, <1>3, GivenNode
<1> QED BY <1>2, <1>3, <1>4

\* The counted array, and the structs.
LEMMA GivenArray ==
  ASSUME NEW vs
  PROVE  /\ At("filelist", 0) \in DOMAIN Given("files", vs)
         /\ Given("files", vs)[At("filelist", 0)] = [count |-> Len(vs)]
<1>1. /\ At("filelist", 0) \in DOMAIN Links("files", vs)
      /\ Links("files", vs)[At("filelist", 0)] = [count |-> Len(vs)]
  BY LinkArray
<1>2. "files" \in OwnsNodes \cup Lends
  BY DEF Lends
<1> QED BY <1>1, <1>2, GivenParts

\* Each struct of a result is there, with its strings.
LEMMA GivenStruct ==
  ASSUME NEW m \in Structs, NEW vs, NEW i \in DOMAIN vs
  PROVE  /\ Address(m, i) \in DOMAIN Given(m, vs)
         /\ Holds(Given(m, vs), ElementAt(m, Address(m, i), vs[i]))
<1>1. m \in OwnsNodes \cup Lends
  BY DEF Structs, OwnsNodes, OwnsPayloads, Lends
<1>2. /\ Address(m, i) \in DOMAIN Elements(m, vs)
      /\ Holds(Elements(m, vs), ElementAt(m, Address(m, i), vs[i]))
  BY ElementsFacts
<1> QED BY <1>1, <1>2, GivenParts DEF Holds

--------------------------------------------------------------------------------
(* Walking along a chain                                                       *)

\* The last node of a chain is the one without a next.
LEMMA LinkedFacts ==
  ASSUME NEW l, NEW ptrs, NEW i
  PROVE  /\ Linked(l, ptrs, i).data = ptrs[i]
         /\ (Linked(l, ptrs, i).next = Null) <=> ~(i < Len(ptrs))
BY AtIsAddress DEF Linked

\* Along the nodes of a chain lie the pointers it was made of.
LEMMA WalkReads ==
  ASSUME NEW l, NEW S, NEW ptrs \in Seq(S),
         \A i \in 1 .. Len(ptrs) : heap[At(l, i)] = Linked(l, ptrs, i)
  PROVE  Walk(l, ptrs) = ptrs
<1> DEFINE L == Len(ptrs)
           N(k) == heap[At(l, L + 1 - k)]
           body(f, k) == IF k = 0 THEN <<>>
                         ELSE <<N(k).data>> \o (IF N(k).next = Null THEN <<>> ELSE f[k - 1])
           Is(f) == f = [k \in 0 .. L |-> body(f, k)]
           from == CHOOSE f : Is(f)
           tail == [k \in 0 .. L |-> [i \in 1 .. k |-> ptrs[L - k + i]]]
<1>1. Walk(l, ptrs) = from[L]
  BY DEF Walk
<1>2. L \in Nat /\ \A i \in 1 .. L : ptrs[i] \in S
  OBVIOUS
<1>3. \A f : \A k \in 1 .. L :
        body(f, k) = <<ptrs[L + 1 - k]>> \o (IF k = 1 THEN <<>> ELSE f[k - 1])
  <2> SUFFICES ASSUME NEW f, NEW k \in 1 .. L
               PROVE  body(f, k) = <<ptrs[L + 1 - k]>> \o (IF k = 1 THEN <<>> ELSE f[k - 1])
    OBVIOUS
  <2>1. L + 1 - k \in 1 .. L /\ (L + 1 - k < L <=> k # 1)
    BY <1>2
  <2>2. N(k) = Linked(l, ptrs, L + 1 - k)
    BY <2>1
  <2>3. N(k).data = ptrs[L + 1 - k] /\ (N(k).next = Null <=> ~(L + 1 - k < L))
    <3> DEFINE j == L + 1 - k
    <3> HIDE DEF N, j
    <3>1. N(k) = Linked(l, ptrs, j)
      BY <2>2 DEF j
    <3>2. Linked(l, ptrs, j).data = ptrs[j] /\ (Linked(l, ptrs, j).next = Null <=> ~(j < Len(ptrs)))
      BY LinkedFacts
    <3>3. N(k).data = ptrs[j] /\ (N(k).next = Null <=> ~(j < L))
      BY <3>1, <3>2
    <3> QED BY <3>3 DEF j
  <2> HIDE DEF N
  <2> QED BY <2>1, <2>3
<1>4. \A f : body(f, 0) = <<>>
  OBVIOUS
<1>5. \A k \in 0 .. L : tail[k] \in Seq(S) /\ Len(tail[k]) = k
  BY <1>2
<1>6. \A k \in 1 .. L : tail[k] = <<ptrs[L + 1 - k]>> \o (IF k = 1 THEN <<>> ELSE tail[k - 1])
  <2> SUFFICES ASSUME NEW k \in 1 .. L
               PROVE  tail[k] = <<ptrs[L + 1 - k]>> \o (IF k = 1 THEN <<>> ELSE tail[k - 1])
    OBVIOUS
  <2> DEFINE rest == IF k = 1 THEN <<>> ELSE tail[k - 1]
             p == ptrs[L + 1 - k]
  <2>1. p \in S /\ rest \in Seq(S) /\ Len(rest) = k - 1
    BY <1>2, <1>5
  <2>2. \A i \in 1 .. k - 1 : rest[i] = ptrs[L - k + 1 + i]
    BY <1>2
  <2>3. \A i \in 1 .. k : tail[k][i] = ptrs[L - k + i]
    BY <1>2
  <2>4. tail[k] \in Seq(S) /\ Len(tail[k]) = k
    BY <1>5
  <2> HIDE DEF rest, tail
  <2>5. /\ <<p>> \o rest \in Seq(S) /\ Len(<<p>> \o rest) = k
        /\ \A i \in 1 .. k : (<<p>> \o rest)[i] = IF i = 1 THEN p ELSE rest[i - 1]
    <3>1. <<p>> \in Seq(S) /\ Len(<<p>>) = 1 BY <2>1
    <3>2. k \in Nat /\ k - 1 \in Nat BY <1>2
    <3> QED BY <2>1, <3>1, <3>2, ConcatProperties
  <2>6. \A i \in 1 .. k : tail[k][i] = (<<p>> \o rest)[i]
    BY <1>2, <2>2, <2>3, <2>5
  <2>7. tail[k] = <<p>> \o rest
    <3> DEFINE t == tail[k]
               u == <<p>> \o rest
    <3> HIDE DEF t, u
    <3>1. t \in Seq(S) /\ u \in Seq(S) /\ Len(t) = Len(u) /\ \A i \in 1 .. Len(t) : t[i] = u[i]
      BY <2>4, <2>5, <2>6 DEF t, u
    <3>2. t = u BY <3>1, SeqEqual
    <3> QED BY <3>2 DEF t, u
  <2> QED BY <2>7 DEF rest
<1> HIDE DEF N, body
<1>7. tail[0] = <<>>
  BY <1>2
<1>8. Is(tail)
  <2>1. ASSUME NEW k \in 0 .. L PROVE tail[k] = body(tail, k)
    <3> HIDE DEF tail
    <3>1. CASE k = 0
      BY <1>4, <1>7, <3>1
    <3>2. CASE k # 0
      <4>1. k \in 1 .. L BY <1>2, <3>2
      <4>2. body(tail, k) = <<ptrs[L + 1 - k]>> \o (IF k = 1 THEN <<>> ELSE tail[k - 1])
        BY <1>3, <4>1
      <4> QED BY <1>6, <4>1, <4>2
    <3> QED BY <3>1, <3>2
  <2>2. tail = [k \in 0 .. L |-> tail[k]]
    OBVIOUS
  <2> HIDE DEF tail
  <2> QED BY <2>1, <2>2
<1> HIDE DEF tail
<1>9. ASSUME NEW f, Is(f) PROVE f[L] = tail[L]
  <2> DEFINE Differ == {k \in 0 .. L : f[k] # tail[k]}
  <2>1. \A k \in 0 .. L : f[k] = body(f, k)
    BY <1>9
  <2>2. Differ = {}
    <3> SUFFICES ASSUME Differ # {} PROVE FALSE
      OBVIOUS
    <3>1. PICK k \in Differ : \A j \in Differ : k <= j
      <4>1. Differ \in SUBSET Nat BY <1>2
      <4> HIDE DEF Differ
      <4> QED BY <4>1, NatMin
    <3>2. k # 0
      BY <1>2, <1>4, <1>7, <2>1
    <3>3. k \in 1 .. L /\ (k # 1 => f[k - 1] = tail[k - 1])
      BY <1>2, <3>1, <3>2
    <3>4. f[k] = tail[k]
      <4>1. f[k] = body(f, k) /\ k \in 1 .. L
        BY <1>2, <2>1, <3>3
      <4>2. body(f, k) = <<ptrs[L + 1 - k]>> \o (IF k = 1 THEN <<>> ELSE f[k - 1])
        BY <1>3, <4>1
      <4>3. tail[k] = <<ptrs[L + 1 - k]>> \o (IF k = 1 THEN <<>> ELSE tail[k - 1])
        BY <1>6, <4>1
      <4> QED BY <3>3, <4>1, <4>2, <4>3
    <3> QED BY <3>1, <3>4
  <2> QED BY <1>2, <2>2
<1>10. tail[L] = ptrs
  BY <1>2 DEF tail
<1> QED
  <2> HIDE DEF Is
  <2>1. Is(from) BY <1>8
  <2> HIDE DEF from
  <2> QED BY <1>1, <1>9, <1>10, <2>1

\* What libalpm reads of a call's input is what it was called with.
LEMMA ReadSays ==
  ASSUME NEW m \in Methods, NEW in \in Slices(m), \A a \in DOMAIN ForCall(m, in) : heap[a] = ForCall(m, in)[a]
  PROVE  Read(m, in) = Said(in)
<1>1. ASSUME NEW l \in InputLists(m) PROVE Walk(l, in[l]) = in[l]
  <2>1. in[l] \in Seq(PackageCells \cup DOMAIN CStrings(m, in)) /\ DOMAIN in[l] = 1 .. Len(in[l])
    BY InputFacts
  <2>2. \A i \in 1 .. Len(in[l]) : heap[At(l, i)] = Linked(l, in[l], i)
    BY <2>1, ForCallFacts
  <2> QED BY <2>1, <2>2, WalkReads
<1>2. ASSUME NEW l \in DOMAIN in
      PROVE  (IF l = "depstring" THEN Parsed(heap[At("string", 1)]) ELSE Walk(l, in[l])) = Said(in)[l]
  <2>1. CASE l \in InputLists(m)
    <3>1. l # "depstring" BY <2>1, InputFacts
    <3> QED BY <1>1, <2>1, <3>1 DEF Said
  <2>2. CASE l = "depstring" /\ m = "find_dbs_satisfier"
    <3>1. heap[At("string", 1)] = DisplayString(in[l])
      BY <2>2, ForCallFacts
    <3>2. PICK s \in Seq(STRING) : in[l] = Parsed(s)
      <4>1. PICK s \in Values[m] : in[l] = Parsed(s)
        BY <2>2 DEF Slices
      <4>2. m \in DOMAIN Values /\ Element(m) = Seq(STRING)
        BY <2>2, AlpmListsAssumption DEF Element
      <4> QED BY <4>1, <4>2, AlpmListsAssumption
    <3>3. Parsed(DisplayString(in[l])) = [name |-> in[l].name, modifier |-> in[l].modifier,
                                          version |-> in[l].version]
      BY <3>2, RenderingIsDepstring, ParsedFields
    <3> QED BY <2>2, <3>1, <3>3 DEF Said
  <2> QED BY <2>1, <2>2, InputFacts
<1>3. Said(in) = [l \in DOMAIN in |-> Said(in)[l]]
  BY DEF Said
<1> QED BY <1>2, <1>3 DEF Read

--------------------------------------------------------------------------------
(* The invariant holds at first, and each action keeps it                      *)

\* A result is a sequence of bounded length, of values its wrapper may get.
LEMMA ResultsFacts ==
  ASSUME NEW m, NEW vs \in Results(m)
  PROVE  /\ Len(vs) \in 0 .. MaxResult /\ DOMAIN vs = 1 .. Len(vs) /\ Len(vs) \in Nat
         /\ vs = [i \in 1 .. Len(vs) |-> vs[i]]
         /\ m \in OwnsNodes \cup Lends => \A i \in DOMAIN vs : vs[i] \in Element(m)
         /\ m \notin OwnsNodes \cup Lends => vs = <<>>
<1>1. MaxResult \in Nat
  BY AlpmListsAssumption
<1>2. CASE m \in OwnsNodes \cup Lends
  <2>1. Results(m) = SeqsUpTo(Values[m], MaxResult)
    BY <1>2 DEF Results
  <2>2. /\ Len(vs) \in 0 .. MaxResult /\ DOMAIN vs = 1 .. Len(vs)
        /\ \A i \in DOMAIN vs : vs[i] \in Values[m]
        /\ vs = [i \in 1 .. Len(vs) |-> vs[i]]
    <3>1. /\ vs \in Seq(Values[m]) /\ Len(vs) \in 0 .. MaxResult /\ DOMAIN vs = 1 .. Len(vs)
          /\ \A i \in DOMAIN vs : vs[i] \in Values[m]
      BY <1>1, <2>1, SeqsUpToFacts
    <3>2. vs = [i \in 1 .. Len(vs) |-> vs[i]]
      BY <3>1
    <3> QED BY <3>1, <3>2
  <2>3. m \in DOMAIN Values
    BY <1>2, AlpmListsAssumption DEF Methods, OwnsNodes, OwnsPayloads, Lends
  <2>4. Values[m] \subseteq Element(m)
    BY <2>3, AlpmListsAssumption
  <2> QED BY <1>1, <1>2, <2>2, <2>4
<1>3. CASE m \notin OwnsNodes \cup Lends
  <2>1. vs = <<>> BY <1>3 DEF Results
  <2> QED BY <1>1, <1>3, <2>1
<1> QED BY <1>2, <1>3

\* No result counts as an empty one.
LEMMA EmptyResult == \A m : <<>> \in Results(m)
<1> SUFFICES ASSUME NEW m PROVE <<>> \in Results(m)
  OBVIOUS
<1>1. CASE m \in OwnsNodes \cup Lends
  <2>1. <<>> \in [1 .. 0 -> Values[m]] /\ 0 \in 0 .. MaxResult
    BY AlpmListsAssumption
  <2>2. <<>> \in SeqsUpTo(Values[m], MaxResult)
    BY <2>1 DEF SeqsUpTo
  <2> QED BY <1>1, <2>2 DEF Results
<1> QED BY <1>1 DEF Results

\* A place in a list and the position there tell the same.
LEMMA PlaceFacts ==
  ASSUME NEW m, NEW vs, Len(vs) \in Nat, NEW i \in 1 .. Len(vs) + 1
  PROVE  /\ (IF Place(m, vs, i) = Null THEN Len(vs) + 1 ELSE Place(m, vs, i)[2]) = i
         /\ Place(m, vs, i) = Null <=> i = Len(vs) + 1
BY AtIsAddress DEF Place

\* It holds at first.
LEMMA InitIInv == Init => IInv
<1> SUFFICES ASSUME Init PROVE IInv
  OBVIOUS
<1>1. Phases
  BY DEF Init, Phases
<1>2. Position = 1 /\ Len(meant) = 0
  BY DEF Init, Position
<1>3. Walking
  BY <1>2, EmptyResult DEF Init, Walking, Place
<1>4. Left = {} /\ Made = {}
  BY DEF Init, Left, LeftOf, Made
<1>5. DOMAIN Cache = PackageCells
  BY DEF Cache
<1>6. Accounted
  BY <1>4, <1>5 DEF Init, Accounted
<1>7. Collecting
  BY <1>2 DEF Init, Collecting
<1> QED BY <1>1, <1>3, <1>6, <1>7 DEF Init, IInv, Heard

\* Packages, what was made for the call and what libalpm gave lie apart.
LEMMA Apart ==
  ASSUME NEW m \in Methods, NEW in \in Slices(m), NEW vs
  PROVE  /\ \A a \in PackageCells : a[1] = "package"
         /\ \A a \in DOMAIN ForCall(m, in) :
              a[1] \notin {"package", "result", "payload", "lent", "filelist"}
         /\ m \in OwnsNodes \cup Lends =>
              \A a \in DOMAIN Given(m, vs) : a[1] \in {"result", "payload", "lent", "filelist"}
<1>1. \A l \in InputLists(m) : l \notin {"package", "result", "payload", "lent", "filelist"}
  BY InputFacts
<1> QED BY <1>1, CacheFacts, ForCallFacts, GivenKinds

\* A call makes its strings and chains.
LEMMA BeginKeeps ==
  ASSUME IInv, NEW m \in Methods, Begin(m)
  PROVE  IInv'
<1>1. PICK in \in Slices(m) : input' = in /\ heap' = Merge(heap, ForCall(m, in))
  BY DEF Begin, ForCall
<1>2. /\ pc = "idle" /\ pc' = "call" /\ method' = m
      /\ UNCHANGED <<result, node, out, told, meant>>
  BY DEF Begin
<1>3. /\ meant = <<>> /\ told = NoInput /\ Left = {} /\ Made = {}
  BY <1>2 DEF IInv, Phases, Left, LeftOf, Made
<1>4. Position = 1 /\ result = Null /\ node = Null /\ Len(meant) = 0
  <2>1. Len(meant) = 0 BY <1>3
  <2> QED BY <1>3, <2>1 DEF IInv, Walking, Place
<1>5. DOMAIN heap = PackageCells /\ \A a \in PackageCells : heap[a] = Cache[a]
  BY <1>3 DEF IInv, Accounted
<1>6. Phases'
  BY <1>1, <1>2, <1>3 DEF Phases, Methods
<1>7. Position' = 1
  BY <1>2, <1>4 DEF Position
<1>8. Walking'
  BY <1>2, <1>3, <1>4, <1>7, EmptyResult DEF Walking, Place
<1>9. Left' = {} /\ Made' = DOMAIN ForCall(m, in)
  BY <1>1, <1>2 DEF Left, LeftOf, Made
<1>10. Accounted'
  <2> DEFINE f == ForCall(m, in)
  <2>1. \A a \in DOMAIN f : a \notin PackageCells
    BY Apart
  <2> HIDE DEF f
  <2>2. heap' = Merge(heap, f)
    BY <1>1 DEF f
  <2>3. DOMAIN heap' = PackageCells \cup DOMAIN f
    BY <1>5, <2>2 DEF Merge
  <2>4. \A a \in PackageCells : heap'[a] = Cache[a]
    BY <1>5, <2>2 DEF Merge
  <2>5. \A a \in DOMAIN f : heap'[a] = f[a]
    BY <1>5, <2>1, <2>2 DEF Merge
  <2>6. ForCall(method', input') = f
    BY <1>1, <1>2 DEF f
  <2> QED BY <1>9, <2>3, <2>4, <2>5, <2>6 DEF Accounted, f
<1>11. Collecting'
  BY <1>2, <1>3, <1>4, <1>7 DEF IInv, Collecting
<1> QED BY <1>2, <1>3, <1>6, <1>8, <1>10, <1>11 DEF IInv, Heard

\* Before libalpm is done there is nothing of its in memory but the packages.
LEMMA Calling ==
  ASSUME IInv, pc = "call"
  PROVE  /\ method \in Methods /\ input \in Slices(method) /\ Read(method, input) = Said(input)
         /\ meant = <<>> /\ Len(meant) = 0 /\ result = Null /\ node = Null
         /\ DOMAIN heap = PackageCells \cup DOMAIN ForCall(method, input)
<1>1. method \in Methods /\ input \in Slices(method) /\ meant = <<>>
  BY DEF IInv, Phases
<1>2. Len(meant) = 0
  BY <1>1
<1>3. result = Null /\ node = Null
  <2>1. result = Null BY <1>2 DEF IInv, Walking, Place
  <2>2. Position = 1 BY <1>2 DEF IInv, Walking
  <2> QED BY <1>2, <2>1, <2>2 DEF IInv, Walking, Place
<1>4. Left = {} /\ Made = DOMAIN ForCall(method, input)
  BY DEF Left, LeftOf, Made
<1>5. /\ DOMAIN heap = PackageCells \cup DOMAIN ForCall(method, input)
      /\ \A a \in DOMAIN ForCall(method, input) : heap[a] = ForCall(method, input)[a]
  BY <1>4 DEF IInv, Accounted
<1>6. Read(method, input) = Said(input)
  BY <1>1, <1>5, ReadSays
<1> QED BY <1>1, <1>2, <1>3, <1>5, <1>6

\* libalpm reads them and gives a result, of which nothing is read yet.
LEMMA LibalpmKeeps ==
  ASSUME IInv, Libalpm
  PROVE  IInv'
<1>1. /\ pc = "call" /\ pc' = "copy" /\ method \in OwnsNodes \cup Lends
      /\ told' = Read(method, input) /\ UNCHANGED <<method, input, out>>
  BY DEF Libalpm
<1>2. PICK vs \in SeqsUpTo(Values[method], MaxResult) :
        /\ meant' = vs /\ heap' = Merge(heap, Given(method, vs))
        /\ result' = Head0(method, vs) /\ node' = result'
  BY DEF Libalpm
<1>3. /\ method \in Methods /\ input \in Slices(method) /\ told' = Said(input)
      /\ meant = <<>> /\ Len(meant) = 0
      /\ DOMAIN heap = PackageCells \cup DOMAIN ForCall(method, input)
  BY <1>1, Calling
<1>4. vs \in Results(method) /\ Len(vs) \in Nat
  <2>1. vs \in Results(method) BY <1>1, <1>2 DEF Results
  <2> QED BY <2>1, ResultsFacts
<1>5. Phases'
  BY <1>1, <1>3 DEF Phases
<1>6. Head0(method, vs) = Place(method, vs, 1)
  <2>1. vs = <<>> <=> Len(vs) = 0
    <3>1. vs \in Seq(Values[method]) BY <1>2, SeqsUpToFacts, AlpmListsAssumption
    <3> QED BY <3>1
  <2> QED BY <1>4, <2>1 DEF Head0, Place
<1>7. Position' = 1
  BY <1>2, <1>4, <1>6, PlaceFacts DEF Position
<1>8. Walking'
  BY <1>1, <1>2, <1>4, <1>6, <1>7 DEF Walking
<1>9. Left' = DOMAIN Given(method, vs) /\ Made' = DOMAIN ForCall(method, input)
  BY <1>1, <1>2 DEF Left, LeftOf, Made
<1>10. Accounted'
  <2> DEFINE f == Given(method, vs)
             g == ForCall(method, input)
  <2>1. /\ \A a \in DOMAIN f : a \notin PackageCells /\ a \notin DOMAIN g
    BY <1>1, <1>3, Apart
  <2>2. /\ \A a \in PackageCells : heap[a] = Cache[a]
        /\ \A a \in DOMAIN g : heap[a] = g[a]
    BY <1>1 DEF IInv, Accounted, Made
  <2> HIDE DEF f, g
  <2>3. heap' = Merge(heap, f) /\ DOMAIN heap = PackageCells \cup DOMAIN g
    BY <1>2, <1>3 DEF f, g
  <2>4. DOMAIN heap' = DOMAIN heap \cup DOMAIN f
    BY <2>3 DEF Merge
  <2>5. \A a \in DOMAIN heap : heap'[a] = heap[a]
    BY <2>3 DEF Merge
  <2>6. \A a \in DOMAIN f : heap'[a] = f[a]
    BY <2>1, <2>3 DEF Merge
  <2>7. ForCall(method', input') = g /\ Given(method', meant') = f
    BY <1>1, <1>2 DEF f, g
  <2>8. Left' = DOMAIN f /\ Made' = DOMAIN g
    BY <1>9 DEF f, g
  <2> QED BY <2>2, <2>3, <2>4, <2>5, <2>6, <2>7, <2>8 DEF Accounted
<1>11. Collecting'
  <2>1. out = <<>>
    BY <1>1, <1>3 DEF IInv, Collecting
  <2> QED BY <1>1, <1>7, <2>1 DEF Collecting
<1>12. Heard'
  BY <1>1, <1>3 DEF Heard
<1> QED BY <1>5, <1>8, <1>10, <1>11, <1>12 DEF IInv

\* update_dbs, find_dbs_satisfier and a search that fails: nothing but `told'
\* changes.
LEMMA NoResultKeeps ==
  ASSUME IInv, NoList \/ Refuse
  PROVE  IInv'
<1>1. /\ pc = "call" /\ pc' = "drop" /\ method \in {"update_dbs", "find_dbs_satisfier", "search"}
      /\ UNCHANGED <<method, input, heap, result, node, out, meant>>
      /\ told' = Read(method, input) \/ told' = told
  BY DEF NoList, Refuse
<1>2. /\ method \in Methods /\ input \in Slices(method) /\ Read(method, input) = Said(input)
      /\ meant = <<>> /\ Len(meant) = 0
  BY <1>1, Calling
<1>3. Phases'
  BY <1>1, <1>2 DEF Phases
<1>4. Position' = Position
  BY <1>1 DEF Position
<1>5. Walking'
  BY <1>1, <1>4 DEF IInv, Walking
<1>6. Left' = {} /\ Left = {} /\ Made' = Made
  <2>1. method' \notin Lends BY <1>1 DEF Lends
  <2> QED BY <1>1, <2>1 DEF Left, LeftOf, Made
<1>7. Accounted'
  BY <1>1, <1>6 DEF IInv, Accounted
<1>8. Collecting'
  BY <1>1, <1>4 DEF IInv, Collecting
<1>9. Heard'
  BY <1>1, <1>2 DEF IInv, Heard
<1> QED BY <1>3, <1>5, <1>7, <1>8, <1>9 DEF IInv

\* A package is in memory as the cache has it.
LEMMA PackagesHeld ==
  ASSUME IInv, NEW p \in Packages
  PROVE  Holds(heap, PackageAt(At("package", p.name), p))
<1>1. Holds(Cache, PackageAt(At("package", p.name), p)) /\ DOMAIN Cache = PackageCells
  BY CacheFacts DEF Cache
<1>2. PackageCells \subseteq DOMAIN heap /\ \A a \in PackageCells : heap[a] = Cache[a]
  BY DEF IInv, Accounted
<1> QED BY <1>1, <1>2 DEF Holds

\* Where an iteration or a freeing loop stands there is a node, as libalpm made it.
LEMMA Here ==
  ASSUME IInv, pc \in {"copy", "free_inner", "free"}, node # Null
  PROVE  /\ method \in OwnsNodes \cup Lends /\ meant \in Results(method)
         /\ Position \in 1 .. Len(meant) /\ Len(meant) \in Nat /\ Position \in DOMAIN meant
         /\ method # "files" => /\ node = At("result", Position) /\ node \in Left
                               /\ node \in DOMAIN heap /\ heap[node] = Node(method, meant, Position)
         /\ method = "files" => node = At("lent", Position)
<1>1. method \in OwnsNodes \cup Lends
  BY DEF IInv, Phases, OwnsNodes, OwnsPayloads
<1>2. meant \in Results(method) /\ Len(meant) \in Nat /\ DOMAIN meant = 1 .. Len(meant)
  BY ResultsFacts DEF IInv, Walking
<1>3. Position \in 1 .. Len(meant) + 1 /\ node = Place(method, meant, Position)
  BY DEF IInv, Walking
<1>4. Position # Len(meant) + 1
  BY <1>2, <1>3, PlaceFacts
<1>5. Position \in 1 .. Len(meant)
  BY <1>2, <1>3, <1>4
<1>6. node = At(IF method = "files" THEN "lent" ELSE "result", Position)
  BY <1>2, <1>3, <1>5 DEF Place
<1>7. ASSUME method # "files"
      PROVE  node \in Left /\ node \in DOMAIN heap /\ heap[node] = Node(method, meant, Position)
  <2>1. /\ node \in DOMAIN Given(method, meant)
        /\ Given(method, meant)[node] = Node(method, meant, Position)
    <3>1. \A i \in DOMAIN meant : /\ At("result", i) \in DOMAIN Given(method, meant)
                                 /\ Given(method, meant)[At("result", i)] = Node(method, meant, i)
      BY <1>1, <1>7, GivenNode
    <3>2. node = At("result", Position) /\ Position \in DOMAIN meant
      BY <1>2, <1>5, <1>6, <1>7
    <3> QED BY <3>1, <3>2
  <2>2. node[1] = "result" /\ node[2] = Position
    BY <1>6, <1>7, AtIsAddress
  <2>3. Position >= Position BY <1>2, <1>5
  <2>4. node \in Left
    BY <2>1, <2>2, <2>3 DEF Left, LeftOf
  <2> QED BY <2>1, <2>4 DEF IInv, Accounted
<1> QED BY <1>1, <1>2, <1>5, <1>6, <1>7

\* What is collected from a struct is the value libalpm put there, or the view
\* of the package.
LEMMA Collected1 ==
  ASSUME IInv, NEW v \in Element(method), NEW i,
         method \in Structs => Holds(heap, ElementAt(method, Address(method, i), v)),
         method \in OwnsNodes \cup Lends
  PROVE  Collect(ElementAddress(method, i, v)) = Copied(method, v)
<1>1. IsAddress(Address(method, i))
  BY AtIsAddress DEF Address
<1>2. method \in Structs => ElementAddress(method, i, v) = Address(method, i) /\ Copied(method, v) = v
  BY DEF ElementAddress, Address, Structs, Copied
<1> DEFINE a == Address(method, i)
<1> HIDE DEF a
<1>3. CASE method \in {"search", "packages"}
  BY <1>3 DEF Collect, ElementAddress, Copied
<1>4. CASE method = "check_deps"
  <2>1. v \in DepMissing /\ Holds(heap, DepMissingAt(a, v)) /\ method \in Structs
    BY <1>4 DEF Element, ElementAt, Structs, a
  <2>2. DepMissingOf(heap, a) = v BY <1>1, <2>1, DepMissingRead DEF a
  <2> QED BY <1>2, <1>4, <2>1, <2>2 DEF Collect, a
<1>5. CASE method = "check_conflicts"
  <2>1. /\ v \in Conflict({p.name : p \in Packages}) /\ Holds(heap, ConflictAt(a, v))
        /\ method \in Structs
    BY <1>5 DEF Element, ElementAt, Structs, Names, a
  <2>2. \A p \in Packages : Holds(heap, PackageAt(At("package", p.name), p))
    BY PackagesHeld
  <2>3. Packages \in SUBSET Package BY AlpmListsAssumption
  <2>4. ConflictOf(heap, a) = v BY <1>1, <2>1, <2>2, <2>3, ConflictRead DEF a
  <2> QED BY <1>2, <1>5, <2>1, <2>4 DEF Collect, a
<1>6. CASE method = "depends"
  <2>1. v \in Dependency /\ Holds(heap, DependAt(a, v)) /\ method \in Structs
    BY <1>6 DEF Element, ElementAt, Structs, a
  <2>2. DependencyOf(heap, a) = v BY <1>1, <2>1, DependencyRead DEF a
  <2> QED BY <1>2, <1>6, <2>1, <2>2 DEF Collect, a
<1>7. CASE method = "licenses"
  <2>1. Holds(heap, Cell(a, v)) /\ method \in Structs
    BY <1>7 DEF ElementAt, Structs, a
  <2>2. heap[a] = v /\ a # Null
    BY <2>1, AtIsAddress DEF Holds, Cell, a, Address
  <2> QED BY <1>2, <1>7, <2>1, <2>2 DEF Collect, cstr, a
<1>8. CASE method = "backup"
  <2>1. v \in BackupEntry /\ Holds(heap, BackupAt(a, v)) /\ method \in Structs
    BY <1>8 DEF Element, ElementAt, Structs, a
  <2>2. BackupEntryOf(heap, a) = v BY <1>1, <2>1, BackupRead DEF a
  <2> QED BY <1>2, <1>8, <2>1, <2>2 DEF Collect, a
<1>9. CASE method = "files"
  <2>1. v \in PackageFile /\ Holds(heap, FileAt(a, v)) /\ method \in Structs
    BY <1>9 DEF Element, ElementAt, Structs, a
  <2>2. PackageFileOf(heap, a) = v BY <1>1, <2>1, FileRead DEF a
  <2> QED BY <1>2, <1>9, <2>1, <2>2 DEF Collect, a
<1> QED BY <1>3, <1>4, <1>5, <1>6, <1>7, <1>8, <1>9 DEF OwnsNodes, OwnsPayloads, Lends

\* The iteration finds the element it stands at, in memory, and goes on to the
\* next place.
LEMMA Reading ==
  ASSUME IInv, pc = "copy", node # Null
  PROVE  /\ Data(node) = ElementAddress(method, Position, meant[Position])
         /\ Following(node) = Place(method, meant, Position + 1)
         /\ Collect(Data(node)) = Copied(method, meant[Position])
<1>1. /\ method \in OwnsNodes \cup Lends /\ meant \in Results(method)
      /\ Position \in 1 .. Len(meant) /\ Len(meant) \in Nat /\ Position \in DOMAIN meant
      /\ method # "files" => /\ node = At("result", Position)
                            /\ heap[node] = Node(method, meant, Position)
      /\ method = "files" => node = At("lent", Position)
  BY Here
<1>2. Left = DOMAIN Given(method, meant)
  BY DEF Left, LeftOf
<1>3. Position + 1 > Len(meant) <=> ~(Position < Len(meant))
  BY <1>1
<1>4. ASSUME method = "files"
      PROVE  /\ Data(node) = ElementAddress(method, Position, meant[Position])
             /\ Following(node) = Place(method, meant, Position + 1)
  <2>1. Data(node) = ElementAddress(method, Position, meant[Position])
    BY <1>1, <1>4 DEF Data, ElementAddress, OwnsPayloads
  <2>2. heap[At("filelist", 0)] = [count |-> Len(meant)]
    <3>1. At("filelist", 0) \in DOMAIN Given(method, meant)
          /\ Given(method, meant)[At("filelist", 0)] = [count |-> Len(meant)]
      BY <1>1, <1>4, GivenArray
    <3> QED BY <1>2, <3>1 DEF IInv, Accounted
  <2>3. node[2] = Position
    BY <1>1, <1>4, AtIsAddress
  <2>4. Following(node) = Place(method, meant, Position + 1)
    BY <1>3, <1>4, <2>2, <2>3 DEF Following, Place
  <2> QED BY <1>1, <2>1, <2>4
<1>5. ASSUME method # "files"
      PROVE  /\ Data(node) = ElementAddress(method, Position, meant[Position])
             /\ Following(node) = Place(method, meant, Position + 1)
  <2>1. /\ heap[node].data = ElementAddress(method, Position, meant[Position])
        /\ heap[node].next = IF Position < Len(meant) THEN At("result", Position + 1) ELSE Null
    BY <1>1, <1>5 DEF Node
  <2> QED BY <1>3, <1>5, <2>1 DEF Data, Following, Place
<1>6. Collect(ElementAddress(method, Position, meant[Position])) = Copied(method, meant[Position])
  <2>1. meant[Position] \in Element(method)
    BY <1>1, ResultsFacts
  <2>2. ASSUME method \in Structs
        PROVE  Holds(heap, ElementAt(method, Address(method, Position), meant[Position]))
    <3>1. Holds(Given(method, meant), ElementAt(method, Address(method, Position), meant[Position]))
      BY <1>1, <2>2, GivenStruct
    <3>2. /\ DOMAIN Given(method, meant) \subseteq DOMAIN heap
          /\ \A a \in DOMAIN Given(method, meant) : heap[a] = Given(method, meant)[a]
      BY <1>2 DEF IInv, Accounted
    <3> QED BY <3>1, <3>2 DEF Holds
  <2> QED BY <1>1, <2>1, <2>2, Collected1
<1> QED BY <1>4, <1>5, <1>6

\* Where the next place in the list is.
LEMMA Onward ==
  ASSUME Position \in 1 .. Len(meant), Len(meant) \in Nat,
         node' = Place(method, meant, Position + 1), UNCHANGED meant
  PROVE  Position' = Position + 1
<1> DEFINE i == Position + 1
<1>1. i \in 1 .. Len(meant) + 1
  OBVIOUS
<1> HIDE DEF i
<1>2. (IF Place(method, meant, i) = Null THEN Len(meant) + 1 ELSE Place(method, meant, i)[2]) = i
  BY <1>1, PlaceFacts
<1>3. node' = Place(method, meant, i)
  BY DEF i
<1>4. Position' = i
  BY <1>2, <1>3 DEF Position
<1> QED BY <1>4 DEF i

\* One more element is copied (list.rs:76-87, pkg.rs:162-169).
LEMMA IterateKeeps ==
  ASSUME IInv, Iterate
  PROVE  IInv'
<1>1. /\ pc = "copy" /\ node # Null
      /\ out' = Append(out, Collect(Data(node))) /\ node' = Following(node)
      /\ UNCHANGED <<method, pc, input, heap, result, told, meant>>
  BY DEF Iterate
<1>2. /\ Position \in 1 .. Len(meant) /\ Len(meant) \in Nat
      /\ node' = Place(method, meant, Position + 1)
      /\ out' = Append(out, Copied(method, meant[Position]))
  BY <1>1, Here, Reading
<1>3. Position' = Position + 1
  BY <1>1, <1>2, Onward
<1>4. Phases'
  BY <1>1 DEF IInv, Phases
<1>5. Walking'
  BY <1>1, <1>2, <1>3 DEF IInv, Walking
<1>6. Left' = Left /\ Made' = Made
  BY <1>1 DEF Left, LeftOf, Made
<1>7. Accounted'
  BY <1>1, <1>6 DEF IInv, Accounted
<1>8. Collecting'
  <2> DEFINE n == Position - 1
             F(i) == Copied(method, meant[i])
  <2>1. n \in Nat /\ n + 1 = Position
    BY <1>2
  <2>2. out = [i \in 1 .. n |-> F(i)]
    BY <1>1 DEF IInv, Collecting
  <2>3. out' = [i \in 1 .. Position |-> F(i)]
    <3>1. out' = Append(out, F(n + 1)) BY <1>2, <2>1
    <3> HIDE DEF n, F
    <3> QED BY <2>1, <2>2, <3>1
  <2>4. Position' - 1 = Position /\ pc' = "copy"
    BY <1>1, <1>2, <1>3
  <2> QED BY <1>1, <2>3, <2>4 DEF Collecting
<1>9. Heard'
  BY <1>1 DEF IInv, Heard
<1> QED BY <1>4, <1>5, <1>7, <1>8, <1>9 DEF IInv

\* From one loop to the next, or to the end: what is left is left.
LEMMA GotoKeeps ==
  ASSUME IInv, NEW phase \in {"free_inner", "free", "drop"}, Goto(phase),
         pc \in {"copy", "free_inner", "free"},
         phase = "free_inner" => method \in OwnsPayloads, phase = "free" => method \in OwnsNodes,
         LeftOf(method, meant, phase, 1) = LeftOf(method, meant, pc, Len(meant) + 1)
  PROVE  IInv'
<1>1. /\ node = Null /\ pc' = phase /\ node' = result
      /\ UNCHANGED <<method, input, heap, result, out, told, meant>>
  BY DEF Goto
<1>2. Len(meant) \in Nat
  BY ResultsFacts DEF IInv, Walking
<1>3. Position = Len(meant) + 1
  BY <1>1 DEF Position
<1>4. Position' = 1 /\ node' = Place(method, meant, 1)
  <2>1. 1 \in 1 .. Len(meant) + 1 BY <1>2
  <2>2. result = Place(method, meant, 1) BY DEF IInv, Walking
  <2>3. (IF Place(method, meant, 1) = Null THEN Len(meant) + 1 ELSE Place(method, meant, 1)[2]) = 1
    BY <1>2, <2>1, PlaceFacts
  <2> QED BY <1>1, <2>2, <2>3 DEF Position
<1>5. Phases'
  BY <1>1 DEF IInv, Phases
<1>6. Walking'
  BY <1>1, <1>2, <1>4 DEF IInv, Walking
<1>7. Left' = Left /\ Made' = Made
  BY <1>1, <1>3, <1>4 DEF Left, Made
<1>8. Accounted'
  BY <1>1, <1>7 DEF IInv, Accounted
<1>9. Collecting'
  <2>1. (IF pc = "copy" THEN Position - 1 ELSE Len(meant)) = Len(meant)
    BY <1>2, <1>3
  <2> QED BY <1>1, <2>1 DEF IInv, Collecting
<1>10. Heard'
  BY <1>1 DEF IInv, Heard
<1> QED BY <1>5, <1>6, <1>8, <1>9, <1>10 DEF IInv

\* At the end of the list everything was copied.
LEMMA CollectedKeeps ==
  ASSUME IInv, Collected
  PROVE  IInv'
<1>1. pc = "copy" /\ method \in OwnsNodes \cup Lends
  BY DEF IInv, Phases, Collected
<1>2. DOMAIN meant = 1 .. Len(meant) /\ Len(meant) \in Nat
  BY ResultsFacts DEF IInv, Walking
<1>3. LeftOf(method, meant, "copy", Len(meant) + 1) = DOMAIN Given(method, meant)
  BY DEF LeftOf
<1>4. CASE method \in OwnsPayloads
  <2>1. Goto("free_inner")
    BY <1>4 DEF Collected, OwnsPayloads, Lends
  <2>2. \A a \in DOMAIN Given(method, meant) : a[2] >= 1
    <3>1. \A a \in DOMAIN Given(method, meant) : a[2] \in DOMAIN meant
      BY <1>1, <1>4, GivenKinds DEF OwnsNodes
    <3> QED BY <1>2, <3>1
  <2>3. LeftOf(method, meant, "free_inner", 1) = DOMAIN Given(method, meant)
    BY <2>2 DEF LeftOf
  <2> QED BY <1>1, <1>3, <1>4, <2>1, <2>3, GotoKeeps
<1>5. CASE method = "search"
  <2>1. Goto("free") /\ method \in OwnsNodes
    BY <1>5 DEF Collected, OwnsPayloads, Lends, OwnsNodes
  <2>2. \A a \in DOMAIN Given(method, meant) : a[1] = "result" /\ a[2] >= 1
    <3>1. \A a \in DOMAIN Given(method, meant) : a[1] = "result" /\ a[2] \in DOMAIN meant
      BY <1>1, <1>5, <2>1, GivenKinds
    <3> QED BY <1>2, <3>1
  <2>3. LeftOf(method, meant, "free", 1) = DOMAIN Given(method, meant)
    BY <2>2 DEF LeftOf
  <2> QED BY <1>1, <1>3, <2>1, <2>3, GotoKeeps
<1>6. CASE method \in Lends
  <2>1. Goto("drop")
    BY <1>6 DEF Collected, OwnsPayloads, Lends
  <2>2. LeftOf(method, meant, "drop", 1) = DOMAIN Given(method, meant)
    BY <1>6 DEF LeftOf
  <2> QED BY <1>1, <1>3, <2>1, <2>2, GotoKeeps
<1> QED BY <1>1, <1>4, <1>5, <1>6 DEF OwnsNodes

\* At the end of alpm_list_free_inner the payloads are gone and the nodes are not.
LEMMA FreeInnerDoneKeeps ==
  ASSUME IInv, FreeInnerDone
  PROVE  IInv'
<1>1. pc = "free_inner" /\ Goto("free") /\ method \in OwnsPayloads /\ method \in OwnsNodes
  BY DEF FreeInnerDone, IInv, Phases, OwnsNodes
<1>2. DOMAIN meant = 1 .. Len(meant) /\ Len(meant) \in Nat
  BY ResultsFacts DEF IInv, Walking
<1>3. \A a \in DOMAIN Given(method, meant) : a[2] >= 1 /\ ~(a[2] >= Len(meant) + 1)
  <2>1. \A a \in DOMAIN Given(method, meant) : a[2] \in DOMAIN meant
    BY <1>1, GivenKinds
  <2> QED BY <1>2, <2>1
<1>4. LeftOf(method, meant, "free", 1) = LeftOf(method, meant, "free_inner", Len(meant) + 1)
  BY <1>3 DEF LeftOf
<1> QED BY <1>1, <1>4, GotoKeeps

\* At the end of alpm_list_free nothing of the result is left.
LEMMA FreeDoneKeeps ==
  ASSUME IInv, FreeDone
  PROVE  IInv'
<1>1. pc = "free" /\ Goto("drop") /\ method \in OwnsNodes
  BY DEF FreeDone, IInv, Phases
<1>2. DOMAIN meant = 1 .. Len(meant) /\ Len(meant) \in Nat
  BY ResultsFacts DEF IInv, Walking
<1>3. \A a \in DOMAIN Given(method, meant) : ~(a[2] >= Len(meant) + 1)
  <2>1. \A a \in DOMAIN Given(method, meant) : a[2] \in DOMAIN meant
    BY <1>1, GivenKinds
  <2> QED BY <1>2, <2>1
<1>4. method \notin Lends
  BY <1>1 DEF OwnsNodes, OwnsPayloads, Lends
<1>5. LeftOf(method, meant, "drop", 1) = LeftOf(method, meant, "free", Len(meant) + 1)
  BY <1>3, <1>4 DEF LeftOf
<1> QED BY <1>1, <1>5, GotoKeeps

\* A freeing loop takes away what it stands at, and goes on.
LEMMA FreeKeeps ==
  ASSUME IInv, pc \in {"free_inner", "free"}, node # Null,
         NEW Gone, \A a \in Gone : a[1] \in {"result", "payload"},
         LeftOf(method, meant, pc, Position + 1) = Left \ Gone,
         heap' = [a \in DOMAIN heap \ Gone |-> heap[a]], node' = heap[node].next,
         UNCHANGED <<method, pc, input, result, out, told, meant>>
  PROVE  IInv'
<1>1. /\ method \in OwnsNodes /\ method # "files"
  BY DEF IInv, Phases, OwnsNodes, OwnsPayloads
<1>2. /\ Position \in 1 .. Len(meant) /\ Len(meant) \in Nat
      /\ heap[node] = Node(method, meant, Position)
  BY <1>1, Here
<1>3. node' = Place(method, meant, Position + 1)
  BY <1>1, <1>2 DEF Node, Place
<1>4. Position' = Position + 1
  BY <1>2, <1>3, Onward
<1>5. Phases'
  BY DEF IInv, Phases
<1>6. Walking'
  BY <1>2, <1>3, <1>4 DEF IInv, Walking
<1>7. Left' = Left \ Gone /\ Made' = Made
  BY <1>4 DEF Left, Made
<1>8. Accounted'
  <2>1. \A a \in Gone : a \notin PackageCells /\ a \notin Made
    <3>1. method \in Methods /\ input \in Slices(method)
      BY DEF IInv, Phases
    <3> QED BY <3>1, Apart DEF Made
  <2>2. DOMAIN heap' = PackageCells \cup Made \cup (Left \ Gone)
    BY <2>1 DEF IInv, Accounted
  <2>3. /\ \A a \in PackageCells \cup Made \cup (Left \ Gone) : heap'[a] = heap[a]
    BY <2>1 DEF IInv, Accounted
  <2> QED BY <1>7, <2>2, <2>3 DEF IInv, Accounted
<1>9. Collecting'
  BY DEF IInv, Collecting
<1>10. Heard'
  BY DEF IInv, Heard
<1> QED BY <1>5, <1>6, <1>8, <1>9, <1>10 DEF IInv

\* A payload goes with its strings and with nothing of another payload.
LEMMA FreeInnerKeeps ==
  ASSUME IInv, FreeInner
  PROVE  IInv'
<1> DEFINE freed == heap[node].data
           Gone == {b \in DOMAIN heap : <<b[1], b[2]>> = <<freed[1], freed[2]>>}
<1>1. /\ pc = "free_inner" /\ node # Null /\ node' = heap[node].next
      /\ heap' = [a \in {b \in DOMAIN heap : <<b[1], b[2]>> # <<freed[1], freed[2]>>} |-> heap[a]]
      /\ UNCHANGED <<method, pc, input, result, out, told, meant>>
  BY DEF FreeInner, free_payload
<1>2. method \in OwnsPayloads /\ method \in OwnsNodes /\ method # "files"
  BY <1>1 DEF IInv, Phases, OwnsNodes, OwnsPayloads
<1>3. Position \in 1 .. Len(meant) /\ Len(meant) \in Nat /\ heap[node] = Node(method, meant, Position)
  BY <1>1, <1>2, Here
<1>4. freed[1] = "payload" /\ freed[2] = Position
  BY <1>2, <1>3, AtIsAddress DEF Node, ElementAddress, OwnsPayloads
<1>5. \A a : a \in Gone <=> a \in DOMAIN heap /\ a[1] = "payload" /\ a[2] = Position
  <2> HIDE DEF freed
  <2> QED BY <1>4
<1>6. heap' = [a \in DOMAIN heap \ Gone |-> heap[a]]
  <2>1. DOMAIN heap \ Gone = {b \in DOMAIN heap : <<b[1], b[2]>> # <<freed[1], freed[2]>>}
    <3> HIDE DEF freed
    <3> QED OBVIOUS
  <2> HIDE DEF Gone, freed
  <2> QED BY <1>1, <2>1
<1>7. LeftOf(method, meant, pc, Position + 1) = Left \ Gone
  <2>1. \A a \in DOMAIN Given(method, meant) : a[1] \in {"result", "payload"} /\ a[2] \in 1 .. Len(meant)
    <3>1. DOMAIN meant = 1 .. Len(meant) BY ResultsFacts DEF IInv, Walking
    <3>2. \A a \in DOMAIN Given(method, meant) : a[1] \in {"result", "payload"} /\ a[2] \in DOMAIN meant
      BY <1>2, GivenKinds
    <3> QED BY <3>1, <3>2
  <2>2. \A a : a \in LeftOf(method, meant, pc, Position + 1) <=>
               a \in DOMAIN Given(method, meant) /\ (a[1] = "result" \/ a[2] >= Position + 1)
    BY <1>1 DEF LeftOf
  <2>3. \A a : a \in Left <=> a \in DOMAIN Given(method, meant) /\ (a[1] = "result" \/ a[2] >= Position)
    BY <1>1 DEF Left, LeftOf
  <2>4. Left \subseteq DOMAIN heap
    BY DEF IInv, Accounted
  <2> HIDE DEF Gone
  <2>5. ASSUME NEW a PROVE a \in LeftOf(method, meant, pc, Position + 1) <=> a \in Left /\ a \notin Gone
    <3>1. CASE a \in DOMAIN Given(method, meant)
      <4> DEFINE w == a[2]
                 q == Position
      <4>1. w \in Nat /\ q \in Nat /\ a[1] \in {"result", "payload"} BY <1>3, <2>1, <3>1
      <4>2. w >= q + 1 <=> w >= q /\ w # q
        <5> HIDE DEF w, q
        <5> QED BY <4>1
      <4>3. a \in Left => a \in DOMAIN heap BY <2>4
      <4> QED BY <1>5, <2>2, <2>3, <3>1, <4>1, <4>2, <4>3
    <3>2. CASE a \notin DOMAIN Given(method, meant)
      BY <2>2, <2>3, <3>2
    <3> QED BY <3>1, <3>2
  <2> QED BY <2>5
<1>8. \A a \in Gone : a[1] \in {"result", "payload"}
  BY <1>5
<1> HIDE DEF Gone
<1> QED BY <1>1, <1>6, <1>7, <1>8, FreeKeeps

\* A node goes after the one behind it was noted.
LEMMA FreeNodeKeeps ==
  ASSUME IInv, FreeNode
  PROVE  IInv'
<1>1. /\ pc = "free" /\ node # Null /\ node' = heap[node].next
      /\ heap' = [a \in DOMAIN heap \ {node} |-> heap[a]]
      /\ UNCHANGED <<method, pc, input, result, out, told, meant>>
  BY DEF FreeNode
<1>2. method \in OwnsNodes /\ method # "files"
  BY <1>1 DEF IInv, Phases, OwnsNodes, OwnsPayloads
<1>3. Position \in 1 .. Len(meant) /\ Len(meant) \in Nat /\ node = At("result", Position)
  BY <1>1, <1>2, Here
<1>4. LeftOf(method, meant, pc, Position + 1) = Left \ {node}
  <2>1. \A a \in DOMAIN Given(method, meant) :
          a[1] = "result" => a[2] \in 1 .. Len(meant) /\ a = At("result", a[2])
    <3>1. DOMAIN meant = 1 .. Len(meant) BY ResultsFacts DEF IInv, Walking
    <3>2. \A a \in DOMAIN Given(method, meant) :
            a[1] = "result" => a[2] \in DOMAIN meant /\ a = At("result", a[2])
      BY <1>2, GivenNodes
    <3> QED BY <3>1, <3>2
  <2>2. \A a : a \in LeftOf(method, meant, pc, Position + 1) <=>
               a \in DOMAIN Given(method, meant) /\ a[1] = "result" /\ a[2] >= Position + 1
    BY <1>1 DEF LeftOf
  <2>3. \A a : a \in Left <=> a \in DOMAIN Given(method, meant) /\ a[1] = "result" /\ a[2] >= Position
    BY <1>1 DEF Left, LeftOf
  <2>4. node[2] = Position
    BY <1>3, AtIsAddress
  <2>5. ASSUME NEW a PROVE a \in LeftOf(method, meant, pc, Position + 1) <=> a \in Left /\ a # node
    <3>1. CASE a \in DOMAIN Given(method, meant) /\ a[1] = "result"
      <4> DEFINE w == a[2]
                 q == Position
      <4>1. w \in Nat /\ q \in Nat BY <1>3, <2>1, <3>1
      <4>2. w >= q + 1 <=> w >= q /\ w # q
        <5> HIDE DEF w, q
        <5> QED BY <4>1
      <4>3. a = node <=> w = q BY <1>3, <2>1, <2>4, <3>1
      <4> QED BY <2>2, <2>3, <3>1, <4>2, <4>3
    <3>2. CASE ~(a \in DOMAIN Given(method, meant) /\ a[1] = "result")
      BY <2>2, <2>3, <3>2
    <3> QED BY <3>1, <3>2
  <2> QED BY <2>5
<1>5. \A a \in {node} : a[1] \in {"result", "payload"}
  BY <1>3, AtIsAddress
<1> QED BY <1>1, <1>4, <1>5, FreeKeeps

\* With the wrapper's locals the last cells of the call are gone.
LEMMA ReturnKeeps ==
  ASSUME IInv, Return
  PROVE  IInv' /\ DOMAIN heap' = PackageCells
<1>1. /\ pc = "drop" /\ heap' = [a \in DOMAIN heap \ CallCells |-> heap[a]]
      /\ method' = "none" /\ pc' = "idle" /\ input' = NoInput
      /\ result' = Null /\ node' = Null /\ out' = <<>> /\ told' = NoInput /\ meant' = <<>>
  BY DEF Return
<1>2. method \in Methods /\ input \in Slices(method)
  BY <1>1 DEF IInv, Phases
<1>3. DOMAIN heap = PackageCells \cup DOMAIN ForCall(method, input) \cup Left
  BY <1>1 DEF IInv, Accounted, Made
<1>4. \A a \in PackageCells : a \notin CallCells
  <2>1. \A a \in PackageCells : a[1] = "package" BY CacheFacts
  <2>2. "package" \notin InputLists(method) \cup {"string"} BY <1>2, InputFacts
  <2> QED BY <2>1, <2>2 DEF CallCells
<1>5. \A a \in DOMAIN ForCall(method, input) : a \in DOMAIN heap => a \in CallCells
  BY <1>2, ForCallFacts DEF CallCells
<1>6. \A a \in Left : a \in DOMAIN heap => a \in CallCells
  <2>1. \A a \in Left : method \in Lends /\ a \in DOMAIN Given(method, meant)
    BY <1>1 DEF Left, LeftOf
  <2>2. method \in Lends => \A a \in DOMAIN Given(method, meant) : a[1] \in {"result", "lent", "filelist"}
    BY GivenKinds
  <2> QED BY <2>1, <2>2 DEF CallCells
<1>7. DOMAIN heap' = PackageCells
  BY <1>1, <1>3, <1>4, <1>5, <1>6
<1>8. \A a \in PackageCells : heap'[a] = Cache[a]
  BY <1>1, <1>4 DEF IInv, Accounted
<1>9. Position' = 1 /\ Len(meant') = 0
  BY <1>1 DEF Position
<1>10. Phases'
  BY <1>1 DEF Phases
<1>11. Walking'
  BY <1>1, <1>9, EmptyResult DEF Walking, Place
<1>12. Left' = {} /\ Made' = {}
  BY <1>1 DEF Left, LeftOf, Made
<1>13. Accounted'
  BY <1>7, <1>8, <1>12 DEF Accounted
<1>14. Collecting'
  BY <1>1, <1>9 DEF Collecting
<1> QED BY <1>1, <1>7, <1>10, <1>11, <1>13, <1>14 DEF IInv, Heard

\* Every step keeps it.
LEMMA NextKeeps ==
  ASSUME IInv, [Next]_vars
  PROVE  IInv'
<1>1. CASE Next
  BY <1>1, BeginKeeps, LibalpmKeeps, NoResultKeeps, IterateKeeps, CollectedKeeps, FreeInnerKeeps,
     FreeInnerDoneKeeps, FreeNodeKeeps, FreeDoneKeeps, ReturnKeeps DEF Next, Step
<1>2. CASE UNCHANGED vars
  BY <1>2 DEF vars, IInv, Phases, Walking, Accounted, Collecting, Heard, Position, Left, Made
<1> QED BY <1>1, <1>2

\* In each phase of each wrapper the memory is exactly the packages, what the
\* wrapper made for the call and what is left of what libalpm gave; the loops
\* stand at a node of it, with what they passed copied.
THEOREM Inductive == Spec => []IInv
<1>1. Init => IInv
  BY InitIInv
<1>2. IInv /\ [Next]_vars => IInv'
  BY NextKeeps
<1> QED BY <1>1, <1>2, PTL DEF Spec

--------------------------------------------------------------------------------
(* What follows from it                                                        *)

\* Between calls nothing is left but the packages (list.rs:14-22).
THEOREM AllIsFreed == Spec => []NothingLeaks
<1>1. IInv => NothingLeaks
  <2> SUFFICES ASSUME IInv, pc = "idle" PROVE DOMAIN heap = PackageCells
    BY DEF NothingLeaks
  <2>1. Left = {} /\ Made = {}
    BY DEF Left, LeftOf, Made
  <2> QED BY <2>1 DEF IInv, Accounted
<1> QED BY <1>1, Inductive, PTL

\* No wrapper frees what libalpm keeps: packages, and lists it lent
\* (list.rs:6-13, db.rs:65-69, 105-113).
THEOREM LentStaysWhole == Spec => []BorrowedIntact
<1>1. IInv => BorrowedIntact
  <2> SUFFICES ASSUME IInv PROVE BorrowedIntact
    OBVIOUS
  <2>1. PackageCells \subseteq DOMAIN heap
    BY DEF IInv, Accounted
  <2>2. ASSUME method \in Lends, pc # "call" PROVE DOMAIN Given(method, meant) \subseteq DOMAIN heap
    <3>1. method # "none" /\ method \notin OwnsPayloads /\ method \notin OwnsNodes
      BY <2>2 DEF Lends, OwnsNodes, OwnsPayloads
    <3>2. pc = "copy" \/ pc = "drop"
      BY <2>2, <3>1 DEF IInv, Phases
    <3>3. Left = DOMAIN Given(method, meant)
      BY <2>2, <3>2 DEF Left, LeftOf
    <3> QED BY <3>3 DEF IInv, Accounted
  <2> QED BY <2>1, <2>2 DEF BorrowedIntact
<1> QED BY <1>1, Inductive, PTL

\* From each chain libalpm reads the slice, however long, from a depstring the
\* dependency (borrowed_list.rs:28-49, pkg.rs:210-215).
THEOREM AlpmReadsTheSlice == Spec => []InputRead
<1>1. IInv => InputRead
  <2> SUFFICES ASSUME IInv, told # NoInput, NEW l \in DOMAIN told
               PROVE  IF l = "depstring"
                      THEN \A f \in {"name", "version", "modifier"} : told[l][f] = input[l][f]
                      ELSE told[l] = input[l]
    BY DEF InputRead
  <2>1. told = Said(input)
    BY DEF IInv, Heard
  <2>2. l \in DOMAIN input
    BY <2>1 DEF Said
  <2>3. CASE l = "depstring"
    <3>1. told[l] = [name |-> input[l].name, modifier |-> input[l].modifier, version |-> input[l].version]
      BY <2>1, <2>2, <2>3 DEF Said
    <3> QED BY <2>3, <3>1
  <2>4. CASE l # "depstring"
    BY <2>1, <2>2, <2>4 DEF Said
  <2> QED BY <2>3, <2>4
<1> QED BY <1>1, Inductive, PTL

\* A wrapper returns what libalpm put in the result, in order and unchanged
\* (list.rs:76-87, pkg.rs:284-285, 316-318).
THEOREM CopiesAreTrue == Spec => []OutIsResult
<1>1. IInv => OutIsResult
  <2> SUFFICES ASSUME IInv, pc = "drop"
               PROVE  meant = IF method \in {"search", "packages"}
                              THEN [i \in DOMAIN out |-> PackageOf(heap, out[i])] ELSE out
    BY DEF OutIsResult
  <2>1. out = [i \in 1 .. Len(meant) |-> Copied(method, meant[i])] /\ DOMAIN out = 1 .. Len(meant)
    BY DEF IInv, Collecting
  <2>2. /\ meant = [i \in 1 .. Len(meant) |-> meant[i]] /\ DOMAIN meant = 1 .. Len(meant)
        /\ method \in OwnsNodes \cup Lends => \A i \in DOMAIN meant : meant[i] \in Element(method)
    BY ResultsFacts DEF IInv, Walking
  <2>3. CASE method \in {"search", "packages"}
    <3>1. \A i \in 1 .. Len(meant) : meant[i] \in Packages
      BY <2>2, <2>3 DEF Element, OwnsNodes, Lends
    <3>2. ASSUME NEW i \in 1 .. Len(meant) PROVE PackageOf(heap, out[i]) = meant[i]
      <4>1. out[i] = At("package", meant[i].name)
        BY <2>1, <2>3 DEF Copied
      <4>2. meant[i] \in Package /\ Holds(heap, PackageAt(At("package", meant[i].name), meant[i]))
        BY <3>1, PackagesHeld, AlpmListsAssumption
      <4> QED BY <4>1, <4>2, AtIsAddress, PackageRead
    <3> HIDE DEF IInv
    <3> QED BY <2>1, <2>2, <2>3, <3>2
  <2>4. CASE method \notin {"search", "packages"}
    <3>1. \A i \in 1 .. Len(meant) : Copied(method, meant[i]) = meant[i]
      BY <2>4 DEF Copied
    <3> QED BY <2>1, <2>2, <2>4, <3>1
  <2> QED BY <2>3, <2>4
<1> QED BY <1>1, Inductive, PTL

\* Nothing is read or freed that is not in memory (list.rs:29-36,
\* borrowed_list.rs:6-13, handle.rs:178-190).
THEOREM ReadsLiveMemory == Spec => []NothingDangles
<1>1. IInv => NothingDangles
  <2> SUFFICES ASSUME IInv PROVE NothingDangles
    OBVIOUS
  <2>1. ASSUME pc = "call", NEW l \in InputLists(method), NEW i \in DOMAIN input[l]
        PROVE  InUse(At(l, i)) /\ InUse(input[l][i])
    <3>1. /\ method \in Methods /\ input \in Slices(method)
          /\ DOMAIN heap = PackageCells \cup DOMAIN ForCall(method, input)
      BY <2>1, Calling
    <3>2. At(l, i) \in DOMAIN ForCall(method, input)
      BY <2>1, <3>1, ForCallFacts
    <3>3. /\ input[l] \in Seq(PackageCells \cup DOMAIN CStrings(method, input))
          /\ DOMAIN input[l] = 1 .. Len(input[l])
      BY <2>1, <3>1, InputFacts
    <3>4. input[l][i] \in PackageCells \cup DOMAIN CStrings(method, input)
      BY <2>1, <3>3
    <3>5. DOMAIN CStrings(method, input) \subseteq DOMAIN ForCall(method, input)
      BY <3>1, ForCallFacts
    <3> QED BY <3>1, <3>2, <3>4, <3>5 DEF InUse
  <2>2. ASSUME pc \in {"copy", "free_inner", "free"}, node # Null
        PROVE  InUse(node) /\ (pc # "free" => InUse(Data(node)))
    <3>1. /\ method \in OwnsNodes \cup Lends /\ meant \in Results(method)
          /\ Position \in 1 .. Len(meant) /\ Len(meant) \in Nat /\ Position \in DOMAIN meant
          /\ method # "files" => node \in DOMAIN heap /\ heap[node] = Node(method, meant, Position)
          /\ method = "files" => node = At("lent", Position)
      BY <2>2, Here
    <3> DEFINE d == ElementAddress(method, Position, meant[Position])
    <3>2. ASSUME pc # "free" PROVE d \in DOMAIN heap
      <4>1. CASE method \in {"search", "packages"}
        <5>1. meant[Position] \in Packages
          <6>1. meant[Position] \in Element(method) BY <3>1, ResultsFacts
          <6> QED BY <4>1, <6>1 DEF Element
        <5>2. d = At("package", meant[Position].name)
          BY <4>1 DEF ElementAddress
        <5> QED BY <5>1, <5>2, CacheFacts DEF IInv, Accounted
      <4>2. CASE method \in Structs
        <5>1. d = Address(method, Position)
          BY <4>2 DEF ElementAddress, Address, Structs
        <5>2. d \in DOMAIN Given(method, meant)
          <6>1. \A i \in DOMAIN meant : Address(method, i) \in DOMAIN Given(method, meant)
            BY <3>1, <4>2, GivenStruct
          <6> HIDE DEF d
          <6> QED BY <3>1, <5>1, <6>1
        <5>3. d[2] = Position /\ Position >= Position
          BY <3>1, <5>1, AtIsAddress DEF Address
        <5>4. d \in Left
          <6> HIDE DEF d
          <6> QED BY <2>2, <3>2, <5>2, <5>3 DEF Left, LeftOf
        <5> QED BY <5>4 DEF IInv, Accounted
      <4> QED BY <3>1, <4>1, <4>2 DEF Structs, OwnsNodes, OwnsPayloads, Lends
    <3>3. CASE method = "files"
      <4>1. pc = "copy"
        BY <2>2, <3>3 DEF IInv, Phases, OwnsNodes, OwnsPayloads
      <4>2. node = d /\ Data(node) = node
        BY <3>1, <3>3 DEF Data, ElementAddress, OwnsPayloads
      <4> QED BY <3>2, <4>1, <4>2 DEF InUse
    <3>4. CASE method # "files"
      <4>1. Data(node) = d
        BY <3>1, <3>4 DEF Data, Node
      <4> QED BY <3>1, <3>2, <3>4, <4>1 DEF InUse
    <3> QED BY <3>3, <3>4
  <2> QED BY <2>1, <2>2 DEF NothingDangles
<1> QED BY <1>1, Inductive, PTL

\* Every variable keeps its shape, the links of the nodes in memory included.
THEOREM TypeCorrect == Spec => []TypeOK
<1>1. IInv => TypeOK
  <2> SUFFICES ASSUME IInv PROVE TypeOK
    OBVIOUS
  <2>1. /\ method \in Methods \cup {"none"}
        /\ pc \in {"idle", "call", "copy", "free_inner", "free", "drop"}
    BY DEF IInv, Phases
  <2>2. Len(meant) \in 0 .. MaxResult /\ MaxResult \in Nat /\ DOMAIN meant = 1 .. Len(meant)
    BY ResultsFacts, AlpmListsAssumption DEF IInv, Walking
  <2>3. \A i \in 1 .. Len(meant) + 1 : Place(method, meant, i) \in Nodes \cup {Null}
    <3> SUFFICES ASSUME NEW i \in 1 .. Len(meant) + 1, i <= Len(meant)
                 PROVE  Place(method, meant, i) \in Nodes
      BY <2>2 DEF Place
    <3>1. i \in 1 .. MaxResult BY <2>2
    <3>2. At("result", i) \in Nodes /\ At("lent", i) \in Nodes BY <3>1 DEF Nodes
    <3>3. ~(i > Len(meant)) BY <2>2
    <3> QED BY <3>2, <3>3 DEF Place
  <2>4. node \in Nodes \cup {Null} /\ result \in Nodes \cup {Null}
    <3>1. 1 \in 1 .. Len(meant) + 1 BY <2>2
    <3> QED BY <2>3, <3>1 DEF IInv, Walking
  <2>5. Len(out) <= MaxResult
    <3> DEFINE n == IF pc = "copy" THEN Position - 1 ELSE Len(meant)
    <3>1. n \in Nat /\ n <= MaxResult
      <4>1. Position \in 1 .. Len(meant) + 1 BY DEF IInv, Walking
      <4> QED BY <2>2, <4>1
    <3>2. out = [i \in 1 .. n |-> Copied(method, meant[i])]
      BY DEF IInv, Collecting
    <3> HIDE DEF n
    <3>3. Len(out) = n BY <3>1, <3>2
    <3> QED BY <3>1, <3>3
  <2>6. ASSUME NEW a \in DOMAIN heap, IsNode(a)
        PROVE  heap[a].next \in Nodes \cup {Null} /\ ~IsNode(heap[a].data)
    <3>1. a \notin PackageCells
      BY <2>6, CacheFacts DEF IsNode
    <3>2. CASE a \in Made
      <4>1. /\ method \in Methods /\ input \in Slices(method) /\ a \in DOMAIN ForCall(method, input)
            /\ heap[a] = ForCall(method, input)[a]
        BY <3>2 DEF IInv, Phases, Accounted, Made
      <4>2. a[1] \in InputLists(method)
        BY <2>6, <4>1, ForCallFacts DEF IsNode
      <4> DEFINE l == a[1]
                 i == a[2]
                 ptrs == input[l]
      <4>3. i \in DOMAIN ptrs /\ heap[a] = Linked(l, ptrs, i)
        BY <4>1, <4>2, ForCallFacts
      <4>4. /\ Len(ptrs) \in 0 .. MaxInput /\ DOMAIN ptrs = 1 .. Len(ptrs)
            /\ \A j \in DOMAIN ptrs : ptrs[j][1] \in {"package", "string"}
        BY <4>1, <4>2, InputList
      <4>5. l \in {"pkglist", "remove", "upgrade", "needles", "dbs"}
        BY <4>1, <4>2 DEF InputLists, Methods, OwnsNodes, OwnsPayloads, Lends
      <4> HIDE DEF l, i, ptrs
      <4>6. i < Len(ptrs) => i + 1 \in 1 .. MaxInput
        BY <4>3, <4>4, AlpmListsAssumption
      <4>7. heap[a].data = ptrs[i] /\ heap[a].next \in Nodes \cup {Null}
        <5>1. i < Len(ptrs) => At(l, i + 1) \in Nodes
          BY <4>5, <4>6 DEF Nodes
        <5> QED BY <4>3, <5>1 DEF Linked
      <4> QED BY <4>3, <4>4, <4>7 DEF IsNode
    <3>3. CASE a \in Left
      <4>1. a \in DOMAIN Given(method, meant) /\ heap[a] = Given(method, meant)[a]
        BY <3>3 DEF IInv, Accounted, Left, LeftOf
      <4>2. method \in OwnsNodes \cup Lends
        BY <3>3 DEF IInv, Phases, Left, LeftOf, OwnsNodes, OwnsPayloads
      <4>3. a[1] = "result"
        <5>1. a[1] \in {"result", "payload", "lent", "filelist"}
          BY <4>1, <4>2, GivenKinds
        <5> QED BY <2>6, <5>1 DEF IsNode
      <4>4. a[2] \in DOMAIN meant /\ heap[a] = Node(method, meant, a[2])
        BY <4>1, <4>2, <4>3, GivenNodes
      <4> DEFINE i == a[2]
      <4> HIDE DEF i
      <4>5. i \in 1 .. Len(meant) /\ heap[a] = Node(method, meant, i)
        BY <2>2, <4>4 DEF i
      <4>6. i < Len(meant) => i + 1 \in 1 .. MaxResult
        BY <2>2, <4>5
      <4>7. ~IsNode(ElementAddress(method, i, meant[i]))
        BY AtIsAddress DEF ElementAddress, IsNode
      <4>8. i < Len(meant) => At("result", i + 1) \in Nodes
        BY <4>6 DEF Nodes
      <4> QED BY <4>5, <4>7, <4>8 DEF Node
    <3> QED BY <3>1, <3>2, <3>3 DEF IInv, Accounted
  <2> QED BY <2>1, <2>2, <2>4, <2>5, <2>6 DEF TypeOK
<1> QED BY <1>1, Inductive, PTL

--------------------------------------------------------------------------------
(* Calls run down                                                              *)

\* How far a call is from its end: the phases to come, and the places of the
\* list that an iteration or a freeing loop has not been at.
Rank == CASE pc = "call" -> 5 [] pc = "copy" -> 4 [] pc = "free_inner" -> 3
          [] pc = "free" -> 2 [] pc = "drop" -> 1 [] OTHER -> 0
Rest == Len(meant) + 1 - Position
Nearer == \/ Rank' < Rank
          \/ Rank' = Rank /\ 0 <= Rest' /\ Rest' < Rest

\* Each step of a call brings it nearer its end, however long the list: no loop
\* stands still, goes back, or runs past the last node (list.rs:76-87,
\* handle.rs:185-207, db.rs:99-113).
THEOREM CallsRunDown == Spec => [][pc # "idle" => Nearer]_vars
<1>1. ASSUME IInv, Step PROVE Nearer
  <2>1. /\ Position \in 1 .. Len(meant) + 1 /\ Len(meant) \in Nat
    BY <1>1, ResultsFacts DEF IInv, Walking
  <2>2. ASSUME pc \in {"copy", "free_inner", "free"}, node # Null, UNCHANGED <<pc, meant>>,
               node' = Place(method, meant, Position + 1)
        PROVE  Nearer
    <3>1. Position \in 1 .. Len(meant) /\ Position' = Position + 1
      BY <1>1, <2>1, <2>2, Here, Onward
    <3>2. Rank' = Rank
      BY <2>2 DEF Rank
    <3>3. Rest' = Len(meant) + 1 - (Position + 1)
      BY <2>2, <3>1 DEF Rest
    <3>4. 0 <= Rest' /\ Rest' < Rest
      BY <2>1, <3>1, <3>3 DEF Rest
    <3> QED BY <3>2, <3>4 DEF Nearer
  <2>3. CASE Iterate
    BY <1>1, <2>2, <2>3, Reading DEF Iterate
  <2>4. ASSUME pc \in {"free_inner", "free"}, node # Null, UNCHANGED <<pc, meant>>,
               node' = heap[node].next
        PROVE  Nearer
    <3>1. method # "files"
      BY <1>1, <2>4 DEF IInv, Phases, OwnsNodes, OwnsPayloads
    <3>2. /\ heap[node] = Node(method, meant, Position)
          /\ Position \in 1 .. Len(meant)
      BY <1>1, <2>4, <3>1, Here
    <3>3. node' = Place(method, meant, Position + 1)
      BY <2>1, <2>4, <3>1, <3>2 DEF Node, Place
    <3> QED BY <2>2, <2>4, <3>3
  <2>5. CASE FreeInner \/ FreeNode
    BY <2>4, <2>5 DEF FreeInner, FreeNode
  <2>6. CASE Libalpm \/ NoList \/ Refuse \/ Return
    BY <2>6 DEF Libalpm, NoList, Refuse, Return, Nearer, Rank
  <2>7. CASE Collected
    <3>1. pc' \in {"free_inner", "free", "drop"}
      BY <1>1, <2>7 DEF Collected, Goto, IInv, Phases, OwnsNodes
    <3> QED BY <2>7, <3>1 DEF Collected, Nearer, Rank
  <2>8. CASE FreeInnerDone \/ FreeDone
    BY <2>8 DEF FreeInnerDone, FreeDone, Goto, Nearer, Rank
  <2> QED BY <1>1, <2>3, <2>5, <2>6, <2>7, <2>8 DEF Step
<1>2. IInv /\ [Next]_vars => [pc # "idle" => Nearer]_vars
  <2> SUFFICES ASSUME IInv, Next, pc # "idle" PROVE Nearer
    OBVIOUS
  <2> QED BY <1>1 DEF Next, Begin
<1> QED BY <1>2, Inductive, PTL DEF Spec
================================================================================
