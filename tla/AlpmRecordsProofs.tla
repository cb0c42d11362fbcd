--------------------------- MODULE AlpmRecordsProofs ---------------------------
(***************************************************************************)
(* That the wrapper reads from each of libalpm's structs the value that is *)
(* stored there: for every value and every memory that holds it, whatever  *)
(* else is in it.                                                          *)
(***************************************************************************)
EXTENDS AlpmRecords, TLAPS, SequenceTheorems, FiniteSetTheorems, WellFoundedInduction

Labels == {"name", "version", "desc", "target", "causing_pkg", "depend", "reason", "hash"}
IsAddress(a) == a = <<a[1], a[2], a[3]>> /\ a[3] \in Seq(Labels)
Holds(mem, f) == \A b \in DOMAIN f : b \in DOMAIN mem /\ mem[b] = f[b]

--------------------------------------------------------------------------------
(* Addresses and strings                                                       *)

\* A field is stored away from the struct it belongs to, under its own name.
LEMMA FieldFacts ==
  ASSUME NEW a, IsAddress(a), NEW f \in Labels
  PROVE  /\ IsAddress(Field(a, f))
         /\ Field(a, f)[1] = a[1] /\ Field(a, f)[2] = a[2]
         /\ Len(Field(a, f)[3]) = Len(a[3]) + 1
         /\ Field(a, f)[3][Len(Field(a, f)[3])] = f
         /\ Field(a, f) # a /\ Field(a, f) # Null
<1> DEFINE p == a[3]
           q == Append(p, f)
<1>1. q \in Seq(Labels) /\ Len(q) = Len(p) + 1 /\ q[Len(p) + 1] = f
  BY AppendProperties DEF IsAddress
<1>2. Field(a, f) = <<a[1], a[2], q>>
  BY DEF Field
<1>3. Field(a, f)[1] = a[1] /\ Field(a, f)[2] = a[2] /\ Field(a, f)[3] = q
  BY <1>2
<1>4. q # p
  <2>1. Len(p) \in Nat BY DEF IsAddress
  <2> QED BY <1>1, <2>1
<1>5. Field(a, f) # a
  BY <1>3, <1>4
<1>6. Field(a, f) # Null
  BY <1>2 DEF Null
<1> HIDE DEF q
<1> QED BY <1>1, <1>2, <1>3, <1>5, <1>6 DEF IsAddress

\* The address of a whole struct, and that it is no null pointer.
LEMMA AtIsAddress ==
  \A k, w : IsAddress(At(k, w)) /\ At(k, w)[1] = k /\ At(k, w)[2] = w /\ At(k, w) # Null
BY DEF At, IsAddress, Null

\* What holds two memories, of which the first wins, holds the first, and the
\* second where they do not meet.
LEMMA MergeHolds ==
  ASSUME NEW mem, NEW f, NEW g, Holds(mem, Merge(f, g))
  PROVE  /\ Holds(mem, f)
         /\ (\A b \in DOMAIN g : b \notin DOMAIN f) => Holds(mem, g)
BY DEF Holds, Merge

\* The strings of a struct are at its fields' addresses.
LEMMA StringsDomain ==
  ASSUME NEW a, NEW F, NEW v, NEW b \in DOMAIN Strings(a, F, v)
  PROVE  \E f \in F : b = Field(a, f)
BY DEF Strings, Pointer

\* A string is read back through its pointer: as a String, where "" may be a
\* null pointer, or as an Option (cstr.rs:20-37).
LEMMA StringRead ==
  ASSUME NEW mem, NEW a, IsAddress(a), NEW F \in SUBSET Labels, NEW v, Holds(mem, Strings(a, F, v)),
         NEW f \in F
  PROVE  /\ v[f] # None => cstr(mem, Pointer(a, f, v)) = v[f]
         /\ f \notin {"name", "target", "hash"} => opt_cstr(mem, Pointer(a, f, v)) = v[f]
<1>1. CASE Unset(v, f)
  BY <1>1 DEF Unset, Pointer, cstr, opt_cstr
<1>2. CASE ~Unset(v, f)
  <2>1. Pointer(a, f, v) = Field(a, f) BY <1>2 DEF Pointer
  <2>2. Field(a, f) # Null /\ Field(a, f)[3][Len(Field(a, f)[3])] = f
    BY FieldFacts
  <2>3. Field(a, f) \in DOMAIN Strings(a, F, v) /\ Strings(a, F, v)[Field(a, f)] = v[f]
    BY <2>1, <2>2 DEF Strings
  <2>4. mem[Field(a, f)] = v[f]
    BY <2>3 DEF Holds
  <2> QED BY <2>1, <2>2, <2>4 DEF cstr, opt_cstr
<1> QED BY <1>1, <1>2

\* A struct and its strings, which lie elsewhere: both are held.
LEMMA StructHeld ==
  ASSUME NEW mem, NEW a, IsAddress(a), NEW F \in SUBSET Labels, NEW v, NEW c,
         Holds(mem, Merge(Strings(a, F, v), Cell(a, c)))
  PROVE  Holds(mem, Strings(a, F, v)) /\ mem[a] = c
<1>1. a \notin DOMAIN Strings(a, F, v)
  BY StringsDomain, FieldFacts
<1>2. DOMAIN Cell(a, c) = {a} /\ Cell(a, c)[a] = c
  BY DEF Cell
<1>3. Holds(mem, Strings(a, F, v)) /\ Holds(mem, Cell(a, c))
  BY <1>1, <1>2, MergeHolds
<1> QED BY <1>2, <1>3 DEF Holds

--------------------------------------------------------------------------------
(* The structs                                                                 *)

\* The getters of Package give the package (pkg.rs:40-95).
THEOREM PackageRead ==
  ASSUME NEW mem, NEW a, IsAddress(a), NEW p \in Package, Holds(mem, PackageAt(a, p))
  PROVE  PackageOf(mem, a) = p
<1> DEFINE F == {"name", "version", "desc"}
           c == [name |-> Pointer(a, "name", p), version |-> Pointer(a, "version", p),
                 desc |-> Pointer(a, "desc", p), size |-> p.size, reason |-> Reason[p.reason]]
<1>1. Holds(mem, Strings(a, F, p)) /\ mem[a] = c
  <2>1. F \in SUBSET Labels BY DEF Labels
  <2> HIDE DEF c
  <2>2. Holds(mem, Merge(Strings(a, F, p), Cell(a, c))) BY DEF PackageAt, c
  <2> HIDE DEF F
  <2> QED BY <2>1, <2>2, StructHeld
<1>2. /\ cstr(mem, Pointer(a, "name", p)) = p.name
      /\ cstr(mem, Pointer(a, "version", p)) = p.version
      /\ opt_cstr(mem, Pointer(a, "desc", p)) = p.desc
  <2>1. p.name # None /\ p.version # None BY AlpmRecordsAssumption DEF Package, Text
  <2>2. F \in SUBSET Labels BY DEF Labels
  <2> QED BY <1>1, <2>1, <2>2, StringRead
<1>3. PkgReason(Reason[p.reason]) = p.reason
  BY DEF Package, Reason, PkgReason
<1>4. PackageOf(mem, a) = [name |-> p.name, version |-> p.version, desc |-> p.desc,
                           size |-> p.size, reason |-> p.reason]
  BY <1>1, <1>2, <1>3 DEF PackageOf
<1> QED BY <1>4 DEF Package

\* Dependency::from_raw gives the dependency, its modifier included
\* (pkg.rs:197-205, 229-238).
THEOREM DependencyRead ==
  ASSUME NEW mem, NEW a, IsAddress(a), NEW d \in Dependency, Holds(mem, DependAt(a, d))
  PROVE  DependencyOf(mem, a) = d
<1> DEFINE F == {"name", "version", "desc"}
           c == [name |-> Pointer(a, "name", d), version |-> Pointer(a, "version", d),
                 desc |-> Pointer(a, "desc", d), mod_ |-> Enumerator[d.modifier]]
<1>1. Holds(mem, Strings(a, F, d)) /\ mem[a] = c
  <2>1. F \in SUBSET Labels BY DEF Labels
  <2> HIDE DEF c
  <2>2. Holds(mem, Merge(Strings(a, F, d), Cell(a, c))) BY DEF DependAt, c
  <2> HIDE DEF F
  <2> QED BY <2>1, <2>2, StructHeld
<1>2. /\ cstr(mem, Pointer(a, "name", d)) = d.name
      /\ opt_cstr(mem, Pointer(a, "version", d)) = d.version
      /\ opt_cstr(mem, Pointer(a, "desc", d)) = d.desc
  <2>1. d.name # None BY AlpmRecordsAssumption DEF Dependency, Text
  <2>2. F \in SUBSET Labels BY DEF Labels
  <2> QED BY <1>1, <2>1, <2>2, StringRead
<1>3. DepMod(Enumerator[d.modifier]) = d.modifier
  BY DEF Dependency, Enumerator, DepMod
<1>4. DependencyOf(mem, a) = [name |-> d.name, version |-> d.version, desc |-> d.desc,
                              modifier |-> d.modifier]
  BY <1>1, <1>2, <1>3 DEF DependencyOf
<1> QED BY <1>4 DEF Dependency

\* backup() gives each entry as it is, an empty string included (pkg.rs:139-143).
THEOREM BackupRead ==
  ASSUME NEW mem, NEW a, IsAddress(a), NEW b \in BackupEntry, Holds(mem, BackupAt(a, b))
  PROVE  BackupEntryOf(mem, a) = b
<1> DEFINE F == {"name", "hash"}
           c == [name |-> Pointer(a, "name", b), hash |-> Pointer(a, "hash", b)]
<1>1. Holds(mem, Strings(a, F, b)) /\ mem[a] = c
  <2>1. F \in SUBSET Labels BY DEF Labels
  <2> HIDE DEF c
  <2>2. Holds(mem, Merge(Strings(a, F, b), Cell(a, c))) BY DEF BackupAt, c
  <2> HIDE DEF F
  <2> QED BY <2>1, <2>2, StructHeld
<1>2. cstr(mem, Pointer(a, "name", b)) = b.name /\ cstr(mem, Pointer(a, "hash", b)) = b.hash
  <2>1. b.name # None /\ b.hash # None BY AlpmRecordsAssumption DEF BackupEntry, Text
  <2>2. F \in SUBSET Labels BY DEF Labels
  <2> QED BY <1>1, <2>1, <2>2, StringRead
<1>3. BackupEntryOf(mem, a) = [name |-> b.name, hash |-> b.hash]
  BY <1>1, <1>2 DEF BackupEntryOf
<1> QED BY <1>3 DEF BackupEntry

\* files() gives each entry of the array as it is (pkg.rs:163-168).
THEOREM FileRead ==
  ASSUME NEW mem, NEW a, IsAddress(a), NEW f \in PackageFile, Holds(mem, FileAt(a, f))
  PROVE  PackageFileOf(mem, a) = f
<1> DEFINE F == {"name"}
           c == [name |-> Pointer(a, "name", f), size |-> f.size, mode |-> f.mode]
<1>1. Holds(mem, Strings(a, F, f)) /\ mem[a] = c
  <2>1. F \in SUBSET Labels BY DEF Labels
  <2> HIDE DEF c
  <2>2. Holds(mem, Merge(Strings(a, F, f), Cell(a, c))) BY DEF FileAt, c
  <2> HIDE DEF F
  <2> QED BY <2>1, <2>2, StructHeld
<1>2. cstr(mem, Pointer(a, "name", f)) = f.name
  <2>1. f.name # None BY AlpmRecordsAssumption DEF PackageFile, Text
  <2>2. F \in SUBSET Labels BY DEF Labels
  <2> QED BY <1>1, <2>1, <2>2, StringRead
<1>3. PackageFileOf(mem, a) = [name |-> f.name, size |-> f.size, mode |-> f.mode]
  BY <1>1, <1>2 DEF PackageFileOf
<1> QED BY <1>3 DEF PackageFile

--------------------------------------------------------------------------------
(* The structs that own a dependency                                           *)

\* Where the cells of a dependency are.
LEMMA DependDomain ==
  ASSUME NEW a, NEW d, NEW b \in DOMAIN DependAt(a, d)
  PROVE  b = a \/ \E f \in Labels : b = Field(a, f)
<1> DEFINE F == {"name", "version", "desc"}
           c == [name |-> Pointer(a, "name", d), version |-> Pointer(a, "version", d),
                 desc |-> Pointer(a, "desc", d), mod_ |-> Enumerator[d.modifier]]
<1>1. F \in SUBSET Labels
  BY DEF Labels
<1> HIDE DEF c
<1>2. b \in DOMAIN Merge(Strings(a, F, d), Cell(a, c))
  BY DEF DependAt, c
<1> HIDE DEF F
<1>3. b \in DOMAIN Strings(a, F, d) \/ b = a
  BY <1>2 DEF Merge, Cell
<1> QED BY <1>1, <1>3, StringsDomain

\* They lie apart from the struct that owns it and from its other fields.
LEMMA DependApart ==
  ASSUME NEW a, IsAddress(a), NEW l \in Labels, NEW d, NEW b \in DOMAIN DependAt(Field(a, l), d)
  PROVE  /\ b # a /\ \A f \in Labels \ {l} : b # Field(a, f)
         /\ b[1] = a[1] /\ b[2] = a[2]
<1>1. IsAddress(Field(a, l)) /\ Field(a, l) # a
  BY FieldFacts
<1>2. CASE b = Field(a, l)
  <2>1. ASSUME NEW f \in Labels \ {l} PROVE b # Field(a, f)
    <3>1. Field(a, l)[3][Len(Field(a, l)[3])] = l BY FieldFacts
    <3>2. Field(a, f)[3][Len(Field(a, f)[3])] = f BY FieldFacts
    <3> QED BY <1>2, <3>1, <3>2
  <2> QED BY <1>1, <1>2, <2>1, FieldFacts
<1>3. ASSUME NEW g \in Labels, b = Field(Field(a, l), g)
      PROVE  /\ b # a /\ \A f \in Labels \ {l} : b # Field(a, f)
             /\ b[1] = a[1] /\ b[2] = a[2]
  <2>1. Len(b[3]) = Len(a[3]) + 2 /\ b[1] = a[1] /\ b[2] = a[2]
    <3>1. Len(a[3]) \in Nat BY DEF IsAddress
    <3>2. Len(Field(a, l)[3]) = Len(a[3]) + 1 /\ Field(a, l)[1] = a[1] /\ Field(a, l)[2] = a[2]
      BY FieldFacts
    <3>3. Len(b[3]) = Len(Field(a, l)[3]) + 1 /\ b[1] = Field(a, l)[1] /\ b[2] = Field(a, l)[2]
      BY <1>1, <1>3, FieldFacts
    <3> QED BY <3>1, <3>2, <3>3
  <2>2. Len(a[3]) \in Nat BY DEF IsAddress
  <2>3. \A f \in Labels : Len(Field(a, f)[3]) = Len(a[3]) + 1
    BY FieldFacts
  <2> QED BY <2>1, <2>2, <2>3
<1> QED BY <1>2, <1>3, DependDomain

\* DepMissing::from_raw (pkg.rs:303-310).
THEOREM DepMissingRead ==
  ASSUME NEW mem, NEW a, IsAddress(a), NEW m \in DepMissing, Holds(mem, DepMissingAt(a, m))
  PROVE  DepMissingOf(mem, a) = m
<1> DEFINE F == {"target", "causing_pkg"}
           c == [target |-> Pointer(a, "target", m), depend |-> Field(a, "depend"),
                 causingpkg |-> Pointer(a, "causing_pkg", m)]
           D == DependAt(Field(a, "depend"), m.depend)
           S == Strings(a, F, m)
<1>1. F \in SUBSET Labels /\ "depend" \in Labels /\ "depend" \notin F
  BY DEF Labels
<1>2. \A b \in DOMAIN D : b # a /\ b \notin DOMAIN S
  <2> HIDE DEF F
  <2> QED BY <1>1, DependApart, StringsDomain
<1>3. a \notin DOMAIN S
  <2> HIDE DEF F
  <2> QED BY <1>1, StringsDomain, FieldFacts
<1>4. Holds(mem, S) /\ Holds(mem, D) /\ mem[a] = c
  <2> HIDE DEF c
  <2>1. Holds(mem, Merge(Merge(S, D), Cell(a, c)))
    BY DEF DepMissingAt, c
  <2> HIDE DEF S, D
  <2>2. Holds(mem, Merge(S, D))
    BY <2>1, MergeHolds
  <2>3. DOMAIN Cell(a, c) = {a} /\ Cell(a, c)[a] = c /\ a \notin DOMAIN Merge(S, D)
    BY <1>2, <1>3 DEF Cell, Merge
  <2>4. Holds(mem, Cell(a, c))
    BY <2>1, <2>3, MergeHolds
  <2> QED BY <1>2, <2>2, <2>3, <2>4, MergeHolds DEF Holds
<1>5. DependencyOf(mem, mem[a].depend) = m.depend
  <2>1. m.depend \in Dependency BY DEF DepMissing
  <2>2. IsAddress(Field(a, "depend")) BY <1>1, FieldFacts
  <2> QED BY <1>4, <2>1, <2>2, DependencyRead
<1>6. /\ cstr(mem, Pointer(a, "target", m)) = m.target
      /\ opt_cstr(mem, Pointer(a, "causing_pkg", m)) = m.causing_pkg
  <2>1. m.target # None BY AlpmRecordsAssumption DEF DepMissing, Text
  <2> QED BY <1>1, <1>4, <2>1, StringRead
<1>7. DepMissingOf(mem, a) = [target |-> m.target, depend |-> m.depend, causing_pkg |-> m.causing_pkg]
  BY <1>4, <1>5, <1>6 DEF DepMissingOf
<1> QED BY <1>7 DEF DepMissing

\* Conflict::from_raw, whose packages' names are read through the packages
\* (pkg.rs:336-345).
THEOREM ConflictRead ==
  ASSUME NEW mem, NEW a, IsAddress(a), NEW P \in SUBSET Package,
         \A p \in P : Holds(mem, PackageAt(At("package", p.name), p)),
         NEW c \in Conflict({p.name : p \in P}), Holds(mem, ConflictAt(a, c))
  PROVE  ConflictOf(mem, a) = c
<1> DEFINE s == [package1 |-> At("package", c.package1), package2 |-> At("package", c.package2),
                 reason |-> Field(a, "reason")]
           D == DependAt(Field(a, "reason"), c.reason)
<1>1. "reason" \in Labels
  BY DEF Labels
<1>2. Holds(mem, D) /\ mem[a] = s
  <2> HIDE DEF s
  <2>1. Holds(mem, Merge(D, Cell(a, s)))
    BY DEF ConflictAt, s
  <2>2. a \notin DOMAIN D
    BY <1>1, DependApart
  <2> HIDE DEF D
  <2>3. DOMAIN Cell(a, s) = {a} /\ Cell(a, s)[a] = s
    BY DEF Cell
  <2>4. Holds(mem, D) /\ Holds(mem, Cell(a, s))
    BY <2>1, <2>2, <2>3, MergeHolds
  <2> QED BY <2>3, <2>4 DEF Holds
<1>3. DependencyOf(mem, mem[a].reason) = c.reason
  <2>1. c.reason \in Dependency BY DEF Conflict
  <2>2. IsAddress(Field(a, "reason")) BY <1>1, FieldFacts
  <2> QED BY <1>2, <2>1, <2>2, DependencyRead
<1>4. ASSUME NEW n \in {p.name : p \in P} PROVE PackageOf(mem, At("package", n)).name = n
  BY PackageRead, AtIsAddress
<1>5. c.package1 \in {p.name : p \in P} /\ c.package2 \in {p.name : p \in P}
  BY DEF Conflict
<1>6. ConflictOf(mem, a) = [package1 |-> c.package1, package2 |-> c.package2, reason |-> c.reason]
  BY <1>2, <1>3, <1>4, <1>5 DEF ConflictOf
<1> QED BY <1>6 DEF Conflict

--------------------------------------------------------------------------------
(* Depstrings                                                                  *)

\* A depstring is what comes before a comparison of one or two characters, the
\* comparison and what comes after it.
LEMMA CutsFit ==
  ASSUME NEW s \in Seq(STRING), NEW i \in 1 .. Len(s), NEW w \in {1, 2}, i + w - 1 <= Len(s)
  PROVE  /\ SubSeq(s, i + w, Len(s)) \in Seq(STRING)
         /\ SubSeq(s, 1, i - 1) \o SubSeq(s, i, i + w - 1) \o SubSeq(s, i + w, Len(s)) = s
<1>1. Len(s) \in Nat /\ \A j \in 1 .. Len(s) : s[j] \in STRING
  OBVIOUS
<1>2. SubSeq(s, i + w, Len(s)) \in Seq(STRING)
  BY <1>1, SubSeqProperties
<1>3. SubSeq(s, 1, i - 1) \o SubSeq(s, i, i + w - 1) = SubSeq(s, 1, i + w - 1)
  <2> DEFINE k == i - 1
             n == i + w - 1
  <2>1. 1 \in 1 .. Len(s) + 1 /\ k \in 1 - 1 .. Len(s) /\ n \in k .. Len(s) /\ k + 1 = i
    BY <1>1
  <2> HIDE DEF k, n
  <2>2. SubSeq(s, 1, k) \o SubSeq(s, k + 1, n) = SubSeq(s, 1, n)
    BY <2>1, ConcatAdjacentSubSeq
  <2> QED BY <2>1, <2>2 DEF k, n
<1>4. SubSeq(s, 1, i + w - 1) \o SubSeq(s, i + w, Len(s)) = SubSeq(s, 1, Len(s))
  <2> DEFINE k == i + w - 1
             n == Len(s)
  <2>1. 1 \in 1 .. Len(s) + 1 /\ k \in 1 - 1 .. Len(s) /\ n \in k .. Len(s) /\ k + 1 = i + w
    BY <1>1
  <2> HIDE DEF k, n
  <2>2. SubSeq(s, 1, k) \o SubSeq(s, k + 1, n) = SubSeq(s, 1, n)
    BY <2>1, ConcatAdjacentSubSeq
  <2> QED BY <2>1, <2>2 DEF k, n
<1>5. SubSeq(s, 1, Len(s)) = s
  BY SubSeqFull
<1> QED BY <1>2, <1>3, <1>4, <1>5

\* One or two characters are a part of a depstring.
LEMMA SmallSubSeq ==
  ASSUME NEW s \in Seq(STRING), NEW i \in 1 .. Len(s)
  PROVE  /\ SubSeq(s, i, i) = <<s[i]>>
         /\ i < Len(s) => SubSeq(s, i, i + 1) = <<s[i], s[i + 1]>>
<1>1. Len(s) \in Nat /\ \A j \in 1 .. Len(s) : s[j] \in STRING
  OBVIOUS
<1>2. SubSeq(s, i, i) = <<s[i]>>
  <2> DEFINE t == SubSeq(s, i, i)
             u == <<s[i]>>
  <2>1. t \in Seq(STRING) /\ Len(t) = 1 /\ \A j \in 1 .. 1 : t[j] = s[i + j - 1]
    BY <1>1, SubSeqProperties
  <2>2. u \in Seq(STRING) /\ Len(u) = 1 /\ u[1] = s[i]
    BY <1>1
  <2>3. t[1] = s[i]
    <3> HIDE DEF t
    <3> QED BY <1>1, <2>1
  <2> HIDE DEF t, u
  <2>4. t = u BY <2>1, <2>2, <2>3, SeqEqual
  <2> QED BY <2>4 DEF t, u
<1>3. ASSUME i < Len(s) PROVE SubSeq(s, i, i + 1) = <<s[i], s[i + 1]>>
  <2> DEFINE t == SubSeq(s, i, i + 1)
             u == <<s[i], s[i + 1]>>
  <2>1. t \in Seq(STRING) /\ Len(t) = 2 /\ \A j \in 1 .. 2 : t[j] = s[i + j - 1]
    BY <1>1, <1>3, SubSeqProperties
  <2>2. u \in Seq(STRING) /\ Len(u) = 2 /\ u[1] = s[i] /\ u[2] = s[i + 1]
    BY <1>1, <1>3
  <2> HIDE DEF t, u
  <2>3. t[1] = s[i] /\ t[2] = s[i + 1]
    BY <1>1, <2>1
  <2>4. \A j \in 1 .. 2 : t[j] = u[j] BY <2>2, <2>3
  <2>5. t = u BY <2>1, <2>2, <2>4, SeqEqual
  <2> QED BY <2>5 DEF t, u
<1> QED BY <1>2, <1>3

\* A set of numbers that is not empty has a least one
\* (the intervals up to a set's members are finite sets, ordered by inclusion).
LEMMA NatMin ==
  ASSUME NEW S \in SUBSET Nat, S # {}
  PROVE  \E m \in S : \A n \in S : m <= n
<1> DEFINE Below(n) == 0 .. n
           T == {Below(n) : n \in S}
           R == StrictSubsetOrdering(Nat)
           F == FiniteSubsetsOf(Nat)
<1>1. IsWellFoundedOn(R, F)
  BY FS_StrictSubsetOrderingWellFounded
<1>2. \A n \in S : IsFiniteSet(Below(n)) /\ Below(n) \in SUBSET Nat
  BY FS_Interval
<1>3. T \subseteq F
  BY <1>2 DEF FiniteSubsetsOf
<1>4. T # {}
  OBVIOUS
<1>5. PICK x \in T : \A y \in T : <<y, x>> \notin R
  <2> HIDE DEF T, R, F
  <2> QED BY <1>1, <1>3, <1>4, WFMin
<1>6. PICK m \in S : x = Below(m)
  BY <1>5
<1>7. ASSUME NEW n \in S, ~(m <= n) PROVE FALSE
  <2>1. Below(n) \subseteq Below(m) /\ Below(n) # Below(m)
    <3>1. m \in Below(m) /\ m \notin Below(n) BY <1>7
    <3> QED BY <1>7, <3>1
  <2>2. <<Below(n), Below(m)>> \in R
    BY <2>1, <1>2 DEF StrictSubsetOrdering
  <2> QED BY <2>2, <1>5, <1>6
<1> QED BY <1>7

\* The first of a character that occurs is there.
LEMMA FirstFacts ==
  ASSUME NEW c, NEW s \in Seq(STRING), Occurs(c, s)
  PROVE  First(c, s) \in 1 .. Len(s) /\ s[First(c, s)] = c
<1> DEFINE Least(i) == i \in DOMAIN s /\ s[i] = c /\ \A j \in 1 .. (i - 1) : s[j] # c
<1>1. DOMAIN s = 1 .. Len(s) /\ Len(s) \in Nat
  OBVIOUS
<1>2. \E i \in DOMAIN s : Least(i)
  <2> DEFINE P == {i \in 1 .. Len(s) : s[i] = c}
  <2>1. P \in SUBSET Nat /\ P # {} BY <1>1 DEF Occurs
  <2>2. PICK i \in P : \A j \in P : i <= j BY <2>1, NatMin
  <2>3. \A j \in 1 .. (i - 1) : s[j] # c
    BY <1>1, <2>2
  <2> QED BY <1>1, <2>2, <2>3
<1>3. First(c, s) = CHOOSE i \in DOMAIN s : Least(i)
  BY DEF First
<1>4. First(c, s) \in DOMAIN s /\ Least(First(c, s))
  <2> HIDE DEF Least
  <2> QED BY <1>2, <1>3
<1> QED BY <1>1, <1>4

\* What a comparison that is there is cut at is put together again.
LEMMA CutRendered ==
  ASSUME NEW s \in Seq(STRING), NEW i \in 1 .. Len(s), NEW m \in {"Eq", "Ge", "Le", "Gt", "Lt"},
         NEW w \in {1, 2}, \/ w = 1 /\ as_str(m) = <<s[i]>>
                           \/ w = 2 /\ i < Len(s) /\ as_str(m) = <<s[i], s[i + 1]>>
  PROVE  DisplayString(Cut(s, i, w, m)) = s
<1> DEFINE d == Cut(s, i, w, m)
<1>1. d.name = SubSeq(s, 1, i - 1) /\ d.modifier = m /\ d.version = SubSeq(s, i + w, Len(s))
  BY DEF Cut
<1>2. i + w - 1 <= Len(s) /\ as_str(m) = SubSeq(s, i, i + w - 1)
  <2>1. CASE w = 1 /\ as_str(m) = <<s[i]>>
    <3>1. i + w - 1 = i /\ i <= Len(s) BY <2>1
    <3> QED BY <2>1, <3>1, SmallSubSeq
  <2>2. CASE w = 2 /\ i < Len(s) /\ as_str(m) = <<s[i], s[i + 1]>>
    <3>1. i + w - 1 = i + 1 /\ i + 1 <= Len(s) BY <2>2
    <3> QED BY <2>2, <3>1, SmallSubSeq
  <2> QED BY <2>1, <2>2
<1>3. d.version # None
  <2>1. SubSeq(s, i + w, Len(s)) \in Seq(STRING) BY <1>2, CutsFit
  <2> HIDE DEF d
  <2> QED BY <1>1, <2>1, AlpmRecordsAssumption
<1>4. DisplayString(d) = d.name \o as_str(d.modifier) \o d.version
  BY <1>1, <1>3 DEF DisplayString
<1> HIDE DEF d
<1>5. SubSeq(s, 1, i - 1) \o SubSeq(s, i, i + w - 1) \o SubSeq(s, i + w, Len(s)) = s
  BY <1>2, CutsFit
<1>6. DisplayString(d) = s
  BY <1>1, <1>2, <1>4, <1>5
<1> QED BY <1>6 DEF d

\* The same for "<" and ">", which may have a "=" after them.
LEMMA CutAtRendered ==
  ASSUME NEW s \in Seq(STRING), NEW i \in 1 .. Len(s),
         NEW m \in {"Eq", "Ge", "Le", "Gt", "Lt"}, NEW n \in {"Eq", "Ge", "Le", "Gt", "Lt"},
         as_str(m) = <<s[i]>>, as_str(n) = <<s[i], "=">>
  PROVE  DisplayString(CutAt(s, i, m, n)) = s
<1>1. CASE OrEqual(i, s)
  <2>1. CutAt(s, i, m, n) = Cut(s, i, 2, n) BY <1>1 DEF CutAt
  <2>2. i < Len(s) /\ as_str(n) = <<s[i], s[i + 1]>> BY <1>1 DEF OrEqual
  <2> QED BY <2>1, <2>2, CutRendered
<1>2. CASE ~OrEqual(i, s)
  <2>1. CutAt(s, i, m, n) = Cut(s, i, 1, m) BY <1>2 DEF CutAt
  <2> QED BY <2>1, CutRendered
<1> QED BY <1>1, <1>2

\* What libalpm made of a depstring, to_display_string writes as it was,
\* whatever characters it is of: the parts are put together without anything
\* that would tell them apart (pkg.rs:210-215).
THEOREM RenderingIsDepstring ==
  ASSUME NEW s \in Seq(STRING)
  PROVE  DisplayString(Parsed(s)) = s
<1>1. CASE Occurs("<", s)
  <2>1. Parsed(s) = CutAt(s, First("<", s), "Lt", "Le") BY <1>1 DEF Parsed
  <2>2. First("<", s) \in 1 .. Len(s) /\ s[First("<", s)] = "<" BY <1>1, FirstFacts
  <2>3. as_str("Lt") = <<"<">> /\ as_str("Le") = <<"<", "=">> BY DEF as_str
  <2> QED BY <2>1, <2>2, <2>3, CutAtRendered
<1>2. CASE ~Occurs("<", s) /\ Occurs(">", s)
  <2>1. Parsed(s) = CutAt(s, First(">", s), "Gt", "Ge") BY <1>2 DEF Parsed
  <2>2. First(">", s) \in 1 .. Len(s) /\ s[First(">", s)] = ">" BY <1>2, FirstFacts
  <2>3. as_str("Gt") = <<">">> /\ as_str("Ge") = <<">", "=">> BY DEF as_str
  <2> QED BY <2>1, <2>2, <2>3, CutAtRendered
<1>3. CASE ~Occurs("<", s) /\ ~Occurs(">", s) /\ Occurs("=", s)
  <2>1. Parsed(s) = Cut(s, First("=", s), 1, "Eq") BY <1>3 DEF Parsed
  <2>2. First("=", s) \in 1 .. Len(s) /\ s[First("=", s)] = "=" BY <1>3, FirstFacts
  <2>3. as_str("Eq") = <<"=">> BY DEF as_str
  <2> QED BY <2>1, <2>2, <2>3, CutRendered
<1>4. CASE ~Occurs("<", s) /\ ~Occurs(">", s) /\ ~Occurs("=", s)
  <2>1. Parsed(s) = [name |-> s, modifier |-> "Any", version |-> None] BY <1>4 DEF Parsed
  <2> QED BY <2>1 DEF DisplayString
<1> QED BY <1>1, <1>2, <1>3, <1>4

\* What alpm_dep_from_string makes of a depstring.
LEMMA ParsedFields ==
  ASSUME NEW s
  PROVE  Parsed(s) = [name |-> Parsed(s).name, modifier |-> Parsed(s).modifier,
                      version |-> Parsed(s).version]
BY DEF Parsed, CutAt, Cut
================================================================================
