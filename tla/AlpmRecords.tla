----------------------------- MODULE AlpmRecords -----------------------------
(***************************************************************************)
(* What nyx-alpm reads out of libalpm's structs: Package, Dependency,      *)
(* DepMissing, Conflict, BackupEntry and PackageFile with the conversions  *)
(* of strings and enumerators (crates/nyx-alpm/src/pkg.rs, cstr.rs).       *)
(*                                                                         *)
(* Memory is a function from addresses to what is stored there.  An        *)
(* address is <<kind, which, path>>: the struct itself has the empty path, *)
(* what it owns the field's name.  A pointer field holds an address or     *)
(* Null.  The ...At operators are external: how libalpm lays out a value;  *)
(* the ...Of operators are the code's way back.                            *)
(***************************************************************************)
EXTENDS Integers, Sequences

CONSTANT None      \* Option::None
ASSUME AlpmRecordsAssumption == None \notin STRING \cup Seq(STRING)

Null == <<>>
At(kind, which) == <<kind, which, <<>>>>

--------------------------------------------------------------------------------
(* libalpm's side                                                              *)

Merge(f, g) == [a \in DOMAIN f \cup DOMAIN g |-> IF a \in DOMAIN f THEN f[a] ELSE g[a]]
Cell(a, content) == [b \in {a} |-> content]
Field(a, f) == <<a[1], a[2], Append(a[3], f)>>

\* A string that is not set is a null pointer: None where the wrapper has an
\* Option, "" where it falls back to that (a dependency's version is an Option,
\* so that an empty one of either kind is stored as such).
Unset(v, f) == v[f] = None \/ (v[f] = "" /\ f \in {"name", "target", "hash"})
Pointer(a, f, v) == IF Unset(v, f) THEN Null ELSE Field(a, f)
Strings(a, fields, v) ==
  [b \in {Pointer(a, f, v) : f \in fields} \ {Null} |-> v[b[3][Len(b[3])]]]

\* alpm_depmod_t and alpm_pkgreason_t.
Enumerator == [Any |-> 1, Eq |-> 2, Ge |-> 3, Le |-> 4, Gt |-> 5, Lt |-> 6]
Reason == [Explicit |-> 0, Depend |-> 1, Unknown |-> 2]

PackageAt(a, p) ==
  Merge(Strings(a, {"name", "version", "desc"}, p),
        Cell(a, [name |-> Pointer(a, "name", p), version |-> Pointer(a, "version", p),
                 desc |-> Pointer(a, "desc", p), size |-> p.size, reason |-> Reason[p.reason]]))

DependAt(a, d) ==
  Merge(Strings(a, {"name", "version", "desc"}, d),
        Cell(a, [name |-> Pointer(a, "name", d), version |-> Pointer(a, "version", d),
                 desc |-> Pointer(a, "desc", d), mod_ |-> Enumerator[d.modifier]]))

DepMissingAt(a, m) ==
  Merge(Merge(Strings(a, {"target", "causing_pkg"}, m), DependAt(Field(a, "depend"), m.depend)),
        Cell(a, [target |-> Pointer(a, "target", m), depend |-> Field(a, "depend"),
                 causingpkg |-> Pointer(a, "causing_pkg", m)]))

\* The packages in conflict are those of the list libalpm was given.
ConflictAt(a, c) ==
  Merge(DependAt(Field(a, "reason"), c.reason),
        Cell(a, [package1 |-> At("package", c.package1), package2 |-> At("package", c.package2),
                 reason |-> Field(a, "reason")]))

BackupAt(a, b) ==
  Merge(Strings(a, {"name", "hash"}, b),
        Cell(a, [name |-> Pointer(a, "name", b), hash |-> Pointer(a, "hash", b)]))

FileAt(a, f) ==
  Merge(Strings(a, {"name"}, f), Cell(a, [name |-> Pointer(a, "name", f), size |-> f.size, mode |-> f.mode]))

\* alpm_dep_from_string.  A depstring is one sequence of characters, with
\* nothing between the parts: the comparison is the first "<", else the first
\* ">", else the first "=", of which the first two take a "=" that follows.
\* The ": description" it may end in is left out, as it is in what the wrapper
\* writes.
Occurs(c, s) == \E i \in DOMAIN s : s[i] = c
First(c, s) == CHOOSE i \in DOMAIN s : s[i] = c /\ \A j \in 1 .. (i - 1) : s[j] # c
OrEqual(i, s) == i < Len(s) /\ s[i + 1] = "="
Cut(s, i, width, modifier) ==
  [name |-> SubSeq(s, 1, i - 1), modifier |-> modifier, version |-> SubSeq(s, i + width, Len(s))]

CutAt(s, i, strict, wide) ==
  IF OrEqual(i, s) THEN Cut(s, i, 2, wide) ELSE Cut(s, i, 1, strict)

Parsed(s) ==
  IF Occurs("<", s) THEN CutAt(s, First("<", s), "Lt", "Le")
  ELSE IF Occurs(">", s) THEN CutAt(s, First(">", s), "Gt", "Ge")
  ELSE IF Occurs("=", s) THEN Cut(s, First("=", s), 1, "Eq")
  ELSE [name |-> s, modifier |-> "Any", version |-> None]

--------------------------------------------------------------------------------
(* The wrapper's side                                                          *)

Text == STRING                 \* String
Option == Text \cup {None}     \* Option<String>

\* What the getters of Package make of it, and the structs of copies.  A
\* Conflict has, of its packages, the names.
Package == [name : Text, version : Text, desc : Option, size : Int, reason : DOMAIN Reason]
Dependency == [name : Text, version : Option, desc : Option, modifier : DOMAIN Enumerator]
DepMissing == [target : Text, depend : Dependency, causing_pkg : Option]
Conflict(names) == [package1 : names, package2 : names, reason : Dependency]
BackupEntry == [name : Text, hash : Text]
PackageFile == [name : Text, size : Int, mode : Nat]

opt_cstr(mem, p) == IF p = Null THEN None ELSE mem[p]
cstr(mem, p) == IF p = Null THEN "" ELSE mem[p]

PkgReason(raw) == CASE raw = 0 -> "Explicit" [] raw = 1 -> "Depend" [] OTHER -> "Unknown"

\* Seeded bug: two arms are swapped.
DepModSwapped(raw) ==
  CASE raw = 2 -> "Eq" [] raw = 3 -> "Le" [] raw = 4 -> "Ge"
    [] raw = 5 -> "Gt" [] raw = 6 -> "Lt" [] OTHER -> "Any"

DepMod(raw) ==
  CASE raw = 2 -> "Eq" [] raw = 3 -> "Ge" [] raw = 4 -> "Le"
    [] raw = 5 -> "Gt" [] raw = 6 -> "Lt" [] OTHER -> "Any"

\* The getters of Package.  desc stands for url, packager, arch, base and
\* filename too, size for the other numbers.
PackageOf(mem, a) ==
  [name |-> cstr(mem, mem[a].name), version |-> cstr(mem, mem[a].version),
   desc |-> opt_cstr(mem, mem[a].desc), size |-> mem[a].size, reason |-> PkgReason(mem[a].reason)]

DependencyOf(mem, a) ==
  [name |-> cstr(mem, mem[a].name), version |-> opt_cstr(mem, mem[a].version),
   desc |-> opt_cstr(mem, mem[a].desc), modifier |-> DepMod(mem[a].mod_)]

DepMissingOf(mem, a) ==
  [target |-> cstr(mem, mem[a].target), depend |-> DependencyOf(mem, mem[a].depend),
   causing_pkg |-> opt_cstr(mem, mem[a].causingpkg)]

ConflictOf(mem, a) ==
  [package1 |-> PackageOf(mem, mem[a].package1).name,
   package2 |-> PackageOf(mem, mem[a].package2).name,
   reason |-> DependencyOf(mem, mem[a].reason)]

BackupEntryOf(mem, a) == [name |-> cstr(mem, mem[a].name), hash |-> cstr(mem, mem[a].hash)]

PackageFileOf(mem, a) ==
  [name |-> cstr(mem, mem[a].name), size |-> mem[a].size, mode |-> mem[a].mode]

as_str(modifier) ==
  CASE modifier = "Any" -> <<>> [] modifier = "Eq" -> <<"=">> [] modifier = "Ge" -> <<">", "=">>
    [] modifier = "Le" -> <<"<", "=">> [] modifier = "Gt" -> <<">">> [] modifier = "Lt" -> <<"<">>

\* to_display_string, of a Dependency whose name and version are written out.
DisplayString(d) ==
  IF d.version # None /\ d.modifier # "Any" THEN d.name \o as_str(d.modifier) \o d.version
                                            ELSE d.name
================================================================================
