------------------------------- MODULE AlpmLists -------------------------------
(***************************************************************************)
(* Lists across the libalpm boundary: BorrowedList, AlpmList and its       *)
(* iterator, and the wrappers that pass libalpm a list, take one over from *)
(* it or read one it keeps (crates/nyx-alpm/src/borrowed_list.rs, list.rs, *)
(* handle.rs, db.rs, pkg.rs).                                              *)
(*                                                                         *)
(* Who allocated what, who may free it and when it was last read is all    *)
(* there is to get right.  The heap is a function whose domain is the      *)
(* memory in use: freeing a cell takes it out of the domain.  "package"    *)
(* cells belong to a database (a Db passed to libalpm is taken for one of  *)
(* them: nothing but its address is used), "payload" cells are the structs *)
(* of a result handed over, "lent" cells those of a list libalpm keeps;    *)
(* nodes are named after their list, and "string" is what the wrapper      *)
(* makes for the call.                                                     *)
(***************************************************************************)
EXTENDS AlpmRecords

CONSTANTS
  Packages,    \* the packages of a database, as records
  Values,      \* what the elements of each wrapper's result may be
  MaxInput,    \* bound: elements of an input list
  MaxResult    \* bound: elements of a result

VARIABLES
  method,    \* the wrapper running, or "none"
  pc,        \* how far it is
  input,     \* what it was given: addresses for a slice, a record for a depstring
  heap,      \* memory in use
  result,    \* the list libalpm returned
  node,      \* the iterator's (or a freeing loop's) position
  out,       \* the Vec being collected
  told,      \* history: what libalpm read from each input
  meant      \* history: the elements libalpm put in the result, as values

vars == <<method, pc, input, heap, result, node, out, told, meant>>

--------------------------------------------------------------------------------
(* The wrappers                                                                *)

\* depends stands for optdepends, conflicts, provides and replaces, licenses
\* for groups, packages for sync_dbs: they differ in the accessor called.
Lends == {"packages", "depends", "licenses", "backup", "files"}
OwnsPayloads == {"check_deps", "check_conflicts"}   \* theirs to free, nodes and all
OwnsNodes == OwnsPayloads \cup {"search"}           \* the payload is the database's
Methods == OwnsNodes \cup Lends \cup {"update_dbs", "find_dbs_satisfier"}

Names == {p.name : p \in Packages}

\* What an element of a result is, or the text libalpm made a Dependency of
\* that a depstring is rendered from.
Element(m) ==
  CASE m = "check_deps" -> DepMissing
    [] m = "check_conflicts" -> Conflict(Names)
    [] m \in {"search", "packages"} -> Packages
    [] m = "depends" -> Dependency
    [] m = "licenses" -> Text
    [] m = "backup" -> BackupEntry
    [] m = "files" -> PackageFile
    [] m = "find_dbs_satisfier" -> Seq(STRING)

\* A database holds a name once; packages in a result or in conflict are its.
ASSUME AlpmListsAssumption ==
  /\ MaxInput \in Nat /\ MaxResult \in Nat
  /\ Packages \subseteq Package
  /\ \A p, q \in Packages : p.name = q.name => p = q
  /\ DOMAIN Values = Methods \ {"update_dbs"}
  /\ \A m \in DOMAIN Values : Values[m] \subseteq Element(m)

PackageCells == UNION {DOMAIN PackageAt(At("package", p.name), p) : p \in Packages}
Cache == [a \in PackageCells |->
            PackageAt(At("package", a[2]), CHOOSE p \in Packages : p.name = a[2])[a]]
NoInput == [l \in {} |-> Null]
InputLists(m) == CASE m = "check_deps" -> {"pkglist", "remove", "upgrade"}
                   [] m = "check_conflicts" -> {"pkglist"}
                   [] m = "search" -> {"needles"}
                   [] m \in {"update_dbs", "find_dbs_satisfier"} -> {"dbs"}
                   [] m \in Lends -> {}

SeqsUpTo(S, n) == UNION {[1 .. k -> S] : k \in 0 .. n}

\* Any packages in any order, repeated or not; strings of the call's own for
\* search; a rendered Dependency for find_dbs_satisfier.
Slices(m) ==
  CASE m = "search" -> {[l \in {"needles"} |-> [i \in 1 .. k |-> At("string", i)]] : k \in 0 .. MaxInput}
    [] m = "find_dbs_satisfier" -> [dbs : SeqsUpTo({At("package", n) : n \in Names}, MaxInput),
                                    depstring : {Parsed(s) : s \in Values[m]}]
    [] OTHER -> [InputLists(m) -> SeqsUpTo({At("package", n) : n \in Names}, MaxInput)]

\* Seeded bug: the strings are temporaries, gone once their pointers are taken.
TemporaryStrings(m, in) == Cell(At("string", 0), <<>>)

\* The CStrings of search and find_dbs_satisfier.
CStrings(m, in) ==
  CASE m = "search" -> [a \in {in["needles"][i] : i \in DOMAIN in["needles"]} |-> a]
    [] m = "find_dbs_satisfier" -> Cell(At("string", 1), DisplayString(in["depstring"]))
    [] OTHER -> [a \in {} |-> a]

\* Seeded bugs: the loop that links the nodes stops one early, or links the
\* last one to one more.
ChainCutShort(list, ptrs) ==
  [a \in {At(list, i) : i \in DOMAIN ptrs} |->
     [data |-> ptrs[a[2]], next |-> IF a[2] + 1 < Len(ptrs) THEN At(list, a[2] + 1) ELSE Null]]
ChainUnterminated(list, ptrs) ==
  [a \in {At(list, i) : i \in DOMAIN ptrs} |-> [data |-> ptrs[a[2]], next |-> At(list, a[2] + 1)]]

\* BorrowedList::from_ptrs: a boxed node per pointer, each linked to the one
\* after it.  prev, which is never set, is left out: nobody reads it.
Chain(list, ptrs) ==
  [a \in {At(list, i) : i \in DOMAIN ptrs} |->
     [data |-> ptrs[a[2]], next |-> IF a[2] < Len(ptrs) THEN At(list, a[2] + 1) ELSE Null]]

Chains(m, in) == [a \in UNION {DOMAIN Chain(l, in[l]) : l \in InputLists(m)} |-> Chain(a[1], in[a[1]])[a]]

--------------------------------------------------------------------------------
(* libalpm                                                                     *)

\* The struct of one element, and where it is.
ElementAt(m, a, v) ==
  CASE m = "check_deps" -> DepMissingAt(a, v)
    [] m = "check_conflicts" -> ConflictAt(a, v)
    [] m = "depends" -> DependAt(a, v)
    [] m = "licenses" -> Cell(a, v)
    [] m = "backup" -> BackupAt(a, v)
    [] m = "files" -> FileAt(a, v)
ElementAddress(m, i, v) ==
  IF m \in {"search", "packages"} THEN At("package", v.name)
  ELSE IF m \in OwnsPayloads THEN At("payload", i) ELSE At("lent", i)

Elements(m, vs) ==
  IF m \in {"search", "packages"} THEN [a \in {} |-> a]
  ELSE LET e == [i \in DOMAIN vs |-> ElementAt(m, ElementAddress(m, i, vs[i]), vs[i])]
       IN  [a \in UNION {DOMAIN e[i] : i \in DOMAIN vs} |-> e[a[2]][a]]

\* A list of them; files is a counted array instead, and null when it is empty.
Head0(m, vs) == IF vs = <<>> THEN Null ELSE IF m = "files" THEN At("lent", 1) ELSE At("result", 1)
Links(m, vs) ==
  IF m = "files" THEN Cell(At("filelist", 0), [count |-> Len(vs)])
  ELSE [a \in {At("result", i) : i \in DOMAIN vs} |->
          [data |-> ElementAddress(m, a[2], vs[a[2]]),
           next |-> IF a[2] < Len(vs) THEN At("result", a[2] + 1) ELSE Null]]
Given(m, vs) == Merge(Elements(m, vs), Links(m, vs))

\* What a walk along `next' finds.
Walk(list, ptrs) ==
  LET from[k \in 0 .. Len(ptrs)] ==
        IF k = 0 THEN <<>>
        ELSE LET n == heap[At(list, Len(ptrs) + 1 - k)]
             IN  <<n.data>> \o (IF n.next = Null THEN <<>> ELSE from[k - 1])
  IN  from[Len(ptrs)]

Read(m, in) ==
  [l \in DOMAIN in |-> IF l = "depstring" THEN Parsed(heap[At("string", 1)]) ELSE Walk(l, in[l])]

--------------------------------------------------------------------------------
Init ==
  /\ method = "none" /\ pc = "idle" /\ input = NoInput
  /\ heap = Cache
  /\ result = Null /\ node = Null /\ out = <<>> /\ told = NoInput /\ meant = <<>>

\* A wrapper is called and builds its strings and chains.  A needle with a NUL
\* ends search before there is anything.
Begin(m) ==
  /\ pc = "idle"
  /\ method' = m /\ pc' = "call"
  /\ \E in \in Slices(m) :
       input' = in /\ heap' = Merge(heap, Merge(CStrings(m, in), Chains(m, in)))
  /\ UNCHANGED <<result, node, out, told, meant>>

\* libalpm reads the input and hands over or lends a result.
Libalpm ==
  /\ pc = "call" /\ method \in OwnsNodes \cup Lends
  /\ told' = Read(method, input)
  /\ \E vs \in SeqsUpTo(Values[method], MaxResult) :
       /\ meant' = vs
       /\ heap' = Merge(heap, Given(method, vs))
       /\ result' = Head0(method, vs) /\ node' = result'
  /\ pc' = "copy"
  /\ UNCHANGED <<method, input, out>>

\* No list to look at: update_dbs gets a code, find_dbs_satisfier a package or
\* none; a search that fails returns at once.
NoList ==
  /\ pc = "call" /\ method \in {"update_dbs", "find_dbs_satisfier", "search"}
  /\ told' = Read(method, input)
  /\ pc' = "drop"
  /\ UNCHANGED <<method, input, heap, result, node, out, meant>>

\* A depstring with a NUL: the chain was built already and is dropped.
Refuse ==
  /\ pc = "call" /\ method = "find_dbs_satisfier"
  /\ pc' = "drop"
  /\ UNCHANGED <<method, input, heap, result, node, out, told, meant>>

--------------------------------------------------------------------------------
(* Reading the result                                                          *)

Data(n) == IF method = "files" THEN n ELSE heap[n].data

Following(n) ==
  IF method # "files" THEN heap[n].next
  ELSE IF n[2] < heap[At("filelist", 0)].count THEN At("lent", n[2] + 1) ELSE Null

\* What is collected: copies of structs and strings, views of packages.
Collect(a) ==
  CASE method = "check_deps" -> DepMissingOf(heap, a)
    [] method = "check_conflicts" -> ConflictOf(heap, a)
    [] method = "depends" -> DependencyOf(heap, a)
    [] method = "licenses" -> cstr(heap, a)
    [] method = "backup" -> BackupEntryOf(heap, a)
    [] method = "files" -> PackageFileOf(heap, a)
    [] method \in {"search", "packages"} -> a

\* Seeded bug: an element that was collected already is skipped, by a
\* `continue' that comes before the loop moves on.
IterateDistinct ==
  /\ pc = "copy" /\ node # Null
  /\ IF Collect(Data(node)) \in {out[i] : i \in DOMAIN out} THEN UNCHANGED <<out, node>>
     ELSE out' = Append(out, Collect(Data(node))) /\ node' = Following(node)
  /\ UNCHANGED <<method, pc, input, heap, result, told, meant>>

\* AlpmListIter::next, or the loop of files.
Iterate ==
  /\ pc = "copy" /\ node # Null
  /\ out' = Append(out, Collect(Data(node)))
  /\ node' = Following(node)
  /\ UNCHANGED <<method, pc, input, heap, result, told, meant>>

Goto(phase) ==
  /\ node = Null /\ pc' = phase /\ node' = result
  /\ UNCHANGED <<method, input, heap, result, out, told, meant>>

\* Seeded bugs: payloads are freed whoever owns them; they never are.
FreeAll == pc = "copy" /\ Goto(IF method \in OwnsNodes THEN "free_inner" ELSE "drop")
FreeNodesOnly == pc = "copy" /\ Goto(IF method \in OwnsNodes THEN "free" ELSE "drop")

\* The iteration is over.  alpm_list_free_inner comes first where the payloads
\* are the wrapper's, then alpm_list_free where the nodes are.
Collected ==
  pc = "copy" /\ Goto(CASE method \in OwnsPayloads -> "free_inner"
                        [] method = "search" -> "free"
                        [] method \in Lends -> "drop")

\* free_depmissing and free_conflict: the heap without the struct they are
\* given and what it owns.
free_payload(item) ==
  [a \in {b \in DOMAIN heap : <<b[1], b[2]>> # <<item[1], item[2]>>} |-> heap[a]]

\* alpm_list_free_inner calls them with the payload of each node in turn.
FreeInner ==
  /\ pc = "free_inner" /\ node # Null
  /\ heap' = free_payload(heap[node].data)
  /\ node' = heap[node].next
  /\ UNCHANGED <<method, pc, input, result, out, told, meant>>

FreeInnerDone == pc = "free_inner" /\ Goto("free")

\* alpm_list_free: `next' is read before the node goes.
FreeNode ==
  /\ pc = "free" /\ node # Null
  /\ heap' = [a \in DOMAIN heap \ {node} |-> heap[a]]
  /\ node' = heap[node].next
  /\ UNCHANGED <<method, pc, input, result, out, told, meant>>

FreeDone == pc = "free" /\ Goto("drop")

\* The strings and chains of the call, and what libalpm lent, of which it
\* forgets what it likes.
CallCells == {a \in DOMAIN heap : \/ a[1] \in InputLists(method) \cup {"string"}
                                  \/ method \in Lends /\ a[1] \in {"lent", "filelist", "result"}}

\* The wrapper returns; everything local is dropped.
Return ==
  /\ pc = "drop"
  /\ heap' = [a \in DOMAIN heap \ CallCells |-> heap[a]]
  /\ method' = "none" /\ pc' = "idle" /\ input' = NoInput
  /\ result' = Null /\ node' = Null /\ out' = <<>> /\ told' = NoInput /\ meant' = <<>>

Step == \/ Libalpm \/ NoList \/ Refuse \/ Iterate \/ Collected
        \/ FreeInner \/ FreeInnerDone \/ FreeNode \/ FreeDone \/ Return

Next == Step \/ \E m \in Methods : Begin(m)

\* A thread inside a wrapper is scheduled, in libalpm too, which returns.
Spec == Init /\ [][Next]_vars /\ WF_vars(Step)

--------------------------------------------------------------------------------
(* Properties                                                                  *)

Nodes == {At(l, i) : l \in {"pkglist", "remove", "upgrade", "needles", "dbs"}, i \in 1 .. MaxInput}
         \cup {At(l, i) : l \in {"result", "lent"}, i \in 1 .. MaxResult}
IsNode(a) == a[1] \in {"pkglist", "remove", "upgrade", "needles", "dbs", "result"}

TypeOK ==
  /\ method \in Methods \cup {"none"}
  /\ pc \in {"idle", "call", "copy", "free_inner", "free", "drop"}
  /\ node \in Nodes \cup {Null} /\ result \in Nodes \cup {Null}
  /\ \A a \in DOMAIN heap :
       IsNode(a) => heap[a].next \in Nodes \cup {Null} /\ ~IsNode(heap[a].data)
  /\ Len(out) <= MaxResult /\ Len(meant) <= MaxResult

InUse(a) == a \in DOMAIN heap

\* No memory is read that was freed, or freed twice: what libalpm is about to
\* walk is all there, and so are the node at which an iteration or a freeing
\* loop stands and, until payloads are freed, what it points at (list.rs:29-36,
\* borrowed_list.rs:6-13, handle.rs:178-190).
NothingDangles ==
  /\ pc = "call" =>
       \A l \in InputLists(method) : \A i \in DOMAIN input[l] :
         InUse(At(l, i)) /\ InUse(input[l][i])
  /\ pc \in {"copy", "free_inner", "free"} /\ node # Null =>
       InUse(node) /\ (pc # "free" => InUse(Data(node)))

\* Between calls everything a call allocated, on either side, is gone
\* (list.rs:14-22).
NothingLeaks == pc = "idle" => DOMAIN heap = PackageCells

\* What libalpm keeps is never freed by a wrapper, whatever list it came in:
\* the packages of a database, and the lists that were lent
\* (list.rs:6-13, db.rs:65-69, 105-113).
BorrowedIntact ==
  /\ PackageCells \subseteq DOMAIN heap
  /\ method \in Lends /\ pc # "call" => DOMAIN Given(method, meant) \subseteq DOMAIN heap

\* libalpm reads from each chain what the slice held, in order, and from a
\* depstring the dependency it was rendered from (borrowed_list.rs:28-29,
\* pkg.rs:207-209).
InputRead ==
  told # NoInput =>
    \A l \in DOMAIN told :
      IF l = "depstring"
      THEN \A f \in {"name", "version", "modifier"} : told[l][f] = input[l][f]
      ELSE told[l] = input[l]

\* What a wrapper returns is what libalpm put in the result, in order, a
\* package read through its view included (pkg.rs:283-288, 315-321).
OutIsResult ==
  pc = "drop" =>
    meant = IF method \in {"search", "packages"} THEN [i \in DOMAIN out |-> PackageOf(heap, out[i])]
                                                 ELSE out

\* Every call returns: no iteration and no freeing loop runs on.
CallReturns == pc # "idle" ~> pc = "idle"
================================================================================
