# A TLA+ model of Nyx

Nyx is a package manager for Arch Linux, at the moment its foundation:
`nyx-core` (errors, output, paths, hashing, atomic writes) and `nyx-alpm` (a safe
Rust wrapper of libalpm). The crates `nyx-config`, `nyx-resolver`,
`nyx-transaction` and `nyx-cli` are placeholders without code. This directory
holds a model of what is there, what TLC checks of it and what TLAPS proves.
Paths below are relative to `src/crates/`.

## Inventory

**write_atomic** (`nyx-core/src/atomic.rs`). Keeps no state of its own; its
state is the file system: a directory, files, what of them is on disk. One
operation, nine system calls: create the directory, create a temp file, write,
sync, rename, sync the directory. Callers meet in the directory only. Hard: two
writers between any two system calls, a kill or a power cut between any two,
each call failing, names that collide. Correct when a path never shows anything
but a complete payload, an `Err` leaves the file alone and an `Ok` lasts.

**hash_file** (`nyx-core/src/hash.rs`). A buffer, an offset and a hasher for the
duration of a call. Reads a file that write_atomic may replace at any time.
Hard: short reads, the end of the file, blocks of two versions in one hash.
Correct when the result is the hash of one version the path had meanwhile, and
its digits, which `shard_path` makes a place in a cache of, name that content and
no other.

**ensure_layout** (`nyx-core/src/paths.rs`). Makes seventeen directories with
create_dir_all; any process may do so at any time (first run, `nyx doctor`).
Hard: two of them at once, a failure half way, something else in the way.
Correct when `Ok` means all are there, racing is no error, a call finishes what
an earlier one left half done, and one after an `Ok` changes nothing.

**Output** (`nyx-core/src/output.rs`). One record per run that says what is
printed where and how; the hard part is that it is decided once, from stdout,
and used for two streams.

**Errors** (`nyx-core/src/error.rs`, `nyx-alpm/src/error.rs`). Categories with a
code and an exit code, constant tables, and the conversion of a libalpm error into
one. Correct when the errno is that of the call that failed and the category says
which layer refused.

**Handle, Db, Package** (`nyx-alpm/src/handle.rs`, `db.rs`, `pkg.rs`). A Handle
owns a libalpm context; Db and Package are pointers into it with a lifetime. State:
the context (registered databases, errno, package caches) and the views alive.
Hard: the errno is read in a call of its own, views of several Handles are
combined, a refresh drops the packages a cache had, a Handle moves between
threads. Correct when no view outlives what it points into, libalpm is entered by
one thread at a time and every error is the failed call's own.

**Lists** (`nyx-alpm/src/list.rs`, `borrowed_list.rs`, and their users in
`handle.rs`, `db.rs` and `pkg.rs`). Chains built by Rust and read by libalpm, lists
built by libalpm that Rust frees, lists libalpm lends, with payloads of three
owners. Correct when nothing dangles, leaks or is freed by the wrong side.

**Records** (`nyx-alpm/src/pkg.rs`, `cstr.rs`). Packages, dependencies, missing
dependencies, conflicts, backup and file entries, copied field by field from C
structs with null pointers and enumerators; a dependency is also rendered, for
libalpm to read back. Correct when the copy says what the struct said.

**Bindings** (`nyx-alpm/src/sys.rs`, `build.rs`) are generated; not modelled.

## Modules

| module | models | uses |
| --- | --- | --- |
| `AtomicFile` | what write_atomic promises: files replaced in one step, power cuts that bring back an earlier whole content | |
| `WriteAtomic` | write_atomic, system call by system call, with the file system | `AtomicFile` (refinement) |
| `HashFile` | hash_file, read by read, against writers of the promised kind; the names made of a hash | `AtomicFile` (composition) |
| `Layout` | ensure_layout, mkdir by mkdir, by several processes | |
| `Output` | Output::new and the five printing methods | |
| `AlpmHandle` | initialize and the methods of Handle and Db, call and return apart, under what the signatures allow; the category of their errors | |
| `AlpmRecords` | the C structs of packages and dependencies, and the Rust values copied from them | |
| `AlpmLists` | the memory behind BorrowedList, AlpmList and every wrapper that passes, takes or reads a list | `AlpmRecords` |
| `WriteAtomicProofs`, `HashFileProofs`, `LayoutProofs`, `OutputProofs`, `AlpmHandleProofs`, `AlpmRecordsProofs` | theorems about the module of that name | that module, TLAPS |
| `AlpmListsProofs` | theorems about `AlpmLists` | that module, `AlpmRecordsProofs`, TLAPS |
| `MC...` | instances for TLC | one of the above |

### How they correspond to the code

*WriteAtomic.* A thread's `pc` names the system call it is about to make. `dir`
and `inode[i].data` are what programs see; `disk` (the directory images a power
cut may leave), `inode[i].synced` and `home` (the directory's own entry) are what
survives. `Call` is atomic.rs:15-18, `MakeDir` 19-24 (a bad file name is refused
after the directory was made), `CreateTemp` 25-35, `Write` and `SyncFile` 36-38,
`Rename` 41, `SyncDir` 43-50. `Fail` is the `?` of each: it returns and cleans
nothing up. `File::create` truncates, so a temp name that is taken is reused. The
clock may give any of `ClockReadings`, the same one again included. The name of a
temp file is the triple (file name, pid, reading), which is what the format
string tells apart. The file system is external and is the weakest the code can
count on: directory updates reach the disk in order, each atomically, whenever
they like (the "some filesystems/journaling modes" of atomic.rs:45); blocks of an
unsynced file may be lost from any point on.

*HashFile.* `Files` is an instance of `AtomicFile`; `Replace` is its action. `Open`
fixes the content read from then on: `WriteAtomic`'s `PublishedFrozen` is what
makes that right, since it says of a file once published that it is not written again
even when its path has been given to another. `buf` keeps stale blocks, as the array in the code does.
`Blake3` is a parameter: any function of blocks to `HashLen` bytes that tells the
versions apart. `to_hex` makes two digits of each byte and `shard_path` the two
directories and the name.

*Layout.* `Dirs` is the list of paths.rs:126-144, each a sequence of components.
create_dir_all is the standard library's: it tries the path itself, goes up
while a parent is missing and comes back down, and takes an existing directory
for success (`Make`, `Exists`, `NoParent`, `InTheWay`, `MkdirFails`). `There` is
the loop of ensure_layout and `GiveUp` its `?`.

*Output.* `New` is Output::new; `Shown`, `Stream` and `Styled` are the conditions
of line, header, warn, error and debug. `written` says which of the two streams got
plain and which got styled text. Text, order and the `json` flag (which no method
looks at) are left out.

*AlpmHandle.* `Initialize` makes a Handle, refuses a path before libalpm sees it, or gets a
null with an errno of its own (`InitializeFails`). The guards `Ref` and `Mut` are `&self` and `&mut self`: a view
taken with `&self` lets shared calls pass and keeps exclusive ones out, one made by
register_syncdb keeps all out. `Has` is Send without Sync: the thread that owns the
Handle is the only one with a reference. A method is `Enter`ed, libalpm
succeeds or fails, and the wrapper goes on with a return code and a context that
may have changed meanwhile if the guards allow it. Methods of one shape share
an action (`Option` for add_cachedir and set_logfile, `Check` for check_deps and
check_conflicts). A view carries the number of refreshes its database's cache
had seen; comparing it with `cache` tells whether it dangles. Two consequences
of the signatures are visible in the model: `UpdateDbs` never gets a Db of its own
Handle, since such a Db borrows it, so that the only refresh a program can make is
of another Handle's databases; and a Db from register_syncdb has to go before its
Handle can be used again.

`NyxErrorFrom` is the `From` instance of alpm error.rs:40-48, as far as the category goes.

*AlpmRecords.* `...At(a, v)` is the memory that holds value `v` at address `a`, as libalpm
would lay it out: a cell for the struct, one for each string that is there, null for
those that are not, numbers for enumerators. A null pointer (`Unset`) stands for
None, and for "" in a field that the wrapper reads as a `String`; an `Option` that holds an empty
string has a pointer to one. `Package`,
`Dependency`, `DepMissing`, `Conflict`, `BackupEntry` and `PackageFile` are the sets of values,
named after the Rust types. `...Of(mem, a)` is what the wrapper makes
of it again. A depstring is one sequence of characters: `DisplayString` (to_display_string)
puts name, comparison and version together with nothing between them, and `Parsed`
(alpm_dep_from_string) finds the comparison again as libalpm does, at the first "<", else the
first ">", else the first "=". The `: description` a depstring may end in is not modelled, since
to_display_string never writes one. Fields of one type and one way of copying share a
representative.

*AlpmLists.* `heap` maps the memory in use to its contents; freeing removes a
cell. `Begin` builds the strings and chains of a call, `Libalpm` reads them (`told`)
and hands over or lends a list (`meant`), `Iterate` is AlpmListIter::next, or the loop
of Package::files, with what is collected (`Collect`), `Collected` to `FreeDone` are the
calls of alpm_list_free_inner and alpm_list_free, whose loops are libalpm's (`FreeInner`,
`FreeNode`) and whose callbacks are the wrapper's (`free_payload`), and `Return` drops what is local.
`NoList` and `Refuse` are the ways round a result.
`AlpmListsAssumption` says that
package names are unique in a database, that values are of the type their wrapper copies; a
depstring is rendered of a Dependency libalpm itself had parsed.

Operators under "Seeded bug" are variants no specification uses. Each stands for
a plausible mistake, put in the place of the operator below it to see a property
fail.

## Runs

| run | configuration | shows |
| --- | --- | --- |
| crash | 2 processes, 1 file, 3 calls, 2 mishaps, directory missing or that of a bare file name, every call may fail | TypeOK, CrashWhole, ErrNotPublished, PublishedFrozen, Implements |
| threads | 2 threads of a process and one of another, 2 files and 2 paths that are refused, 2 calls, 2 mishaps, directory present and its fsync working | VisibleWhole, Tidy, AckedDurable, ErrHasCause, CallReturns |
| hash_file | 2 readers, 3 versions, a buffer of 2 blocks, hashes of 3 bytes, 2 calls, 1 failing read | TypeOK, HashOfOneVersion, ShardIsIdentity, HashReturns |
| handles | 2 threads, 2 Handles, 2 errors, 2 views, symmetry of threads and of Handles | TypeOK, ContextOpen, OneAtATime, ErrIsOwn |
| lists | ten wrappers, 2 packages, inputs of up to 2, results of up to 3, calls without end | TypeOK, NothingDangles, NothingLeaks, BorrowedIntact, InputRead, OutIsResult, CallReturns |
| layout | 2 processes, root missing or a file in the way, 3 calls, 1 failing mkdir | TypeOK, OkIsComplete, RaceIsNoError, Idempotent, RetryFinishes |

*Bounds.* Two writers are the fewest that can meet, three calls let one come
between two of the other, and two mishaps let a power cut follow a failure. The
third thread of run threads puts a writer of another process beside two of one. The
larger payload has two blocks, so that it can be cut in half; one clock reading
is the worst case for the temp names. A buffer of two blocks against files of
zero, two and three has the empty, the exact and the odd last read. The hashes of
hash_file are chosen so that digits would run together if a byte below 16 had one
only. Three elements give a list a first, a middle and a last node and a repeated
payload; the values of lists have every modifier and every optional field there and
not there, and its depstrings every comparison, none, one without a version and a version that has a comparison in it. Run lists bounds no number of calls: each ends in a state without
remains, so that the state space closes. Two threads, two
Handles and two views are the fewest with which a Handle can move away while a
view of it, or a call that combines it with the other, is under way. Run handles sets
`MaxRefresh` to 0: no property of it looks at `cache`, and the counter would
multiply the states; run foreign_update has the refreshes. `MaxCalls`,
`MaxMishaps`, `MaxFaults`, `MaxViews` and `MaxRefresh` are named
bounds in the guards. Layout uses the real list of directories.

*Deadlock* is checked in run lists, where another call is always possible. Elsewhere
the checking is off: a bound on calls ends, and then nothing is left to do. That
no call hangs is stated as liveness where there is a loop.

`RetryFinishes` (layout) is about calls made once the faults are over with nothing in the way:
each ends in `Ok` with the whole layout there, whatever earlier calls left.

*Fairness* is weak fairness of the steps of a thread that is inside a call:
the operating system schedules it. In `AlpmLists` that includes the step in which
libalpm does its work: it comes back. `AlpmHandle` has no fairness. Nothing is assumed
of calls being made or of processes dying.

### Where the code and its documents disagree

| run | property | what happens |
| --- | --- | --- |
| same_stamp | VisibleWhole | two threads write one path within one clock reading: one temp file for both, renamed half written |
| new_directory | AckedDurable | the entry of a directory write_atomic made is never synced; a power cut after Ok may take it |
| update_code | UpdateCodeIsErr | a positive code of alpm_db_update is Ok, not Err |
| foreign_update | CacheKept | update_dbs of one Handle refreshes databases of another while their Packages live; that a refresh replaces the packages is libalpm's behaviour and an assumption of the model |
| refused_path | CategoryIsCause | a path that libalpm never saw is an error of category Alpm ("The underlying libalpm call failed", core error.rs:22), where core error.rs:30 has InvalidInput for what "failed validation before reaching lower layers" |
| output_redirected | ColourOnlyOnTty | stderr gets colour because stdout is a terminal |

Read in the code, too small to need a run:

- for a bare file name `path.parent()` is the empty path, whose open fails, so the
  directory is not synced (atomic.rs:19 and 46; `home = "bare"` in `SyncDir`, a start of
  run crash);
- a failed search reports the errno -1 instead of the context's (db.rs:92), against
  alpm error.rs:7-8;
- paths.rs:122 says "(mode 0755)": create_dir_all asks for 0777 and the umask decides
  (`Make` in `Layout`);
- pkg.rs:207-209 says a dependency is rendered "via `alpm_dep_compute_string` rather than
  reimplementing the formatting rules": `to_display_string` does reimplement them and
  drops the description (`DisplayString` in `AlpmRecords`);
- handle.rs:153 takes an empty result for "all satisfied"; a check that failed is null
  and becomes an empty Vec too (`ReturnList` in `AlpmHandle`);
- paths.rs:9-10 wants every path below the root; user_config_dir is not, and takes a
  relative HOME;
- `--color=always` overrides NO_COLOR, which output.rs:6-8 does not say.

## Proofs

`WriteAtomicProofs` proves, for all values of the constants (any number of threads,
processes, files, payloads, clock readings, calls and mishaps):

- `TypeCorrect`: `Spec => []TypeOK`, and `LeavesNoTemp`: `Spec => []Tidy`, with no hypothesis;
- `NeverPartial`: `Spec => [](VisibleWhole /\ CrashWhole)`, and `WholeAfterCrash`, its second half;
- `ErrorMeansUnchanged`: `Spec => []ErrNotPublished`;
- `NeverRewritten`: `Spec => PublishedFrozen`, of files that still have a path and of those
  whose path was replaced;
- `FailureHasCause`: `Spec => ErrHasCause`;
- `OkIsDurable`: `Spec => []AckedDurable`;
- `RefinesAtomicFile`: `Spec => Implements`.

All but the first two assume `NoClash`, that two threads of one process do not write
the same path; run same_stamp shows that it is needed. `OkIsDurable` also assumes
`SyncsHome`: the directory was there and on disk from the start and its fsync is not
among the faults; run new_directory shows the first of these is needed, and the
second is needed because atomic.rs:47 drops that error. The constants'
assumptions are those of `WriteAtomic` (`WriteAtomicAssumption`), which TLC evaluates on
every run: sizes are bounded, names of the three kinds differ, and no temp name is
a name files are published under.

`PublishedFrozen` speaks of `Final` files, those no call has in hand and no temp name refers
to: what a path shows is final by the invariant, and what is final stays so whatever the other
threads do. The argument is the inductive invariant `IInv`. CrashWhole alone is not inductive:
`Rename` gives a final name to whatever the temp entry refers to, so the invariant
has to say what that is. `Filling` and `Flushed` say that between create and rename
the temp entry is the call's own inode, holds exactly the blocks written so far and
is on disk before the rename. For that to survive the steps of other threads,
`Private` says that the inode of a call is nobody else's and under no other entry
in any image; `Unused` and `Numbered` that an inode is fresh until create;
`Injective` and `Separate` that power cuts do not bring back an entry that
would alias one in use (a temp file left behind and reused, for instance). Each
action has a lemma. The refinement adds `Rooted`, that a directory which does not
exist has no entries in any image and nobody works in it, and shows that every step
but Rename and PowerLoss is a stutter or a `Settle` of AtomicFile. `LeavesNoTemp`
needs `Attended`: as long as nothing went wrong, each temp entry is that of a call
that still works on it. `OkIsDurable` needs `Lasting`: from its rename on, a call's
`before`, the inodes that had its path until then, are in no image a power cut may
leave once the directory is synced, and nobody can publish them again.

`AlpmHandleProofs` proves, for any number of threads, Handles, repositories, errors and
views, from `AlpmHandleAssumption` alone (the error codes are positive, `Nobody` is no
thread, `Local` is no sync repository, the bounds are numbers):

- `TypeCorrect`: `Spec => []TypeOK`;
- `NoDanglingView`: `Spec => []ContextOpen`;
- `Serialized`: `Spec => []OneAtATime`;
- `ErrorIsOfTheCall`: `Spec => []ErrIsOwn`;
- `CachesKeptAlone`: `Spec => []CacheKept`, for a program in which all Handles are one.

`CachesKeptAlone` says what run foreign_update leaves of CacheKept: with one Handle,
update_dbs never has a database to refresh (`NothingToUpdate`), since a Db would borrow
the Handle it needs for itself.

ContextOpen, OneAtATime and ErrIsOwn are not inductive. What makes them so is `Tied`, that all a view borrows is
open and owned by the thread that holds its database, and `Within`, that a thread in a
method owns its Handle and holds its arguments; from these the contexts two threads
touch are disjoint. `Told` carries the errno from the failure to the return: a failure
elsewhere writes another context's. `Release` and `Move` keep `Tied` because nothing
borrows their Handle, which is where `&mut self` is needed; the views a method hands out
are `Lawful`. Each action has a lemma.

`HashFileProofs` proves, for any readers, files, versions, sizes, buffer and length of
hashes, from `HashFileAssumption` (BLAKE3 gives each version a hash of its own):
`TypeCorrect`, `OneVersion` (`HashOfOneVersion`) and `SameShardSameContent`
(`ShardIsIdentity`). The invariant is `Fed`, that the hasher has the
blocks up to the offset, and `Opened`, that what is open is a version the path had since
the call; `SameShardSameContent` also needs that `to_hex` is injective, which is
arithmetic of 16.

`LayoutProofs` proves, for any processes, umasks, root and obstructions: `TypeCorrect`,
`OkMeansComplete` (`OkIsComplete`), `RacesAreHarmless` (`RaceIsNoError`) and
`SecondCallChangesNothing` (`Idempotent`). The invariant is `Closed`, that with a
directory there are those above it, `Behind`, that a call has made what comes before
the directory it is at, and `Settled`, that all are there after the first Ok.

`OutputProofs` proves `ColourIsForTerminals`: `ColourOnlyOnTty`, which run
output_redirected refutes, holds of every program whose stderr is a terminal if its stdout is
one, so that the run shows the one way it fails.

`AlpmRecordsProofs` proves what `...Of(mem, a)` gives in any memory that holds `...At(a, v)`,
whatever else is in it: `v`, for every package, dependency, missing dependency, conflict, backup
entry and file (`PackageRead`, `DependencyRead`, `DepMissingRead`, `ConflictRead`, `BackupRead`,
`FileRead`). `RenderingIsDepstring` says that what libalpm parsed of a depstring is
rendered as that depstring, character by character and whatever the characters are, so that libalpm
reads the same dependency again. The one assumption is that None is no text
(`AlpmRecordsAssumption`). The lemmas below
them are about addresses: a field lies apart from its struct and from the other fields.

`AlpmListsProofs` proves, for any packages, values and lengths of slices and results, from
`AlpmListsAssumption`: `TypeCorrect`, `ReadsLiveMemory` (`NothingDangles`), `AllIsFreed`
(`NothingLeaks`), `LentStaysWhole` (`BorrowedIntact`), `AlpmReadsTheSlice` (`InputRead`) and
`CopiesAreTrue` (`OutIsResult`). None of these is inductive: that a wrapper leaks nothing depends on
what the loops before have freed, that it reads nothing freed on what later nodes refer to. All
follow from `IInv`, which is `Inductive` and describes the memory exactly. `Accounted` says which
cells there are, the packages, what the wrapper made (`Made`) and what is left of libalpm's
result in this phase and at this node (`Left`), and what is in each; `Walking` that the loop
stands at a place of the result, `Collecting` that what it passed was copied, `Heard` that libalpm
read what was passed, `Phases` which wrappers go through which phase. Two results carry the
proof: the cells of different structs lie apart (`Apart`, from the address lemmas), and a walk
along a chain of any length finds its pointers in order (`WalkReads`). The walk is a recursive
function; induction on its length is done without an induction theorem, by taking the least
place at which it would go wrong (`NatMin`, from the well-foundedness of the subsets of a finite set).

**Calls run down.** What is behind the liveness properties is proved as an action property,
`CallsRunDown`, in `WriteAtomicProofs`, `HashFileProofs`, `LayoutProofs` and `AlpmListsProofs`: a
pair (`Rank`, `Rest`) of the phase and of what is left to do in it gets smaller with each step of
a call, and no step of another thread, process or writer makes it larger. With fairness, and with a
step being possible whenever a call is under way, this gives `CallReturns` and `HashReturns`, and
that a call of ensure_layout ends, which `RetryFinishes` needs; fairness is what TLC adds.

Model-checked only: liveness (`CallReturns` of two modules, `HashReturns`, `RetryFinishes`), which is
outside the prover's reach. Every invariant and every action property of a passing run is a
theorem.

## Not modelled

Option getters, `version`, `capabilities`, names of databases and `last_error` called by
itself: they read and change nothing. The tables of codes, exit codes
and error texts are constants. NyxError's constructors for other crates, its hint
and its printing: nothing calls them yet. `user_config_dir` and the paths of pacman's
files: they are only built. The `json` flag of Output: no method looks at it. BLAKE3
itself; bindings, the build script and placeholder crates. A clean-up of temp files, a
retry of interrupted reads and removal of directories are not in the code and so not in
the model. Panics and memory exhaustion are left out.

## Plan

1. `AtomicFile`, `WriteAtomic`, `HashFile`, `Layout`, `Output`, `AlpmHandle` and their proofs:
   done.
2. `AlpmRecords`, `AlpmLists` and their proofs: done.
3. A composition of `HashFile` with `WriteAtomic` itself in the place of `AtomicFile`;
   `NeverRewritten` and `NeverPartial` are its interface.
4. `nyx-config`, `nyx-resolver`, `nyx-transaction` and `nyx-cli`, when they have code.
