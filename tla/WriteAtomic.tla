------------------------------ MODULE WriteAtomic ------------------------------
(***************************************************************************)
(* nyx_core::atomic::write_atomic (crates/nyx-core/src/atomic.rs): threads *)
(* of several processes replace files of one directory, each by            *)
(*                                                                         *)
(*   create_dir_all -> create temp -> write_all -> sync_all -> rename      *)
(*                  -> sync_all of the directory                           *)
(*                                                                         *)
(* with one action per system call.  Any call may fail, a process may be   *)
(* killed and the machine may lose power between any two of them.          *)
(*                                                                         *)
(* The file system is external.  What a program sees (dir, inode.data) is  *)
(* kept apart from what survives a power cut: `disk' is the set of         *)
(* directory images the disk may hold, inode.synced says whether a file's  *)
(* blocks are on it.  Directory updates reach the disk in order, each      *)
(* atomically, at any time (a metadata journal); fsync of a directory      *)
(* settles its own entries and nothing else; blocks of an unsynced file    *)
(* may be lost from any point on.                                          *)
(***************************************************************************)
EXTENDS Naturals

CONSTANTS
  Threads,        \* threads that may call write_atomic
  ProcessOf,      \* the process (its pid) each thread belongs to
  Names,          \* paths with a parent and a UTF-8 file name
  NoFileName,     \* paths whose file name is missing or not UTF-8
  NoParent,       \* paths without a parent ("/" or "")
  Targets,        \* the paths each thread writes
  Payloads,       \* values of `data'
  Size,           \* number of blocks write_all needs for each payload
  ClockReadings,  \* values SystemTime::now may give, in nanoseconds
  Homes,          \* what the directory may be at first (values of home)
  Faults,         \* the system calls that may fail
  MaxSize,        \* bound on Size
  MaxCalls,       \* bound: calls of write_atomic in a behaviour
  MaxMishaps      \* bound: failures, kills and power cuts together

Paths == Names \cup NoFileName \cup NoParent

ASSUME WriteAtomicAssumption ==
  /\ Targets \in [Threads -> SUBSET Paths]
  /\ MaxSize \in Nat /\ Size \in [Payloads -> 0 .. MaxSize]
  /\ ClockReadings \subseteq Nat
  /\ Homes \subseteq {"absent", "durable", "bare"}
  /\ Paths # {} /\ Payloads # {} /\ ClockReadings # {}
  /\ MaxCalls \in Nat
  /\ MaxMishaps \in Nat
  /\ Names \cap (NoFileName \cup NoParent) = {}
  /\ NoFileName \cap NoParent = {}
  /\ Names \cap (Paths \X {ProcessOf[t] : t \in Threads} \X ClockReadings) = {}

VARIABLES
  pc,       \* where each thread is; "ok", "err", "killed" end a call
  arg,      \* path and data of each thread's latest call
  stamp,    \* nanoseconds in its temp name
  fd,       \* the inode it writes (before create: the number a new one gets)
  off,      \* blocks written through fd so far
  inode,    \* contents of files, and whether they are on disk
  dir,      \* the directory as programs see it: entry -> inode
  disk,     \* the images of the directory a power cut may leave
  home,     \* the directory's own entry: "absent", "volatile" (not on disk yet),
            \* "durable", or "bare": durable, but a path without directory part
            \* leads to it, whose parent is the empty path
  before,   \* history: entries a rename put behind it
  calls, mishaps

callVars == <<arg, stamp, fd, off>>
fsVars   == <<inode, dir, disk, home>>
vars     == <<pc, callVars, fsVars, before, calls, mishaps>>

--------------------------------------------------------------------------------
(* Files and directories                                                       *)

None == 0                                   \* no inode
Inodes == 1 .. MaxCalls                     \* a call creates one at most
Hole == "hole"                              \* a block nobody wrote
TempNames == Names \X {ProcessOf[t] : t \in Threads} \X ClockReadings
Entries == Names \cup TempNames
EmptyDir == [e \in Entries |-> None]

Whole(d) == [b \in 1 .. Size[d] |-> d]      \* the complete content
Empty == [b \in 1 .. 0 |-> Hole]

\* Seeded bug: the offset is advanced before the block is written.
PutAfter(data, b, d) ==
  [x \in DOMAIN data \cup 1 .. b + 1 |->
     IF x = b + 1 THEN d ELSE IF x \in DOMAIN data THEN data[x] ELSE Hole]

\* write(2) of block b: an offset past the end leaves a hole.
Put(data, b, d) ==
  [x \in DOMAIN data \cup 1 .. b |->
     IF x = b THEN d ELSE IF x \in DOMAIN data THEN data[x] ELSE Hole]

\* What is left of content of which only the first k blocks reached the disk.
Cut(data, k) == [x \in {b \in DOMAIN data : b <= k} |-> data[x]]

\* Every name an entry may be found under after a power cut.
CrashImages == disk \cup (IF home = "volatile" THEN {EmptyDir} ELSE {})

--------------------------------------------------------------------------------
(* The call                                                                    *)

Idle(t) == pc[t] \in {"ready", "ok", "err", "killed"}
Goto(t, l) == pc' = [pc EXCEPT ![t] = l]

\* Seeded bug: the temp name leaves the file name out.
SharedTempPath(n, t, now) == <<CHOOSE m \in Names : TRUE, ProcessOf[t], now>>

TempPath(n, t, now) == <<n, ProcessOf[t], now>>

Mishap == mishaps < MaxMishaps /\ mishaps' = mishaps + 1

\* A system call fails and `?' returns its error: nothing is cleaned up.
Fail(t, syscall) == /\ syscall \in Faults
                    /\ Mishap
                    /\ Goto(t, "err")
                    /\ UNCHANGED <<callVars, fsVars, before, calls>>

--------------------------------------------------------------------------------
(* Seeded bugs: what the operations below might have been.  No specification   *)
(* uses them; each shows that a property of this module can fail.              *)

\* The destination is opened instead of a temp file.
CreateInPlace(t) ==
  /\ pc[t] = "create"
  /\ LET n == arg[t].name
         i == IF dir[n] = None THEN fd[t] ELSE dir[n]
     IN  /\ fd' = [fd EXCEPT ![t] = i]
         /\ inode' = [inode EXCEPT ![i] = [data |-> Empty, synced |-> FALSE]]
         /\ dir' = [dir EXCEPT ![n] = i]
  /\ off' = [off EXCEPT ![t] = 0]
  /\ disk' = disk \cup {dir'}
  /\ Goto(t, "write")
  /\ UNCHANGED <<arg, stamp, home, before, calls, mishaps>>

\* The temp file must be a new one: what an earlier call left makes this one fail.
CreateNewTemp(t) ==
  /\ pc[t] = "create"
  /\ \E now \in ClockReadings :
       LET e == TempPath(arg[t].name, t, now)
       IN  /\ stamp' = [stamp EXCEPT ![t] = now]
           /\ off' = [off EXCEPT ![t] = 0]
           /\ IF dir[e] = None
              THEN /\ inode' = [inode EXCEPT ![fd[t]] = [data |-> Empty, synced |-> FALSE]]
                   /\ dir' = [dir EXCEPT ![e] = fd[t]]
                   /\ disk' = disk \cup {dir'}
                   /\ Goto(t, "write")
              ELSE Goto(t, "err") /\ UNCHANGED <<inode, dir, disk>>
  /\ UNCHANGED <<arg, fd, home, before, calls, mishaps>>

\* The file offset is not advanced.
WriteSameBlock(t) ==
  /\ pc[t] = "write"
  /\ off[t] < Size[arg[t].data]
  /\ inode' = [inode EXCEPT ![fd[t]] =
                 [data |-> Put(@.data, off[t] + 1, arg[t].data), synced |-> FALSE]]
  /\ UNCHANGED <<pc, callVars, dir, disk, home, before, calls, mishaps>>

\* write instead of write_all: a short write counts as the whole.
SyncAfterShortWrite(t) ==
  /\ pc[t] = "write"
  /\ off[t] > 0
  /\ inode' = [inode EXCEPT ![fd[t]].synced = TRUE]
  /\ Goto(t, "rename")
  /\ UNCHANGED <<callVars, dir, disk, home, before, calls, mishaps>>

\* flush without sync_all.
FlushOnly(t) == /\ pc[t] = "write"
                /\ off[t] = Size[arg[t].data]
                /\ Goto(t, "rename")
                /\ UNCHANGED <<callVars, fsVars, before, calls, mishaps>>

\* The temp file is copied into place and stays.
CopyOver(t) ==
  LET i == dir[TempPath(arg[t].name, t, stamp[t])]
  IN  /\ pc[t] = "rename"
      /\ i # None
      /\ before' = [before EXCEPT ![t] = {img[arg[t].name] : img \in CrashImages} \cup {None}]
      /\ dir' = [dir EXCEPT ![arg[t].name] = i]
      /\ disk' = disk \cup {dir'}
      /\ Goto(t, "syncdir")
      /\ UNCHANGED <<callVars, inode, home, calls, mishaps>>

\* The directory is not synced at all.
SkipSyncDir(t) == /\ pc[t] = "syncdir"
                  /\ Goto(t, "ok")
                  /\ UNCHANGED <<callVars, fsVars, before, calls, mishaps>>

\* `?' after the rename: the call fails although the file is in place.
SyncDirOrFail(t) ==
  /\ pc[t] = "syncdir"
  /\ \/ /\ disk' = {dir}
        /\ Goto(t, "ok")
        /\ UNCHANGED <<callVars, inode, dir, home, before, calls, mishaps>>
     \/ Fail(t, "syncdir")

--------------------------------------------------------------------------------
Init ==
  /\ pc = [t \in Threads |-> "ready"]
  /\ arg = [t \in Threads |-> [name |-> CHOOSE n \in Paths : TRUE,
                               data |-> CHOOSE d \in Payloads : TRUE]]
  /\ stamp = [t \in Threads |-> CHOOSE s \in ClockReadings : TRUE]
  /\ fd = [t \in Threads |-> None]
  /\ off = [t \in Threads |-> 0]
  /\ inode = [i \in Inodes |-> [data |-> Empty, synced |-> TRUE]]
  /\ dir = EmptyDir
  /\ disk = {EmptyDir}
  /\ home \in Homes
  /\ before = [t \in Threads |-> {}]
  /\ calls = 0
  /\ mishaps = 0

\* write_atomic(path, data) starts; a path without a parent ends it at once.
Call(t, n, d) ==
  /\ Idle(t)
  /\ calls < MaxCalls
  /\ arg' = [arg EXCEPT ![t] = [name |-> n, data |-> d]]
  /\ fd' = [fd EXCEPT ![t] = calls + 1]
  /\ before' = [before EXCEPT ![t] = {}]
  /\ Goto(t, IF n \in NoParent THEN "err" ELSE "mkdir")
  /\ calls' = calls + 1
  /\ UNCHANGED <<stamp, off, fsVars, mishaps>>

\* create_dir_all(dir), then the check of the file name: a path with a bad
\* name has created its directory by the time it is refused.
MakeDir(t) ==
  /\ pc[t] = "mkdir"
  /\ \/ /\ home' = IF home = "absent" THEN "volatile" ELSE home
        /\ Goto(t, IF arg[t].name \in NoFileName THEN "err" ELSE "create")
        /\ UNCHANGED <<callVars, inode, dir, disk, before, calls, mishaps>>
     \/ Fail(t, "mkdir")

\* The clock is read and File::create opens the temp file: a new inode, or
\* the file already under that name, truncated.
CreateTemp(t) ==
  /\ pc[t] = "create"
  /\ \/ \E now \in ClockReadings :
          LET e == TempPath(arg[t].name, t, now)
              i == IF dir[e] = None THEN fd[t] ELSE dir[e]
          IN  /\ stamp' = [stamp EXCEPT ![t] = now]
              /\ fd' = [fd EXCEPT ![t] = i]
              /\ off' = [off EXCEPT ![t] = 0]
              /\ inode' = [inode EXCEPT ![i] = [data |-> Empty, synced |-> FALSE]]
              /\ dir' = [dir EXCEPT ![e] = i]
              /\ disk' = disk \cup {dir'}
              /\ Goto(t, "write")
              /\ UNCHANGED <<arg, home, before, calls, mishaps>>
     \/ Fail(t, "create")

\* write_all: one block at the file offset of fd.
Write(t) ==
  /\ pc[t] = "write"
  /\ off[t] < Size[arg[t].data]
  /\ \/ /\ off' = [off EXCEPT ![t] = @ + 1]
        /\ inode' = [inode EXCEPT ![fd[t]] =
                       [data |-> Put(@.data, off[t] + 1, arg[t].data), synced |-> FALSE]]
        /\ UNCHANGED <<pc, arg, stamp, fd, dir, disk, home, before, calls, mishaps>>
     \/ Fail(t, "write")

\* write_all is done; sync_all puts the file's blocks on disk.
SyncFile(t) ==
  /\ pc[t] = "write"
  /\ off[t] = Size[arg[t].data]
  /\ \/ /\ inode' = [inode EXCEPT ![fd[t]].synced = TRUE]
        /\ Goto(t, "rename")
        /\ UNCHANGED <<callVars, dir, disk, home, before, calls, mishaps>>
     \/ Fail(t, "fsync")

\* rename moves whatever is under the temp name; there may be nothing left.
Rename(t) ==
  LET e == TempPath(arg[t].name, t, stamp[t])
      n == arg[t].name
  IN  /\ pc[t] = "rename"
      /\ \/ /\ dir[e] # None
            /\ before' = [before EXCEPT ![t] = {img[n] : img \in CrashImages} \cup {None}]
            /\ dir' = [dir EXCEPT ![n] = dir[e], ![e] = None]
            /\ disk' = disk \cup {dir'}
            /\ Goto(t, "syncdir")
            /\ UNCHANGED <<callVars, inode, home, calls, mishaps>>
         \/ /\ dir[e] = None
            /\ Goto(t, "err")
            /\ UNCHANGED <<callVars, fsVars, before, calls, mishaps>>
         \/ Fail(t, "rename")

\* The directory is opened and synced.  A failure of either is dropped, and
\* the empty path of a bare file name cannot be opened: Ok in every case.
SyncDir(t) ==
  /\ pc[t] = "syncdir"
  /\ Goto(t, "ok")
  /\ \/ home # "bare" /\ disk' = {dir} /\ UNCHANGED mishaps
     \/ home = "bare" /\ UNCHANGED <<disk, mishaps>>
     \/ "syncdir" \in Faults /\ Mishap /\ UNCHANGED disk
  /\ UNCHANGED <<callVars, inode, dir, home, before, calls>>

--------------------------------------------------------------------------------
(* The environment                                                             *)

\* A process dies; the kernel keeps what its threads did.
Kill(p) ==
  /\ \E t \in Threads : ProcessOf[t] = p /\ ~Idle(t)
  /\ Mishap
  /\ pc' = [t \in Threads |-> IF ProcessOf[t] = p /\ ~Idle(t) THEN "killed" ELSE pc[t]]
  /\ UNCHANGED <<callVars, fsVars, before, calls>>

Unsynced == {i \in Inodes : ~inode[i].synced}
Lengths == {0} \cup UNION {DOMAIN inode[i].data : i \in Inodes}

\* The machine loses power: one of the images the disk may hold is what the
\* next boot finds, unsynced files are cut anywhere, and a directory whose
\* own entry was never synced may be gone with everything in it.
PowerLoss ==
  /\ Mishap
  /\ pc' = [t \in Threads |-> IF Idle(t) THEN pc[t] ELSE "killed"]
  /\ \/ /\ dir' \in disk
        /\ home' = IF home = "volatile" THEN "durable" ELSE home
     \/ /\ home = "volatile"
        /\ dir' = EmptyDir
        /\ home' = "absent"
  /\ disk' = {dir'}
  /\ \E kept \in [Unsynced -> Lengths] :
       inode' = [i \in Inodes |->
                   IF i \in Unsynced
                   THEN [data |-> Cut(inode[i].data, kept[i]), synced |-> TRUE]
                   ELSE inode[i]]
  /\ UNCHANGED <<callVars, before, calls>>

--------------------------------------------------------------------------------
Step(t) == \/ MakeDir(t) \/ CreateTemp(t) \/ Write(t)
           \/ SyncFile(t) \/ Rename(t) \/ SyncDir(t)

Next == \/ \E t \in Threads : Step(t)
        \/ \E t \in Threads, d \in Payloads : \E n \in Targets[t] : Call(t, n, d)
        \/ \E t \in Threads : Kill(ProcessOf[t])
        \/ PowerLoss

\* A thread inside a call is scheduled until the call returns; nothing makes
\* a program call, and nothing makes a process die.
Spec == Init /\ [][Next]_vars /\ \A t \in Threads : WF_vars(Step(t))

--------------------------------------------------------------------------------
(* Properties                                                                  *)

Content == UNION {[1 .. k -> Payloads \cup {Hole}] : k \in 0 .. MaxSize}

\* The state has the shape the actions rely on.
TypeOK ==
  /\ pc \in [Threads -> {"ready", "mkdir", "create", "write", "rename",
                         "syncdir", "ok", "err", "killed"}]
  /\ arg \in [Threads -> [name : Paths, data : Payloads]]
  /\ stamp \in [Threads -> ClockReadings]
  /\ fd \in [Threads -> {None} \cup Inodes]
  /\ off \in [Threads -> Nat]
  /\ inode \in [Inodes -> [data : Content, synced : BOOLEAN]]
  /\ dir \in [Entries -> {None} \cup Inodes]
  /\ disk \subseteq [Entries -> {None} \cup Inodes]
  /\ home \in {"absent", "volatile", "durable", "bare"}
  /\ before \in [Threads -> SUBSET ({None} \cup Inodes)]
  /\ calls \in 0 .. MaxCalls
  /\ mishaps \in 0 .. MaxMishaps

Complete(i) == \E d \in Payloads : inode[i].data = Whole(d)

\* A path never shows a partial file: whatever instant a reader opens it, or
\* the writers are killed, the file there is one complete payload
\* (atomic.rs:12-14, "never a partial write, even if the process is killed").
VisibleWhole == \A n \in Names : dir[n] # None => Complete(dir[n])

\* The same through power cuts: in every image of the directory the disk may
\* hold, each path has a complete payload whose blocks are on the disk too.
\* This is why sync_all comes before rename (atomic.rs:38-41).
CrashWhole ==
  \A img \in disk : \A n \in Names :
    img[n] # None => Complete(img[n]) /\ inode[img[n]].synced

\* A call whose file has not been given its final name.
Unpublished(t) == pc[t] \in {"mkdir", "create", "write", "rename", "err"}

\* A file no call has in hand and no call will find under a temp name.
Final(i) == /\ i \in 1 .. calls
            /\ \A t \in Threads : Unpublished(t) => fd[t] # i
            /\ \A e \in TempNames : dir[e] # i

\* A file that has been given its final name is never written again, and not
\* only while the name is its own: a reader that opened it (hash_file streams
\* in 64 KiB reads) keeps reading one version when the path has been replaced,
\* however many calls later (atomic.rs:12-14).  A power cut ends the readers.
PublishedFrozen ==
  [][/\ \A n \in Names :
          dir[n] # None => Final(dir[n]) /\ inode'[dir[n]] = inode[dir[n]]
     /\ \/ \A i \in Inodes : Final(i) => inode'[i] = inode[i] /\ Final(i)'
        \/ PowerLoss]_vars

\* An Err means the destination does not hold this call's data, now or after
\* a power cut: no fallible step follows the rename (atomic.rs:41-50).
ErrNotPublished ==
  \A t \in Threads :
    pc[t] = "err" => \A img \in disk : \A n \in Names : img[n] # fd[t]

\* Once write_atomic returned Ok, no power cut brings back what the path held
\* before (atomic.rs:43-45, "so the rename itself is durable").
AckedDurable ==
  \A t \in Threads :
    pc[t] = "ok" => \A img \in CrashImages : img[arg[t].name] \notin before[t]

\* When every call has ended and none was disturbed, no temp file is left
\* (the test write_atomic_leaves_no_tmp_files_behind, for any interleaving).
Tidy ==
  (mishaps = 0 /\ \A t \in Threads : Idle(t)) => \A e \in TempNames : dir[e] = None

\* A call for a proper path fails because something fails in it: what earlier
\* calls left behind, failed, killed or cut off by a power loss, under the same
\* temp name or another, is no obstacle (atomic.rs:32-41).
ErrHasCause ==
  [][\A t \in Threads :
       pc[t] # "err" /\ pc'[t] = "err" /\ arg'[t].name \in Names => mishaps' = mishaps + 1]_vars

\* Every call ends: with Ok, with Err, or with the process.
CallReturns == \A t \in Threads : ~Idle(t) ~> Idle(t)

\* Seen from outside, all of this is AtomicFile: the one step that changes
\* what a path holds is the rename.
PayloadIn(data) == CHOOSE d \in Payloads : data = Whole(d)
Decode(img) ==
  [n \in Names |->
     IF img[n] = None THEN "absent"
     ELSE IF Complete(img[n]) THEN PayloadIn(inode[img[n]].data)
     ELSE "torn"]

File == INSTANCE AtomicFile WITH
          Absent   <- "absent",
          visible  <- Decode(dir),
          possible <- {Decode(img) : img \in CrashImages}

Implements == File!Spec

================================================================================
