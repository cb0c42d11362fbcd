--------------------------- MODULE WriteAtomicProofs ---------------------------
(***************************************************************************)
(* What holds of WriteAtomic for every set of threads, processes, paths,   *)
(* payloads, clock readings and faults, and however many calls, failures,  *)
(* kills and power cuts there are.                                         *)
(*                                                                         *)
(* The one hypothesis is NoClash: two threads of one process do not write  *)
(* the same path.  The run same_stamp shows that it cannot be dropped.     *)
(***************************************************************************)
EXTENDS WriteAtomic, TLAPS

\* Two threads that share a pid write different paths.
NoClash == \A t, u \in Threads :
             t # u /\ ProcessOf[t] = ProcessOf[u] => Targets[t] \cap Targets[u] = {}

Own(t) == TempPath(arg[t].name, t, stamp[t])

\* A call is about one of the thread's own paths; from create on, a good one.
Asked == \A t \in Threads :
           /\ Unpublished(t) => arg[t].name \in Targets[t]
           /\ pc[t] = "mkdir" => arg[t].name \notin NoParent
           /\ pc[t] \in {"create", "write", "rename", "syncdir"} => arg[t].name \in Names

\* Inode numbers above `calls' are unused, and no inode has two entries.
Numbered == /\ \A t \in Threads : fd[t] <= calls
            /\ \A img \in disk : \A e \in Entries : img[e] <= calls
            /\ \A t \in Threads : Unpublished(t) => fd[t] # None
Injective == \A img \in disk : \A e, f \in Entries :
               img[e] = img[f] /\ img[e] # None => e = f

\* A temp file of the directory has no other entry in any image.
Separate == \A img \in disk : \A e \in TempNames, f \in Entries :
              dir[e] # None /\ img[f] = dir[e] => f = e

\* The file of an unpublished call is nobody else's and nowhere but under its
\* own temp name; before create it is nowhere at all.
Private == \A t \in Threads : Unpublished(t) =>
             /\ \A u \in Threads \ {t} : Unpublished(u) => fd[u] # fd[t]
             /\ \A img \in disk : \A e \in Entries : img[e] = fd[t] => e = Own(t)
Unused == \A t \in Threads : pc[t] \in {"mkdir", "create"} =>
            \A img \in disk : \A e \in Entries : img[e] # fd[t]

\* Between create and rename the temp file holds what was written so far.
Filling == \A t \in Threads : pc[t] \in {"write", "rename"} =>
             /\ dir[Own(t)] = fd[t]
             /\ off[t] <= Size[arg[t].data]
             /\ inode[fd[t]].data = [b \in 1 .. off[t] |-> arg[t].data]
Flushed == \A t \in Threads : pc[t] = "rename" =>
             off[t] = Size[arg[t].data] /\ inode[fd[t]].synced

Typed == TypeOK /\ Asked

IInv == /\ Typed
        /\ dir \in disk
        /\ Numbered
        /\ Injective
        /\ Separate
        /\ Private
        /\ Unused
        /\ Filling
        /\ Flushed
        /\ CrashWhole

--------------------------------------------------------------------------------
(* Content of files                                                            *)

\* A new file has content.
LEMMA EmptyContent == Empty \in Content
BY WriteAtomicAssumption DEF Empty, Content

\* A block put anywhere within the bound leaves content within the bound.
LEMMA PutContent ==
  ASSUME NEW data \in Content, NEW b \in 1 .. MaxSize, NEW d \in Payloads
  PROVE  Put(data, b, d) \in Content
<1> PICK k \in 0 .. MaxSize : data \in [1 .. k -> Payloads \cup {Hole}]
  BY DEF Content
<1> DEFINE m == IF k < b THEN b ELSE k
<1>1. m \in 0 .. MaxSize /\ DOMAIN data \cup 1 .. b = 1 .. m
  BY WriteAtomicAssumption
<1>2. Put(data, b, d) \in [1 .. m -> Payloads \cup {Hole}]
  BY <1>1 DEF Put
<1> QED BY <1>1, <1>2 DEF Content

\* So does losing a tail.
LEMMA CutContent ==
  ASSUME NEW data \in Content, NEW k \in Nat
  PROVE  Cut(data, k) \in Content
<1> PICK l \in 0 .. MaxSize : data \in [1 .. l -> Payloads \cup {Hole}]
  BY DEF Content
<1> DEFINE m == IF l < k THEN l ELSE k
<1>1. m \in 0 .. MaxSize /\ {b \in DOMAIN data : b <= k} = 1 .. m
  BY WriteAtomicAssumption
<1>2. Cut(data, k) \in [1 .. m -> Payloads \cup {Hole}]
  BY <1>1 DEF Cut
<1> QED BY <1>1, <1>2 DEF Content

\* Writing block k + 1 behind k blocks of a payload gives k + 1 blocks of it.
LEMMA PutNext ==
  ASSUME NEW d, NEW k \in Nat
  PROVE  Put([b \in 1 .. k |-> d], k + 1, d) = [b \in 1 .. k + 1 |-> d]
<1>1. 1 .. k \cup 1 .. k + 1 = 1 .. k + 1
  OBVIOUS
<1> QED BY <1>1 DEF Put

\* A power cut keeps a number of blocks.
LEMMA LengthsNat == TypeOK => Lengths \subseteq Nat
<1> SUFFICES ASSUME TypeOK, NEW i \in Inodes PROVE DOMAIN inode[i].data \subseteq Nat
  BY DEF Lengths
<1>1. inode[i].data \in Content
  BY DEF TypeOK
<1> PICK k \in 0 .. MaxSize : inode[i].data \in [1 .. k -> Payloads \cup {Hole}]
  BY <1>1 DEF Content
<1> QED OBVIOUS

--------------------------------------------------------------------------------
(* Types                                                                       *)

\* The initial state is well formed.
LEMMA TypedInit == Init => Typed
<1> SUFFICES ASSUME Init PROVE Typed
  OBVIOUS
<1> USE WriteAtomicAssumption
<1>1. TypeOK
  BY EmptyContent DEF Init, TypeOK, EmptyDir
<1>2. Asked
  BY DEF Init, Asked, Unpublished
<1> QED BY <1>1, <1>2 DEF Typed

\* A failing system call keeps the state well formed.
LEMMA FailTyped ==
  ASSUME Typed, NEW t \in Threads, NEW call, Fail(t, call),
         pc[t] \in {"mkdir", "create", "write", "rename"}
  PROVE  Typed'
<1> USE DEF Fail, Mishap, Goto, callVars, fsVars
<1>1. TypeOK'
  BY WriteAtomicAssumption DEF Typed, TypeOK
<1>2. Asked'
  BY DEF Typed, TypeOK, Asked, Unpublished
<1> QED BY <1>1, <1>2 DEF Typed

\* So does every step: one case per action of Next.
LEMMA TypedStep == Typed /\ [Next]_vars => Typed'
<1> SUFFICES ASSUME Typed, [Next]_vars PROVE Typed'
  OBVIOUS
<1> USE WriteAtomicAssumption DEF Typed, Goto, callVars, fsVars
<1>1. ASSUME NEW t \in Threads, NEW d \in Payloads, NEW n \in Targets[t], Call(t, n, d)
      PROVE  Typed'
  <2>1. n \in Paths
    OBVIOUS
  <2>2. TypeOK'
    BY <1>1, <2>1 DEF Call, TypeOK, Inodes
  <2>3. Asked'
    BY <1>1, <2>1 DEF Call, Asked, Unpublished, TypeOK
  <2> QED BY <2>2, <2>3
<1>2. ASSUME NEW t \in Threads, MakeDir(t) PROVE Typed'
  <2>1. CASE Fail(t, "mkdir")
    BY <1>2, <2>1, FailTyped DEF MakeDir
  <2>2. CASE ~Fail(t, "mkdir")
    <3>1. TypeOK'
      BY <1>2, <2>2 DEF MakeDir, TypeOK
    <3>2. Asked'
      BY <1>2, <2>2 DEF MakeDir, TypeOK, Asked, Unpublished, Paths
    <3> QED BY <3>1, <3>2
  <2> QED BY <2>1, <2>2
<1>3. ASSUME NEW t \in Threads, CreateTemp(t) PROVE Typed'
  <2>1. CASE Fail(t, "create")
    BY <1>3, <2>1, FailTyped DEF CreateTemp
  <2>2. CASE ~Fail(t, "create")
    <3> DEFINE e(now) == TempPath(arg[t].name, t, now)
               i(now) == IF dir[e(now)] = None THEN fd[t] ELSE dir[e(now)]
    <3>1. PICK now \in ClockReadings :
            /\ stamp' = [stamp EXCEPT ![t] = now]
            /\ fd' = [fd EXCEPT ![t] = i(now)]
            /\ off' = [off EXCEPT ![t] = 0]
            /\ inode' = [inode EXCEPT ![i(now)] = [data |-> Empty, synced |-> FALSE]]
            /\ dir' = [dir EXCEPT ![e(now)] = i(now)]
            /\ disk' = disk \cup {dir'}
            /\ Goto(t, "write")
            /\ UNCHANGED <<arg, home, before, calls, mishaps>>
      BY <1>3, <2>2 DEF CreateTemp
    <3>2. e(now) \in Entries
      BY <1>3 DEF CreateTemp, Asked, TempPath, Entries, TempNames
    <3>3. i(now) \in {None} \cup Inodes
      BY <3>2 DEF TypeOK
    <3>4. inode' \in [Inodes -> [data : Content, synced : BOOLEAN]]
      BY <3>1, EmptyContent DEF TypeOK
    <3>5. dir' \in [Entries -> {None} \cup Inodes]
      BY <3>1, <3>3 DEF TypeOK
    <3>6. TypeOK'
      BY <3>1, <3>3, <3>4, <3>5 DEF TypeOK
    <3>7. Asked'
      BY <1>3, <3>1 DEF CreateTemp, TypeOK, Asked, Unpublished
    <3> QED BY <3>6, <3>7
  <2> QED BY <2>1, <2>2
<1>4. ASSUME NEW t \in Threads, Write(t) PROVE Typed'
  <2>1. CASE Fail(t, "write")
    BY <1>4, <2>1, FailTyped DEF Write
  <2>2. CASE ~Fail(t, "write")
    <3>1. arg[t].data \in Payloads /\ off[t] + 1 \in 1 .. MaxSize
      BY <1>4 DEF Write, TypeOK
    <3>2. fd[t] \in Inodes => Put(inode[fd[t]].data, off[t] + 1, arg[t].data) \in Content
      BY <3>1, PutContent DEF TypeOK
    <3>3. inode' \in [Inodes -> [data : Content, synced : BOOLEAN]]
      <4> DEFINE new == [data |-> Put(inode[fd[t]].data, off[t] + 1, arg[t].data),
                         synced |-> FALSE]
      <4>1. inode' = [inode EXCEPT ![fd[t]] = new]
        BY <1>4, <2>2 DEF Write
      <4>2. fd[t] \in Inodes => new \in [data : Content, synced : BOOLEAN]
        BY <3>2
      <4> HIDE DEF new
      <4> QED BY <4>1, <4>2 DEF TypeOK
    <3>4. TypeOK'
      BY <1>4, <2>2, <3>3 DEF Write, TypeOK
    <3>5. Asked'
      BY <1>4, <2>2 DEF Write, Asked, Unpublished
    <3> QED BY <3>4, <3>5
  <2> QED BY <2>1, <2>2
<1>5. ASSUME NEW t \in Threads, SyncFile(t) PROVE Typed'
  <2>1. CASE Fail(t, "fsync")
    BY <1>5, <2>1, FailTyped DEF SyncFile
  <2>2. CASE ~Fail(t, "fsync")
    <3>1. inode' = [inode EXCEPT ![fd[t]] = [inode[fd[t]] EXCEPT !.synced = TRUE]]
      BY <1>5, <2>2 DEF SyncFile
    <3>2. inode \in [Inodes -> [data : Content, synced : BOOLEAN]]
      BY DEF Typed, TypeOK
    <3>3. ASSUME NEW c \in [data : Content, synced : BOOLEAN]
          PROVE  [c EXCEPT !.synced = TRUE] \in [data : Content, synced : BOOLEAN]
      OBVIOUS
    <3>4. inode' \in [Inodes -> [data : Content, synced : BOOLEAN]]
      <4>1. fd[t] \in Inodes =>
              [inode[fd[t]] EXCEPT !.synced = TRUE] \in [data : Content, synced : BOOLEAN]
        BY <3>2, <3>3
      <4> QED BY <3>1, <3>2, <4>1
    <3>5. TypeOK'
      BY <1>5, <2>2, <3>4 DEF SyncFile, TypeOK
    <3>6. Asked'
      BY <1>5, <2>2 DEF SyncFile, TypeOK, Asked, Unpublished
    <3> QED BY <3>5, <3>6
  <2> QED BY <2>1, <2>2
<1>6. ASSUME NEW t \in Threads, Rename(t) PROVE Typed'
  <2> DEFINE e == TempPath(arg[t].name, t, stamp[t])
             n == arg[t].name
  <2>1. CASE Fail(t, "rename")
    BY <1>6, <2>1, FailTyped DEF Rename
  <2>2. CASE ~Fail(t, "rename") /\ dir[e] = None
    <3>1. TypeOK'
      BY <1>6, <2>2 DEF Rename, TypeOK
    <3>2. Asked'
      BY <1>6, <2>2 DEF Rename, TypeOK, Asked, Unpublished
    <3> QED BY <3>1, <3>2
  <2>3. CASE ~Fail(t, "rename") /\ dir[e] # None
    <3>1. n \in Names /\ n \in Entries /\ e \in Entries
      BY <1>6 DEF Rename, Asked, TypeOK, TempPath, Entries, TempNames
    <3>2. CrashImages \subseteq [Entries -> {None} \cup Inodes]
      BY DEF CrashImages, EmptyDir, TypeOK
    <3>3. {img[n] : img \in CrashImages} \cup {None} \subseteq {None} \cup Inodes
      BY <3>1, <3>2
    <3>4. before' \in [Threads -> SUBSET ({None} \cup Inodes)]
      <4>1. before' = [before EXCEPT ![t] = {img[n] : img \in CrashImages} \cup {None}]
        BY <1>6, <2>3 DEF Rename
      <4> QED BY <3>3, <4>1 DEF TypeOK
    <3>5. dir' \in [Entries -> {None} \cup Inodes]
      BY <1>6, <2>3, <3>1 DEF Rename, TypeOK
    <3>6. TypeOK'
      BY <1>6, <2>3, <3>4, <3>5 DEF Rename, TypeOK
    <3>7. Asked'
      BY <1>6, <2>3 DEF Rename, TypeOK, Asked, Unpublished
    <3> QED BY <3>6, <3>7
  <2> QED BY <2>1, <2>2, <2>3
<1>7. ASSUME NEW t \in Threads, SyncDir(t) PROVE Typed'
  <2>1. TypeOK'
    BY <1>7 DEF SyncDir, Mishap, TypeOK
  <2>2. Asked'
    BY <1>7 DEF SyncDir, TypeOK, Asked, Unpublished
  <2> QED BY <2>1, <2>2
<1>8. ASSUME NEW p, Kill(p) PROVE Typed'
  <2>1. TypeOK'
    BY <1>8 DEF Kill, Mishap, TypeOK
  <2>2. Asked'
    BY <1>8 DEF Kill, TypeOK, Asked, Unpublished
  <2> QED BY <2>1, <2>2
<1>9. ASSUME PowerLoss PROVE Typed'
  <2>1. dir' \in [Entries -> {None} \cup Inodes]
    BY <1>9 DEF PowerLoss, TypeOK, EmptyDir
  <2>2. PICK kept \in [Unsynced -> Lengths] :
          inode' = [i \in Inodes |->
                      IF i \in Unsynced
                      THEN [data |-> Cut(inode[i].data, kept[i]), synced |-> TRUE]
                      ELSE inode[i]]
    BY <1>9 DEF PowerLoss
  <2>3. \A i \in Unsynced : Cut(inode[i].data, kept[i]) \in Content
    BY LengthsNat, CutContent DEF Unsynced, TypeOK
  <2>4. inode' \in [Inodes -> [data : Content, synced : BOOLEAN]]
    BY <2>2, <2>3 DEF TypeOK
  <2>5. TypeOK'
    BY <1>9, <2>1, <2>4 DEF PowerLoss, Mishap, TypeOK
  <2>6. Asked'
    BY <1>9 DEF PowerLoss, TypeOK, Asked, Unpublished, Idle
  <2> QED BY <2>5, <2>6
<1>10. CASE UNCHANGED vars
  BY <1>10 DEF vars, TypeOK, Asked, Unpublished, Content, Entries, TempNames, Inodes
<1> QED BY <1>1, <1>2, <1>3, <1>4, <1>5, <1>6, <1>7, <1>8, <1>9, <1>10 DEF Next, Step

\* Every reachable state is well formed, for every value of the constants.
THEOREM TypeCorrect == Spec => []TypeOK
<1>1. Typed => TypeOK
  BY DEF Typed
<1> QED BY <1>1, TypedInit, TypedStep, PTL DEF Spec

--------------------------------------------------------------------------------
(* The inductive invariant                                                     *)

\* The inductive invariant holds when no call has been made.
LEMMA InvInit == Init => IInv
<1> SUFFICES ASSUME Init PROVE IInv
  OBVIOUS
<1>1. Typed
  BY TypedInit
<1>2. \A img \in disk : \A e \in Entries : img[e] = None
  BY DEF Init, EmptyDir
<1>3. Names \subseteq Entries /\ TempNames \subseteq Entries
  BY DEF Entries
<1> QED
  BY <1>1, <1>2, <1>3 DEF IInv, Init, Numbered, Injective, Separate, Private, Unused,
     Filling, Flushed, CrashWhole, Unpublished, EmptyDir, None

\* Two threads never have a temp name in common.
LEMMA TempDistinct ==
  ASSUME NoClash, Asked, NEW t \in Threads, NEW u \in Threads \ {t},
         Unpublished(t), Unpublished(u), NEW x, NEW y
  PROVE  TempPath(arg[t].name, t, x) # TempPath(arg[u].name, u, y)
BY DEF NoClash, Asked, TempPath

\* The temp name of a call is an entry of the directory ...
LEMMA TempIsEntry ==
  ASSUME Typed, NEW t \in Threads, NEW now \in ClockReadings,
         pc[t] \in {"create", "write", "rename"}
  PROVE  /\ TempPath(arg[t].name, t, now) \in TempNames
         /\ TempPath(arg[t].name, t, now) \in Entries
BY DEF Typed, Asked, TempPath, Entries, TempNames

\* ... and is no name a file is published under.
LEMMA NamesApart == /\ \A n \in Names, e \in TempNames : n # e
                    /\ Names \subseteq Entries
                    /\ TempNames \subseteq Entries
BY WriteAtomicAssumption DEF Entries, TempNames, Paths

\* A failed call keeps its file private; nothing else changes.
LEMMA FailInv ==
  ASSUME IInv, Typed', NEW t \in Threads, NEW call, Fail(t, call),
         pc[t] \in {"mkdir", "create", "write", "rename"}
  PROVE  IInv'
<1> USE DEF IInv, Fail, Goto, callVars, fsVars
<1>1. pc' = [pc EXCEPT ![t] = "err"]
  OBVIOUS
<1>2. /\ pc'[t] = "err" /\ \A u \in Threads \ {t} : pc'[u] = pc[u]
      /\ \A u \in Threads : Unpublished(u)' => Unpublished(u)
  BY <1>1 DEF Typed, TypeOK, Unpublished
<1>3. (dir \in disk)' /\ Numbered' /\ Injective' /\ Separate' /\ CrashWhole'
  BY <1>2 DEF Numbered, Injective, Separate, CrashWhole, Complete
<1>4. Private'
  BY <1>2 DEF Private, Own
<1>5. Unused' /\ Filling' /\ Flushed'
  BY <1>2 DEF Unused, Filling, Flushed, Own
<1> QED BY <1>3, <1>4, <1>5

\* Each action keeps the invariant.  A new call owns an inode nobody has used.
LEMMA CallInv ==
  ASSUME IInv, Typed', NEW t \in Threads, NEW d \in Payloads, NEW n \in Targets[t],
         Call(t, n, d)
  PROVE  IInv'
<1> USE DEF IInv, Call, Goto, fsVars
<1>1. /\ fd' = [fd EXCEPT ![t] = calls + 1] /\ calls' = calls + 1 /\ calls \in Nat
      /\ fd \in [Threads -> Nat]
      /\ \A img \in disk : \A e \in Entries : img[e] \in Nat /\ img[e] <= calls
      /\ \A u \in Threads : fd[u] <= calls
  <2>1. MaxCalls \in Nat /\ {None} \cup Inodes \subseteq Nat
    BY WriteAtomicAssumption DEF Inodes, None
  <2>2. fd' = [fd EXCEPT ![t] = calls + 1] /\ calls' = calls + 1 /\ calls \in Nat
    BY <2>1 DEF Typed, TypeOK
  <2>3. fd \in [Threads -> Nat]
    BY <2>1 DEF Typed, TypeOK
  <2>4. ASSUME NEW img \in disk, NEW e \in Entries PROVE img[e] \in Nat /\ img[e] <= calls
    <3>1. img \in [Entries -> {None} \cup Inodes]
      BY DEF Typed, TypeOK
    <3> QED BY <2>1, <3>1 DEF Numbered
  <2> QED BY <2>2, <2>3, <2>4 DEF Numbered
<1>2. /\ pc'[t] \in {"err", "mkdir"}
      /\ \A u \in Threads \ {t} : pc'[u] = pc[u] /\ arg'[u] = arg[u]
  BY DEF Typed, TypeOK
<1>3. \A u \in Threads \ {t} : /\ Unpublished(u)' <=> Unpublished(u)
                               /\ Own(u)' = Own(u)
                               /\ fd'[u] = fd[u]
  BY <1>1, <1>2 DEF Unpublished, Own, TempPath
<1>4. fd'[t] = calls + 1
  BY <1>1
<1>5. (dir \in disk)' /\ Injective' /\ Separate' /\ CrashWhole'
  BY DEF Injective, Separate, CrashWhole, Complete
<1>6. Numbered'
  BY <1>1, <1>3, <1>4 DEF Numbered, None
<1>7. Private'
  BY <1>1, <1>3, <1>4 DEF Private
<1>8. Unused'
  BY <1>1, <1>2, <1>3, <1>4 DEF Unused
<1>9. Filling' /\ Flushed'
  BY <1>2, <1>3 DEF Filling, Flushed
<1> QED BY <1>5, <1>6, <1>7, <1>8, <1>9

\* Creating the directory touches no entry.
LEMMA MakeDirInv ==
  ASSUME IInv, Typed', NEW t \in Threads, MakeDir(t)
  PROVE  IInv'
<1>1. CASE Fail(t, "mkdir")
  BY <1>1, FailInv DEF MakeDir
<1>2. CASE ~Fail(t, "mkdir")
  <2> USE <1>2 DEF IInv, MakeDir, Goto, callVars
  <2>1. /\ pc'[t] \in {"err", "create"} /\ pc[t] = "mkdir"
        /\ \A u \in Threads \ {t} : pc'[u] = pc[u]
        /\ UNCHANGED <<arg, stamp, fd, off, inode, dir, disk, calls>>
    BY DEF Typed, TypeOK
  <2>2. \A u \in Threads : /\ Unpublished(u)' <=> Unpublished(u)
                           /\ Own(u)' = Own(u)
    BY <2>1 DEF Unpublished, Own, TempPath
  <2>3. (dir \in disk)' /\ Numbered' /\ Injective' /\ Separate' /\ CrashWhole'
    BY <2>1, <2>2 DEF Numbered, Injective, Separate, CrashWhole, Complete
  <2>4. Private'
    BY <2>1, <2>2 DEF Private
  <2>5. Unused'
    BY <2>1 DEF Unused
  <2>6. Filling' /\ Flushed'
    BY <2>1, <2>2 DEF Filling, Flushed
  <2> QED BY <2>3, <2>4, <2>5, <2>6
<1> QED BY <1>1, <1>2

\* The temp file is a new inode, or a leftover of this very name.
LEMMA CreateTempInv ==
  ASSUME NoClash, IInv, Typed', NEW t \in Threads, CreateTemp(t)
  PROVE  IInv'
<1>1. CASE Fail(t, "create")
  BY <1>1, FailInv DEF CreateTemp
<1>2. CASE ~Fail(t, "create")
  <2> DEFINE e(now) == TempPath(arg[t].name, t, now)
             i(now) == IF dir[e(now)] = None THEN fd[t] ELSE dir[e(now)]
  <2>1. PICK now \in ClockReadings :
          /\ stamp' = [stamp EXCEPT ![t] = now]
          /\ fd' = [fd EXCEPT ![t] = i(now)]
          /\ off' = [off EXCEPT ![t] = 0]
          /\ inode' = [inode EXCEPT ![i(now)] = [data |-> Empty, synced |-> FALSE]]
          /\ dir' = [dir EXCEPT ![e(now)] = i(now)]
          /\ disk' = disk \cup {dir'}
          /\ pc' = [pc EXCEPT ![t] = "write"]
          /\ UNCHANGED <<arg, home, before, calls, mishaps>>
    BY <1>2 DEF CreateTemp, Goto
  <2> DEFINE tmp == e(now)
             new == i(now)
  <2>2. tmp \in TempNames /\ tmp \in Entries
    BY TempIsEntry DEF IInv, CreateTemp
  <2> HIDE DEF e, i
  <2>t. /\ dir \in [Entries -> {None} \cup Inodes] /\ dir \in disk
        /\ disk \subseteq [Entries -> {None} \cup Inodes]
        /\ fd \in [Threads -> {None} \cup Inodes]
        /\ inode \in [Inodes -> [data : Content, synced : BOOLEAN]]
        /\ pc[t] = "create"
    BY DEF IInv, Typed, TypeOK, CreateTemp
  <2>3. /\ pc'[t] = "write" /\ fd'[t] = new /\ off'[t] = 0 /\ Own(t)' = tmp
        /\ \A u \in Threads \ {t} : /\ pc'[u] = pc[u] /\ fd'[u] = fd[u]
                                    /\ off'[u] = off[u] /\ Own(u)' = Own(u)
                                    /\ Unpublished(u)' <=> Unpublished(u)
    BY <2>1 DEF IInv, Typed, TypeOK, Own, Unpublished, e
  <2>4. Unpublished(t) /\ Unpublished(t)'
    BY <2>3, <2>t DEF Unpublished
  \* The inode opened is the call's own new one or an abandoned temp file.
  <2>5. /\ new # None /\ new <= calls /\ new \in Inodes
        /\ \/ new = fd[t] /\ dir[tmp] = None
           \/ new = dir[tmp] /\ dir[tmp] # None
    BY <2>2, <2>4, <2>t DEF IInv, Numbered, i, e
  <2>6. \A img \in disk : \A f \in Entries : img[f] = new => f = tmp
    BY <2>2, <2>5, <2>t DEF IInv, Separate, Unused
  <2>7. \A f \in Entries : dir[f] = new => f = tmp
    BY <2>2, <2>5, <2>t DEF IInv, Injective, Unused
  <2>8. /\ dir' \in disk' /\ dir'[tmp] = new
        /\ \A f \in Entries \ {tmp} : dir'[f] = dir[f]
        /\ \A img \in disk' : img = dir' \/ img \in disk
    BY <2>1, <2>2, <2>t DEF e
  <2>9. inode'[new] = [data |-> Empty, synced |-> FALSE]
        /\ \A j \in Inodes \ {new} : inode'[j] = inode[j]
    BY <2>1, <2>5, <2>t
  \* No other unpublished call uses that inode.
  <2>10. \A u \in Threads \ {t} : Unpublished(u) => fd[u] # new
    <3> SUFFICES ASSUME NEW u \in Threads \ {t}, Unpublished(u), fd[u] = new PROVE FALSE
      OBVIOUS
    <3>1. new # fd[t]
      BY <2>4 DEF IInv, Private
    <3>2. dir[tmp] = fd[u]
      BY <2>5, <3>1
    <3>3. tmp = Own(u)
      BY <2>2, <2>t, <3>2 DEF IInv, Private
    <3> QED BY <2>4, <3>3, TempDistinct DEF IInv, Typed, Own, e
  <2>11. Numbered'
    <3>1. \A u \in Threads : fd'[u] <= calls' /\ (Unpublished(u)' => fd'[u] # None)
      BY <2>1, <2>3, <2>5 DEF IInv, Numbered
    <3>2. \A f \in Entries : dir'[f] <= calls
      BY <2>5, <2>8, <2>t DEF IInv, Numbered
    <3>3. \A img \in disk' : \A f \in Entries : img[f] <= calls'
      BY <2>1, <2>8, <3>2 DEF IInv, Numbered
    <3> QED BY <3>1, <3>3 DEF Numbered
  <2>12. Injective'
    <3>1. \A f, g \in Entries : dir'[f] = dir'[g] /\ dir'[f] # None => f = g
      BY <2>7, <2>8, <2>t DEF IInv, Injective
    <3> QED BY <2>8, <3>1 DEF IInv, Injective
  <2>13. Separate'
    <3> SUFFICES ASSUME NEW img \in disk', NEW f \in TempNames, NEW g \in Entries,
                        dir'[f] # None, img[g] = dir'[f]
                 PROVE  g = f
      BY DEF Separate
    <3>1. CASE img = dir'
      BY <2>8, <2>12, <3>1, NamesApart DEF Injective
    <3>2. CASE img \in disk /\ f # tmp
      BY <2>8, <3>2, NamesApart DEF IInv, Separate
    <3>3. CASE img \in disk /\ f = tmp
      BY <2>6, <2>8, <3>3
    <3> QED BY <2>8, <3>1, <3>2, <3>3
  <2>14. Private'
    <3> SUFFICES ASSUME NEW u \in Threads, Unpublished(u)'
                 PROVE  /\ \A v \in Threads \ {u} : Unpublished(v)' => fd'[v] # fd'[u]
                        /\ \A img \in disk' : \A f \in Entries : img[f] = fd'[u] => f = Own(u)'
      BY DEF Private
    <3>1. \A v \in Threads \ {u} : Unpublished(v)' => fd'[v] # fd'[u]
      BY <2>3, <2>10 DEF IInv, Private
    <3>2. CASE u = t
      BY <2>3, <2>6, <2>7, <2>8, <3>1, <3>2
    <3>3. CASE u # t
      <4>1. fd'[u] = fd[u] /\ fd[u] # new /\ Own(u)' = Own(u) /\ Unpublished(u)
        BY <2>3, <2>10, <3>3
      <4> QED BY <2>8, <2>t, <3>1, <4>1 DEF IInv, Private
    <3> QED BY <3>2, <3>3
  <2>15. Unused'
    BY <2>3, <2>8, <2>10, <2>t DEF IInv, Unused, Unpublished
  <2>16. Filling' /\ Flushed'
    <3> SUFFICES ASSUME NEW u \in Threads, pc'[u] \in {"write", "rename"}
                 PROVE  /\ dir'[Own(u)'] = fd'[u]
                        /\ off'[u] <= Size[arg'[u].data]
                        /\ inode'[fd'[u]].data = [b \in 1 .. off'[u] |-> arg'[u].data]
                        /\ pc'[u] = "rename" =>
                             off'[u] = Size[arg'[u].data] /\ inode'[fd'[u]].synced
      BY DEF Filling, Flushed
    <3>1. CASE u = t
      <4>1. Size[arg'[t].data] \in Nat
        BY <2>1, WriteAtomicAssumption DEF IInv, Typed, TypeOK
      <4>2. Empty = [b \in 1 .. 0 |-> arg'[t].data]
        BY DEF Empty
      <4> QED BY <2>3, <2>8, <2>9, <3>1, <4>1, <4>2
    <3>2. CASE u # t
      <4>1. pc[u] \in {"write", "rename"} /\ Unpublished(u) /\ fd[u] # new /\ fd'[u] = fd[u]
        BY <2>3, <2>10, <3>2 DEF Unpublished
      <4>2. Own(u) # tmp /\ Own(u) \in Entries
        BY <2>4, <3>2, <4>1, TempDistinct, TempIsEntry DEF IInv, Typed, TypeOK, Own, e
      <4>3. fd[u] \in Inodes
        BY <4>1, <2>t DEF IInv, Numbered
      <4> QED BY <2>1, <2>3, <2>8, <2>9, <3>2, <4>1, <4>2, <4>3 DEF IInv, Filling, Flushed
    <3> QED BY <3>1, <3>2
  <2>17. CrashWhole'
    <3> SUFFICES ASSUME NEW img \in disk', NEW n \in Names, img[n] # None
                 PROVE  Complete(img[n])' /\ inode'[img[n]].synced
      BY DEF CrashWhole
    <3>1. PICK old \in disk : img[n] = old[n]
      BY <2>2, <2>8, <2>t, NamesApart
    <3>2. img[n] # new
      BY <2>2, <2>6, <3>1, NamesApart
    <3>3. img[n] \in Inodes
      BY <3>1, <2>t, NamesApart
    <3>4. Complete(old[n]) /\ inode[old[n]].synced
      BY <3>1 DEF IInv, CrashWhole
    <3>5. inode'[img[n]] = inode[img[n]]
      BY <2>9, <3>2, <3>3
    <3> QED BY <3>1, <3>4, <3>5 DEF Complete
  <2> QED BY <2>8, <2>11, <2>12, <2>13, <2>14, <2>15, <2>16, <2>17 DEF IInv
<1> QED BY <1>1, <1>2

\* The file of a call that has not reached its rename is no final entry.
LEMMA NotFinal ==
  ASSUME IInv, NEW t \in Threads, pc[t] \in {"write", "rename"}
  PROVE  /\ fd[t] \in Inodes
         /\ Own(t) \in TempNames /\ Own(t) \in Entries
         /\ \A img \in disk : \A n \in Names : img[n] # fd[t]
<1>1. Unpublished(t) /\ stamp[t] \in ClockReadings
  BY DEF Unpublished, IInv, Typed, TypeOK
<1>2. Own(t) \in TempNames /\ Own(t) \in Entries
  BY <1>1, TempIsEntry DEF IInv, Own
<1>3. fd[t] \in Inodes
  BY <1>1 DEF IInv, Typed, TypeOK, Numbered
<1>4. \A img \in disk : \A n \in Names : img[n] # fd[t]
  BY <1>1, <1>2, NamesApart DEF IInv, Private
<1> QED BY <1>2, <1>3, <1>4

\* A change to such a file disturbs no final entry ...
LEMMA FinalsKept ==
  ASSUME IInv, NEW t \in Threads, pc[t] \in {"write", "rename"},
         \A j \in Inodes \ {fd[t]} : inode'[j] = inode[j], disk' = disk
  PROVE  CrashWhole'
<1> SUFFICES ASSUME NEW img \in disk, NEW n \in Names, img[n] # None
             PROVE  Complete(img[n])' /\ inode'[img[n]].synced
  BY DEF CrashWhole
<1>1. img[n] \in Inodes /\ img[n] # fd[t]
  BY NotFinal, NamesApart DEF IInv, Typed, TypeOK
<1>2. inode'[img[n]] = inode[img[n]]
  BY <1>1
<1>3. Complete(img[n]) /\ inode[img[n]].synced
  BY DEF IInv, CrashWhole
<1> QED BY <1>2, <1>3 DEF Complete

\* ... nor the file of another call.
LEMMA OthersKept ==
  ASSUME IInv, NEW t \in Threads, pc[t] \in {"write", "rename"},
         \A j \in Inodes \ {fd[t]} : inode'[j] = inode[j],
         NEW u \in Threads \ {t}, pc[u] \in {"write", "rename"}
  PROVE  fd[u] # fd[t] /\ inode'[fd[u]] = inode[fd[u]]
BY NotFinal DEF IInv, Private, Unpublished

\* A write goes to a file that has no final name yet.
LEMMA WriteInv ==
  ASSUME IInv, Typed', NEW t \in Threads, Write(t)
  PROVE  IInv'
<1>1. CASE Fail(t, "write")
  BY <1>1, FailInv DEF Write
<1>2. CASE ~Fail(t, "write")
  <2> DEFINE d == arg[t].data
  <2>1. /\ pc[t] = "write" /\ off[t] < Size[d]
        /\ off' = [off EXCEPT ![t] = off[t] + 1]
        /\ inode' = [inode EXCEPT ![fd[t]] =
                       [data |-> Put(inode[fd[t]].data, off[t] + 1, d), synced |-> FALSE]]
        /\ UNCHANGED <<pc, arg, stamp, fd, dir, disk, home, before, calls, mishaps>>
    BY <1>2 DEF Write
  <2>2. /\ off \in [Threads -> Nat] /\ Size[d] \in Nat
        /\ inode \in [Inodes -> [data : Content, synced : BOOLEAN]]
    BY WriteAtomicAssumption DEF IInv, Typed, TypeOK
  <2>3. fd[t] \in Inodes
    BY <2>1, NotFinal
  <2>4. \A j \in Inodes \ {fd[t]} : inode'[j] = inode[j]
    BY <2>1, <2>2, <2>3
  <2>5. inode'[fd[t]].data = [b \in 1 .. off[t] + 1 |-> d]
    <3>1. inode[fd[t]].data = [b \in 1 .. off[t] |-> d]
      BY <2>1 DEF IInv, Filling
    <3>2. inode'[fd[t]].data = Put([b \in 1 .. off[t] |-> d], off[t] + 1, d)
      BY <2>1, <2>2, <2>3, <3>1
    <3> QED BY <2>2, <3>2, PutNext
  <2>6. (dir \in disk)' /\ Numbered' /\ Injective' /\ Separate' /\ Private' /\ Unused'
    BY <2>1 DEF IInv, Numbered, Injective, Separate, Private, Unused, Unpublished, Own
  <2>7. Filling' /\ Flushed'
    <3> SUFFICES ASSUME NEW u \in Threads, pc'[u] \in {"write", "rename"}
                 PROVE  /\ dir'[Own(u)'] = fd'[u]
                        /\ off'[u] <= Size[arg'[u].data]
                        /\ inode'[fd'[u]].data = [b \in 1 .. off'[u] |-> arg'[u].data]
                        /\ pc'[u] = "rename" =>
                             off'[u] = Size[arg'[u].data] /\ inode'[fd'[u]].synced
      BY DEF Filling, Flushed
    <3>0. /\ Own(u)' = Own(u) /\ pc'[u] = pc[u] /\ fd'[u] = fd[u]
          /\ dir' = dir /\ arg'[u] = arg[u]
      BY <2>1 DEF Own
    <3>1. CASE u = t
      <4>1. off'[t] = off[t] + 1 /\ off[t] + 1 <= Size[d]
        BY <2>1, <2>2
      <4>2. dir[Own(t)] = fd[t]
        BY <2>1 DEF IInv, Filling
      <4> QED BY <2>1, <2>5, <3>0, <3>1, <4>1, <4>2
    <3>2. CASE u # t
      <4>1. off'[u] = off[u]
        BY <2>1, <2>2, <3>2
      <4>2. inode'[fd[u]] = inode[fd[u]]
        BY <2>1, <2>4, <3>2, OthersKept
      <4> QED BY <3>0, <4>1, <4>2 DEF IInv, Filling, Flushed
    <3> QED BY <3>1, <3>2
  <2>8. CrashWhole'
    BY <2>1, <2>4, FinalsKept
  <2> QED BY <2>6, <2>7, <2>8 DEF IInv
<1> QED BY <1>1, <1>2

\* sync_all is reached with every block written: the file is whole and on disk.
LEMMA SyncFileInv ==
  ASSUME IInv, Typed', NEW t \in Threads, SyncFile(t)
  PROVE  IInv'
<1>1. CASE Fail(t, "fsync")
  BY <1>1, FailInv DEF SyncFile
<1>2. CASE ~Fail(t, "fsync")
  <2>1. /\ pc[t] = "write" /\ off[t] = Size[arg[t].data]
        /\ inode' = [inode EXCEPT ![fd[t]] = [inode[fd[t]] EXCEPT !.synced = TRUE]]
        /\ pc' = [pc EXCEPT ![t] = "rename"]
        /\ UNCHANGED <<arg, stamp, fd, off, dir, disk, home, before, calls, mishaps>>
    BY <1>2 DEF SyncFile, Goto, callVars
  <2>2. inode \in [Inodes -> [data : Content, synced : BOOLEAN]]
    BY DEF IInv, Typed, TypeOK
  <2>3. fd[t] \in Inodes
    BY <2>1, NotFinal
  <2>4. \A j \in Inodes \ {fd[t]} : inode'[j] = inode[j]
    BY <2>1, <2>2, <2>3
  <2>5. inode'[fd[t]].data = inode[fd[t]].data /\ inode'[fd[t]].synced
    BY <2>1, <2>2, <2>3
  <2>6. /\ pc'[t] = "rename" /\ \A u \in Threads \ {t} : pc'[u] = pc[u]
        /\ \A u \in Threads : Unpublished(u)' <=> Unpublished(u)
    BY <2>1 DEF IInv, Typed, TypeOK, Unpublished
  <2>7. (dir \in disk)' /\ Numbered' /\ Injective' /\ Separate' /\ Private' /\ Unused'
    BY <2>1, <2>6 DEF IInv, Numbered, Injective, Separate, Private, Unused, Own
  <2>8. Filling' /\ Flushed'
    <3> SUFFICES ASSUME NEW u \in Threads, pc'[u] \in {"write", "rename"}
                 PROVE  /\ dir'[Own(u)'] = fd'[u]
                        /\ off'[u] <= Size[arg'[u].data]
                        /\ inode'[fd'[u]].data = [b \in 1 .. off'[u] |-> arg'[u].data]
                        /\ pc'[u] = "rename" =>
                             off'[u] = Size[arg'[u].data] /\ inode'[fd'[u]].synced
      BY DEF Filling, Flushed
    <3>0. /\ Own(u)' = Own(u) /\ fd'[u] = fd[u] /\ off'[u] = off[u]
          /\ dir' = dir /\ arg'[u] = arg[u]
      BY <2>1 DEF Own
    <3>1. CASE u = t
      <4>1. /\ dir[Own(t)] = fd[t] /\ off[t] <= Size[arg[t].data]
            /\ inode[fd[t]].data = [b \in 1 .. off[t] |-> arg[t].data]
        BY <2>1 DEF IInv, Filling
      <4>2. dir'[Own(u)'] = fd'[u] /\ off'[u] <= Size[arg'[u].data]
        BY <3>0, <3>1, <4>1
      <4>3. inode'[fd'[u]].data = [b \in 1 .. off'[u] |-> arg'[u].data]
        BY <2>5, <3>0, <3>1, <4>1
      <4> QED BY <2>1, <2>5, <3>0, <3>1, <4>2, <4>3
    <3>2. CASE u # t
      <4>1. pc[u] \in {"write", "rename"} /\ pc'[u] = pc[u]
        BY <2>6, <3>2
      <4>2. inode'[fd[u]] = inode[fd[u]]
        BY <2>1, <2>4, <3>2, <4>1, OthersKept
      <4> QED BY <3>0, <4>1, <4>2 DEF IInv, Filling, Flushed
    <3> QED BY <3>1, <3>2
  <2>9. CrashWhole'
    BY <2>1, <2>4, FinalsKept
  <2> QED BY <2>7, <2>8, <2>9 DEF IInv
<1> QED BY <1>1, <1>2

\* Only a whole, synced file gets a final name.
LEMMA RenameInv ==
  ASSUME NoClash, IInv, Typed', NEW t \in Threads, Rename(t)
  PROVE  IInv'
<1> DEFINE n == arg[t].name
<1>1. CASE Fail(t, "rename")
  BY <1>1, FailInv DEF Rename
<1>2. CASE ~Fail(t, "rename")
  <2>1. /\ Own(t) \in TempNames /\ Own(t) \in Entries /\ fd[t] \in Inodes
        /\ pc[t] = "rename" /\ dir[Own(t)] = fd[t] /\ fd[t] # None
        /\ \A img \in disk : \A m \in Names : img[m] # fd[t]
    <3>1. pc[t] = "rename"
      BY DEF Rename
    <3>2. fd[t] \in Inodes => fd[t] # None
      BY DEF Inodes, None
    <3> QED BY <3>1, <3>2, NotFinal DEF IInv, Filling
  <2>2. /\ dir' = [dir EXCEPT ![n] = fd[t], ![Own(t)] = None]
        /\ disk' = disk \cup {dir'}
        /\ pc' = [pc EXCEPT ![t] = "syncdir"]
        /\ UNCHANGED <<arg, stamp, fd, off, inode, home, calls, mishaps>>
    BY <1>2, <2>1 DEF Rename, Goto, callVars, Own
  <2>3. n \in Names /\ n \in Entries /\ n # Own(t)
    BY <2>1, NamesApart DEF IInv, Typed, Asked
  <2>4. /\ dir \in disk /\ dir \in [Entries -> {None} \cup Inodes]
        /\ disk \subseteq [Entries -> {None} \cup Inodes]
    BY DEF IInv, Typed, TypeOK
  <2>5. /\ dir'[n] = fd[t] /\ dir'[Own(t)] = None
        /\ \A f \in Entries \ {n, Own(t)} : dir'[f] = dir[f]
        /\ \A img \in disk' : img = dir' \/ img \in disk
        /\ dir' \in disk'
    BY <2>2, <2>3, <2>1, <2>4
  <2>6. /\ pc'[t] = "syncdir" /\ ~Unpublished(t)' /\ Unpublished(t)
        /\ \A u \in Threads \ {t} : /\ pc'[u] = pc[u]
                                    /\ Unpublished(u)' <=> Unpublished(u)
        /\ \A u \in Threads : Own(u)' = Own(u)
    BY <2>1, <2>2 DEF IInv, Typed, TypeOK, Unpublished, Own
  \* The file moved had one entry, so it is gone from where it was.
  <2>7. \A f \in Entries : dir[f] = fd[t] => f = Own(t)
    BY <2>1, <2>4 DEF IInv, Injective
  <2>8. \A u \in Threads \ {t} : Unpublished(u) => fd[u] # fd[t]
    BY <2>6 DEF IInv, Private
  <2>9. Numbered'
    <3>1. \A f \in Entries : dir'[f] <= calls
      <4>1. None <= calls
        BY WriteAtomicAssumption DEF IInv, Typed, TypeOK, None
      <4> QED BY <2>4, <2>5, <4>1 DEF IInv, Numbered
    <3>2. \A img \in disk' : \A f \in Entries : img[f] <= calls'
      BY <2>2, <2>5, <3>1 DEF IInv, Numbered
    <3>3. \A u \in Threads : Unpublished(u)' => Unpublished(u)
      BY <2>6
    <3> QED BY <2>2, <3>2, <3>3 DEF IInv, Numbered
  <2>10. Injective'
    <3>1. \A f, g \in Entries : dir'[f] = dir'[g] /\ dir'[f] # None => f = g
      BY <2>4, <2>5, <2>7 DEF IInv, Injective
    <3> QED BY <2>5, <3>1 DEF IInv, Injective
  <2>11. Separate'
    <3> SUFFICES ASSUME NEW img \in disk', NEW f \in TempNames, NEW g \in Entries,
                        dir'[f] # None, img[g] = dir'[f]
                 PROVE  g = f
      BY DEF Separate
    <3>1. f \in Entries \ {n, Own(t)} /\ dir'[f] = dir[f]
      BY <2>3, <2>5, NamesApart
    <3>2. CASE img = dir'
      BY <2>10, <2>5, <3>1, <3>2 DEF Injective
    <3>3. CASE img \in disk
      BY <3>1, <3>3 DEF IInv, Separate
    <3> QED BY <2>5, <3>2, <3>3
  <2>12. Private' /\ Unused'
    <3> SUFFICES ASSUME NEW u \in Threads, Unpublished(u)'
                 PROVE  /\ \A v \in Threads \ {u} : Unpublished(v)' => fd'[v] # fd'[u]
                        /\ \A img \in disk' : \A f \in Entries :
                             /\ img[f] = fd'[u] => f = Own(u)'
                             /\ pc'[u] \in {"mkdir", "create"} => img[f] # fd'[u]
      BY DEF Private, Unused, Unpublished
    <3>1. u # t /\ Unpublished(u) /\ pc'[u] = pc[u] /\ Own(u)' = Own(u) /\ fd'[u] = fd[u]
      BY <2>2, <2>6
    <3>2. \A v \in Threads \ {u} : Unpublished(v)' => fd'[v] # fd'[u]
      BY <2>2, <2>6, <3>1 DEF IInv, Private
    <3>3. fd[u] # fd[t] /\ fd[u] # None
      BY <2>8, <3>1 DEF IInv, Numbered
    <3>4. \A f \in Entries : dir'[f] = fd[u] => dir[f] = fd[u]
      BY <2>5, <3>3
    <3> QED BY <2>4, <2>5, <3>1, <3>2, <3>4 DEF IInv, Private, Unused
  <2>13. Filling' /\ Flushed'
    <3> SUFFICES ASSUME NEW u \in Threads, pc'[u] \in {"write", "rename"}
                 PROVE  /\ dir'[Own(u)'] = fd'[u]
                        /\ off'[u] <= Size[arg'[u].data]
                        /\ inode'[fd'[u]].data = [b \in 1 .. off'[u] |-> arg'[u].data]
                        /\ pc'[u] = "rename" =>
                             off'[u] = Size[arg'[u].data] /\ inode'[fd'[u]].synced
      BY DEF Filling, Flushed
    <3>0. /\ u # t /\ pc'[u] = pc[u] /\ Own(u)' = Own(u) /\ inode' = inode
          /\ fd'[u] = fd[u] /\ off'[u] = off[u] /\ arg'[u] = arg[u]
      BY <2>2, <2>6
    <3>1. Unpublished(u) /\ Own(u) # Own(t)
      BY <2>6, <3>0, TempDistinct DEF IInv, Typed, Own, Unpublished
    <3>2. Own(u) \in Entries \ {n, Own(t)}
      BY <2>3, <3>0, <3>1, NotFinal, NamesApart
    <3>3. dir'[Own(u)] = dir[Own(u)]
      BY <2>5, <3>2
    <3> QED BY <3>0, <3>3 DEF IInv, Filling, Flushed
  <2>14. CrashWhole'
    <3>1. Complete(fd[t]) /\ inode[fd[t]].synced
      <4>1. arg[t].data \in Payloads
        BY DEF IInv, Typed, TypeOK
      <4>2. inode[fd[t]].data = Whole(arg[t].data) /\ inode[fd[t]].synced
        BY <2>1 DEF IInv, Filling, Flushed, Whole
      <4> QED BY <4>1, <4>2 DEF Complete
    <3>2. \A m \in Names : dir'[m] # None => Complete(dir'[m]) /\ inode[dir'[m]].synced
      <4>1. \A m \in Names : m # Own(t) /\ m \in Entries
        BY <2>1, NamesApart
      <4> QED BY <2>4, <2>5, <3>1, <4>1 DEF IInv, CrashWhole
    <3>3. \A img \in disk' : \A m \in Names :
            img[m] # None => Complete(img[m]) /\ inode[img[m]].synced
      BY <2>5, <3>2 DEF IInv, CrashWhole
    <3> QED BY <2>2, <3>3 DEF CrashWhole, Complete
  <2> QED BY <2>5, <2>9, <2>10, <2>11, <2>12, <2>13, <2>14 DEF IInv
<1> QED BY <1>1, <1>2

\* Settling the directory only takes images away.
LEMMA SyncDirInv ==
  ASSUME IInv, Typed', NEW t \in Threads, SyncDir(t)
  PROVE  IInv'
<1>1. /\ dir \in disk' /\ disk' \subseteq disk
      /\ pc[t] = "syncdir" /\ pc' = [pc EXCEPT ![t] = "ok"]
      /\ UNCHANGED <<arg, stamp, fd, off, inode, dir, home, calls>>
  BY DEF SyncDir, IInv, Goto, callVars
<1>2. /\ pc'[t] = "ok" /\ \A u \in Threads \ {t} : pc'[u] = pc[u]
      /\ \A u \in Threads : Unpublished(u)' <=> Unpublished(u)
      /\ \A u \in Threads : Own(u)' = Own(u)
  BY <1>1 DEF IInv, Typed, TypeOK, Unpublished, Own
<1>3. (dir \in disk)' /\ Numbered' /\ Injective' /\ Separate' /\ CrashWhole'
  BY <1>1, <1>2 DEF IInv, Numbered, Injective, Separate, CrashWhole, Complete
<1>4. Private'
  BY <1>1, <1>2 DEF IInv, Private
<1>5. Unused' /\ Filling' /\ Flushed'
  BY <1>1, <1>2 DEF IInv, Unused, Filling, Flushed
<1> QED BY <1>3, <1>4, <1>5 DEF IInv

\* A killed process leaves its files as they are.
LEMMA KillInv ==
  ASSUME IInv, Typed', NEW p, Kill(p)
  PROVE  IInv'
<1>1. /\ \A u \in Threads : pc'[u] = pc[u] \/ pc'[u] = "killed"
      /\ UNCHANGED <<arg, stamp, fd, off, inode, dir, disk, home, calls>>
  BY DEF Kill, callVars, fsVars
<1>2. /\ \A u \in Threads : Unpublished(u)' => Unpublished(u)
      /\ \A u \in Threads : Own(u)' = Own(u)
  BY <1>1 DEF Unpublished, Own
<1>3. (dir \in disk)' /\ Numbered' /\ Injective' /\ Separate' /\ CrashWhole'
  BY <1>1, <1>2 DEF IInv, Numbered, Injective, Separate, CrashWhole, Complete
<1>4. Private'
  BY <1>1, <1>2 DEF IInv, Private
<1>5. Unused' /\ Filling' /\ Flushed'
  BY <1>1, <1>2 DEF IInv, Unused, Filling, Flushed
<1> QED BY <1>3, <1>4, <1>5 DEF IInv

\* After a power cut the directory is one of the images.
LEMMA PowerLossInv ==
  ASSUME IInv, Typed', PowerLoss
  PROVE  IInv'
<1>1. /\ \A u \in Threads : (pc'[u] = pc[u] /\ Idle(u)) \/ pc'[u] = "killed"
      /\ disk' = {dir'} /\ (dir' \in disk \/ dir' = EmptyDir)
      /\ UNCHANGED <<arg, stamp, fd, off, calls>>
  BY DEF PowerLoss, callVars
<1>2. /\ \A u \in Threads : Unpublished(u)' => Unpublished(u) /\ pc[u] = "err"
      /\ \A u \in Threads : pc'[u] \notin {"mkdir", "create", "write", "rename"}
      /\ \A u \in Threads : Own(u)' = Own(u)
  BY <1>1 DEF Unpublished, Own, Idle
<1>3. \A e \in Entries : dir'[e] = None \/ \E img \in disk : dir' = img
  BY <1>1 DEF EmptyDir
<1>4. Injective'
  BY <1>1, <1>3 DEF IInv, Injective
<1>5. Separate'
  BY <1>1, <1>4, NamesApart DEF Injective, Separate
<1>6. Numbered'
  <2>1. \A e \in Entries : dir'[e] <= calls
    <3>1. None <= calls
      BY WriteAtomicAssumption DEF IInv, Typed, TypeOK, None
    <3> QED BY <1>3, <3>1 DEF IInv, Numbered
  <2> QED BY <1>1, <1>2, <2>1 DEF IInv, Numbered
<1>7. Private'
  <2> SUFFICES ASSUME NEW u \in Threads, Unpublished(u)'
               PROVE  /\ \A v \in Threads \ {u} : Unpublished(v)' => fd'[v] # fd'[u]
                      /\ \A e \in Entries : dir'[e] = fd'[u] => e = Own(u)'
    BY <1>1 DEF Private
  <2>1. Unpublished(u) /\ fd'[u] = fd[u] /\ fd[u] # None
    BY <1>1, <1>2 DEF IInv, Numbered
  <2> QED BY <1>1, <1>2, <1>3, <2>1 DEF IInv, Private
<1>8. Unused' /\ Filling' /\ Flushed'
  BY <1>2 DEF Unused, Filling, Flushed
<1>9. CrashWhole'
  <2> SUFFICES ASSUME NEW n \in Names, dir'[n] # None
               PROVE  /\ \E d \in Payloads : inode'[dir'[n]].data = Whole(d)
                      /\ inode'[dir'[n]].synced
    BY <1>1 DEF CrashWhole, Complete
  <2>1. PICK img \in disk : dir' = img
    BY <1>3, NamesApart
  <2>2. Complete(img[n]) /\ inode[img[n]].synced /\ img[n] \in Inodes
    BY <2>1, NamesApart DEF IInv, CrashWhole, Typed, TypeOK
  <2>3. inode'[img[n]] = inode[img[n]]
    BY <2>2 DEF PowerLoss, Unsynced
  <2> QED BY <2>1, <2>2, <2>3 DEF Complete
<1> QED BY <1>1, <1>4, <1>5, <1>6, <1>7, <1>8, <1>9 DEF IInv

\* Every step keeps the inductive invariant.
LEMMA InvStep == NoClash /\ IInv /\ [Next]_vars => IInv'
<1> SUFFICES ASSUME NoClash, IInv, [Next]_vars PROVE IInv'
  OBVIOUS
<1>1. Typed'
  BY TypedStep DEF IInv
<1>2. CASE UNCHANGED vars
  <2>1. UNCHANGED <<pc, arg, stamp, fd, off, inode, dir, disk, calls>>
    BY <1>2 DEF vars, callVars, fsVars
  <2>2. (dir \in disk)' /\ Numbered' /\ Injective' /\ Separate' /\ CrashWhole'
    BY <2>1 DEF IInv, Numbered, Injective, Separate, CrashWhole, Complete, Unpublished
  <2>3. Private' /\ Unused' /\ Filling' /\ Flushed'
    BY <2>1 DEF IInv, Private, Unused, Filling, Flushed, Own, Unpublished
  <2> QED BY <1>1, <2>2, <2>3 DEF IInv
<1>3. CASE Next
  BY <1>1, <1>3, CallInv, MakeDirInv, CreateTempInv, WriteInv, SyncFileInv, RenameInv,
     SyncDirInv, KillInv, PowerLossInv DEF Next, Step
<1> QED BY <1>2, <1>3

\* The inductive invariant holds in every reachable state.
THEOREM Invariance == ASSUME NoClash PROVE Spec => []IInv
<1>1. NoClash /\ IInv /\ [Next]_vars => IInv'
  BY InvStep
<1>2. IInv /\ [Next]_vars => IInv'
  BY <1>1
<1> QED BY <1>2, InvInit, PTL DEF Spec

--------------------------------------------------------------------------------
(* Theorems                                                                    *)

\* A path shows one complete payload at every instant, and after a power cut
\* (atomic.rs:12-14), whatever the interleaving, failures and kills.
THEOREM NeverPartial == ASSUME NoClash PROVE Spec => [](VisibleWhole /\ CrashWhole)
<1>1. IInv => VisibleWhole /\ CrashWhole
  BY DEF IInv, VisibleWhole, CrashWhole
<1> QED BY <1>1, Invariance, PTL

\* A call that returned Err has not replaced the file (atomic.rs:41-50).
THEOREM ErrorMeansUnchanged == ASSUME NoClash PROVE Spec => []ErrNotPublished
<1>1. IInv => ErrNotPublished
  <2> SUFFICES ASSUME IInv, NEW t \in Threads, pc[t] = "err",
                      NEW img \in disk, NEW n \in Names
               PROVE  img[n] # fd[t]
    BY DEF ErrNotPublished
  <2>1. arg[t].name \in Paths /\ stamp[t] \in ClockReadings
    BY DEF IInv, Typed, TypeOK
  <2>2. Own(t) \notin Names
    BY <2>1, WriteAtomicAssumption DEF Own, TempPath
  <2>3. img[n] = fd[t] => n = Own(t)
    BY NamesApart DEF IInv, Private, Unpublished
  <2> QED BY <2>2, <2>3
<1> QED BY <1>1, Invariance, PTL

\* A step leaves every file with a final name as it is.
LEMMA FinalsFrozen ==
  ASSUME NoClash, IInv, [Next]_vars, NEW img \in disk, NEW n \in Names, img[n] # None
  PROVE  inode'[img[n]] = inode[img[n]]
<1> DEFINE i == img[n]
<1>1. i \in Inodes /\ n \in Entries /\ inode[i].synced
      /\ inode \in [Inodes -> [data : Content, synced : BOOLEAN]]
  BY NamesApart DEF IInv, Typed, TypeOK, CrashWhole
<1>2. ASSUME NEW t \in Threads, CreateTemp(t) PROVE inode'[i] = inode[i]
  <2>1. CASE inode' = inode
    BY <2>1
  <2>2. CASE inode' # inode
    <3>0. PICK now \in ClockReadings :
            inode' = [inode EXCEPT ![IF dir[TempPath(arg[t].name, t, now)] = None
                                     THEN fd[t] ELSE dir[TempPath(arg[t].name, t, now)]] =
                        [data |-> Empty, synced |-> FALSE]]
      BY <1>2, <2>2 DEF CreateTemp, Fail, fsVars
    <3> DEFINE e == TempPath(arg[t].name, t, now)
               j == IF dir[e] = None THEN fd[t] ELSE dir[e]
    <3>1. inode' = [inode EXCEPT ![j] = [data |-> Empty, synced |-> FALSE]]
      BY <3>0
    <3>2. TempPath(arg[t].name, t, now) \in TempNames /\ pc[t] = "create"
      BY <1>2, TempIsEntry DEF IInv, CreateTemp
    <3>3. i # j
      BY <1>1, <3>1, <3>2, NamesApart DEF IInv, Unused, Separate
    <3> QED BY <1>1, <3>1, <3>3
  <2> QED BY <2>1, <2>2
<1>3. ASSUME NEW t \in Threads, Write(t) \/ SyncFile(t) PROVE inode'[i] = inode[i]
  <2>1. pc[t] \in {"write", "rename"}
    BY <1>3 DEF Write, SyncFile
  <2>2. i # fd[t]
    BY <2>1, NotFinal
  <2> QED BY <1>1, <1>3, <2>2 DEF Write, SyncFile, Fail, fsVars
<1>4. CASE PowerLoss
  BY <1>1, <1>4 DEF PowerLoss, Unsynced
<1>5. ASSUME NEW t \in Threads, MakeDir(t) \/ Rename(t) \/ SyncDir(t) PROVE inode' = inode
  BY <1>5 DEF MakeDir, Rename, SyncDir, Fail, fsVars
<1>6. ASSUME NEW t \in Threads, NEW d \in Payloads, NEW m \in Targets[t], Call(t, m, d)
      PROVE  inode' = inode
  BY <1>6 DEF Call, fsVars
<1>7. ASSUME NEW p, Kill(p) PROVE inode' = inode
  BY <1>7 DEF Kill, fsVars
<1>8. CASE UNCHANGED vars
  BY <1>8 DEF vars, fsVars
<1> QED BY <1>2, <1>3, <1>4, <1>5, <1>6, <1>7, <1>8 DEF Next, Step

\* What a path leads to is final: no unpublished call has it, no temp name does.
LEMMA NamedAreFinal ==
  ASSUME IInv, NEW n \in Names, dir[n] # None
  PROVE  Final(dir[n])
<1> USE DEF IInv, Typed, TypeOK
<1>1. n \in Entries /\ n \notin TempNames /\ dir[n] \in Inodes
  BY NamesApart DEF Entries
<1>2. dir[n] \in 1 .. calls
  BY <1>1 DEF Numbered, Inodes
<1>3. \A t \in Threads : Unpublished(t) => fd[t] # dir[n]
  <2> SUFFICES ASSUME NEW t \in Threads, Unpublished(t), fd[t] = dir[n] PROVE FALSE
    OBVIOUS
  <2>1. n = Own(t)
    BY <1>1 DEF Private
  <2>2. Own(t) \in Paths \X {ProcessOf[u] : u \in Threads} \X ClockReadings
    BY DEF Own, TempPath
  <2> QED BY <2>1, <2>2, WriteAtomicAssumption
<1>4. \A e \in TempNames : dir[e] # dir[n]
  BY <1>1 DEF Separate
<1> QED BY <1>2, <1>3, <1>4 DEF Final

\* A step that writes at most the file j and keeps every other one from the
\* unpublished calls and the temp names keeps what is final.
LEMMA FinalKept ==
  ASSUME NEW i \in Inodes, Final(i), calls \in Nat, calls' \in Nat, calls' >= calls,
         inode'[i] = inode[i],
         \A t \in Threads : Unpublished(t)' => fd'[t] # i,
         \A e \in TempNames : dir'[e] # i
  PROVE  inode'[i] = inode[i] /\ Final(i)'
BY DEF Final

\* Whatever a step does, short of a power cut, final files stay as they are.
LEMMA FinalStays ==
  ASSUME Typed, NEW i \in Inodes, Final(i), Next, ~PowerLoss
  PROVE  inode'[i] = inode[i] /\ Final(i)'
<1> USE DEF Typed, TypeOK, Goto, Fail, callVars, fsVars
<1>0. i \in 1 .. calls /\ calls \in Nat /\ i # None
      /\ (\A t \in Threads : Unpublished(t) => fd[t] # i)
      /\ (\A e \in TempNames : dir[e] # i)
  BY DEF Final, None
<1>1. ASSUME NEW t \in Threads, NEW d \in Payloads, NEW n \in Targets[t], Call(t, n, d)
      PROVE  inode'[i] = inode[i] /\ Final(i)'
  <2>1. /\ fd' = [fd EXCEPT ![t] = calls + 1] /\ inode' = inode /\ dir' = dir
        /\ \A u \in Threads \ {t} : Unpublished(u)' => Unpublished(u)
        /\ calls' = calls + 1
    BY <1>1 DEF Call, Unpublished
  <2>2. calls + 1 # i
    BY <1>0
  <2> QED BY <1>0, <2>1, <2>2, FinalKept
<1>2. ASSUME NEW t \in Threads, MakeDir(t) \/ SyncFile(t) \/ Write(t) \/ SyncDir(t)
      PROVE  inode'[i] = inode[i] /\ Final(i)'
  <2>1. /\ UNCHANGED <<fd, dir, calls>>
        /\ \A u \in Threads : Unpublished(u)' => Unpublished(u)
    BY <1>2 DEF MakeDir, SyncFile, Write, SyncDir, Unpublished
  <2>2. inode'[i] = inode[i]
    <3>1. CASE MakeDir(t) \/ SyncDir(t)
      BY <3>1 DEF MakeDir, SyncDir
    <3>2. CASE SyncFile(t) \/ Write(t)
      <4>1. fd[t] # i
        BY <3>2, <1>0 DEF SyncFile, Write, Unpublished
      <4> QED BY <3>2, <4>1 DEF SyncFile, Write
    <3> QED BY <1>2, <3>1, <3>2
  <2> QED BY <1>0, <2>1, <2>2, FinalKept
<1>3. ASSUME NEW t \in Threads, CreateTemp(t) PROVE inode'[i] = inode[i] /\ Final(i)'
  <2>1. \A u \in Threads : Unpublished(u)' => Unpublished(u)
    BY <1>3 DEF CreateTemp, Unpublished
  <2>2. CASE UNCHANGED <<fd, inode, dir, calls>>
    <3>1. \A u \in Threads : Unpublished(u)' => fd'[u] # i
      BY <1>0, <2>1, <2>2
    <3>2. \A e \in TempNames : dir'[e] # i
      BY <1>0, <2>2
    <3> QED BY <1>0, <2>2, <3>1, <3>2, FinalKept
  <2>3. CASE ~UNCHANGED <<fd, inode, dir, calls>>
    <3> DEFINE Took(now) == LET e == TempPath(arg[t].name, t, now)
                            IN  IF dir[e] = None THEN fd[t] ELSE dir[e]
    <3>1. PICK now \in ClockReadings :
            /\ fd' = [fd EXCEPT ![t] = Took(now)]
            /\ inode' = [inode EXCEPT ![Took(now)] = [data |-> Empty, synced |-> FALSE]]
            /\ dir' = [dir EXCEPT ![TempPath(arg[t].name, t, now)] = Took(now)]
            /\ UNCHANGED calls
      BY <1>3, <2>3 DEF CreateTemp
    <3>2. Unpublished(t) /\ arg[t].name \in Names
      BY <1>3 DEF CreateTemp, Unpublished, Asked
    <3>3. TempPath(arg[t].name, t, now) \in TempNames
      BY <3>2 DEF TempNames, TempPath
    <3>4. Took(now) # i
      BY <1>0, <3>2, <3>3
    <3>5. TempPath(arg[t].name, t, now) \in Entries
      BY <3>3, NamesApart
    <3> HIDE DEF Took
    <3>6. \A u \in Threads : Unpublished(u)' => fd'[u] # i
      BY <1>0, <2>1, <3>1, <3>4
    <3>7. \A e \in TempNames : dir'[e] # i
      BY <1>0, <3>1, <3>4, NamesApart
    <3>8. inode'[i] = inode[i]
      BY <3>1, <3>4
    <3> QED BY <1>0, <3>1, <3>6, <3>7, <3>8, FinalKept
  <2> QED BY <2>2, <2>3
<1>4. ASSUME NEW t \in Threads, Rename(t) PROVE inode'[i] = inode[i] /\ Final(i)'
  <2>1. /\ UNCHANGED <<fd, inode, calls>>
        /\ \A u \in Threads : Unpublished(u)' => Unpublished(u)
    BY <1>4 DEF Rename, Unpublished
  <2>2. \A e \in TempNames : dir'[e] = dir[e] \/ dir'[e] = None
    <3>1. arg[t].name \in Names
      BY <1>4 DEF Rename, Asked
    <3> QED BY <1>4, <3>1, NamesApart DEF Rename, Entries
  <2>3. \A u \in Threads : Unpublished(u)' => fd'[u] # i
    BY <1>0, <2>1
  <2>4. \A e \in TempNames : dir'[e] # i
    BY <1>0, <2>2
  <2> QED BY <1>0, <2>1, <2>3, <2>4, FinalKept
<1>5. ASSUME NEW p, Kill(p) PROVE inode'[i] = inode[i] /\ Final(i)'
  <2>1. /\ UNCHANGED <<fd, inode, dir, calls>>
        /\ \A u \in Threads : Unpublished(u)' => Unpublished(u)
    BY <1>5 DEF Kill, Unpublished
  <2> QED BY <1>0, <2>1, FinalKept
<1> QED BY <1>1, <1>2, <1>3, <1>4, <1>5 DEF Next, Step

\* A published file is never touched again, under its name or replaced by a
\* later one, so a reader that opened it reads one version to the end.
THEOREM NeverRewritten == ASSUME NoClash PROVE Spec => PublishedFrozen
<1> DEFINE Named == \A n \in Names :
                      dir[n] # None => Final(dir[n]) /\ inode'[dir[n]] = inode[dir[n]]
           Kept == \A i \in Inodes : Final(i) => inode'[i] = inode[i] /\ Final(i)'
<1>1. ASSUME NoClash, IInv, [Next]_vars
      PROVE  [Named /\ (Kept \/ PowerLoss)]_vars
  <2>1. Named
    BY <1>1, FinalsFrozen, NamedAreFinal DEF IInv
  <2>2. Kept \/ PowerLoss \/ UNCHANGED vars
    BY <1>1, FinalStays DEF IInv
  <2> QED BY <2>1, <2>2
<1>2. IInv /\ [Next]_vars => [Named /\ (Kept \/ PowerLoss)]_vars
  BY <1>1
<1> QED BY <1>2, Invariance, PTL DEF Spec, PublishedFrozen

--------------------------------------------------------------------------------
(* Refinement                                                                  *)

\* A directory that is not there is empty, and nobody works in it.
Rooted == /\ home = "absent" => disk = {EmptyDir}
          /\ \A t \in Threads :
               pc[t] \in {"create", "write", "rename", "syncdir"} => home # "absent"

\* Every step of every thread keeps it.
LEMMA RootedStep == Typed /\ Rooted /\ [Next]_vars => Rooted'
<1> SUFFICES ASSUME Typed, Rooted, [Next]_vars PROVE Rooted'
  OBVIOUS
<1> USE DEF Typed, TypeOK, Rooted, Goto, Fail, callVars, fsVars, EmptyDir
<1>1. ASSUME NEW t \in Threads, NEW d \in Payloads, NEW n \in Targets[t], Call(t, n, d)
      PROVE  Rooted'
  BY <1>1 DEF Call
<1>2. ASSUME NEW t \in Threads, MakeDir(t) PROVE Rooted'
  BY <1>2 DEF MakeDir
<1>3. ASSUME NEW t \in Threads, CreateTemp(t) PROVE Rooted'
  BY <1>3 DEF CreateTemp
<1>4. ASSUME NEW t \in Threads, Write(t) PROVE Rooted'
  BY <1>4 DEF Write
<1>5. ASSUME NEW t \in Threads, SyncFile(t) PROVE Rooted'
  BY <1>5 DEF SyncFile
<1>6. ASSUME NEW t \in Threads, Rename(t) PROVE Rooted'
  BY <1>6 DEF Rename
<1>7. ASSUME NEW t \in Threads, SyncDir(t) PROVE Rooted'
  BY <1>7 DEF SyncDir
<1>8. ASSUME NEW p, Kill(p) PROVE Rooted'
  BY <1>8 DEF Kill
<1>9. CASE PowerLoss
  BY <1>9 DEF PowerLoss, Idle
<1>10. CASE UNCHANGED vars
  BY <1>10 DEF vars
<1> QED BY <1>1, <1>2, <1>3, <1>4, <1>5, <1>6, <1>7, <1>8, <1>9, <1>10 DEF Next, Step

\* What a name stands for in an image does not change with a step.
LEMMA DecodeKept ==
  ASSUME NoClash, IInv, [Next]_vars, NEW img \in disk
  PROVE  Decode(img)' = Decode(img)
<1>1. \A n \in Names : img[n] # None =>
        /\ inode'[img[n]] = inode[img[n]]
        /\ Complete(img[n])' <=> Complete(img[n])
  BY FinalsFrozen DEF Complete
<1> QED BY <1>1 DEF Decode

\* An empty directory has no files.
LEMMA DecodeEmpty == /\ Decode(EmptyDir) = [n \in Names |-> "absent"]
                     /\ Decode(EmptyDir)' = Decode(EmptyDir)
<1>1. \A n \in Names : EmptyDir[n] = None
  BY NamesApart DEF EmptyDir
<1>2. Decode(EmptyDir) = [n \in Names |-> "absent"]
  BY <1>1 DEF Decode
<1>3. Decode(EmptyDir)' = [n \in Names |-> "absent"]
  BY <1>1 DEF Decode
<1> QED BY <1>2, <1>3

\* Initial states map to initial states ...
LEMMA ImplementsInit == Init => File!Init
<1> SUFFICES ASSUME Init PROVE File!Init
  OBVIOUS
<1>1. dir = EmptyDir /\ CrashImages = {EmptyDir}
  BY DEF Init, CrashImages
<1> QED BY <1>1, DecodeEmpty DEF File!Init

\* ... and steps to steps: Rename to Replace, a power cut to a power cut, the
\* rest to Settle or to nothing.
LEMMA ImplementsStep ==
  ASSUME NoClash, IInv, Rooted, [Next]_vars
  PROVE  [File!Next]_(File!vars)
<1> DEFINE seen == Decode(dir)
           images == {Decode(img) : img \in CrashImages}
<1>1. \A img \in CrashImages : Decode(img)' = Decode(img)
  BY DecodeKept, DecodeEmpty DEF CrashImages
<1>2. dir \in disk /\ dir \in CrashImages /\ Decode(dir) \in images
  BY DEF IInv, CrashImages
<1>3. ASSUME dir' = dir, CrashImages' = CrashImages
      PROVE  UNCHANGED <<seen, images>>
  <2>1. seen' = seen
    BY <1>1, <1>2, <1>3
  <2>2. images' = {Decode(img)' : img \in CrashImages}
    BY <1>3
  <2>3. images' = images
    BY <1>1, <2>2
  <2> QED BY <2>1, <2>3
<1>4. ASSUME UNCHANGED <<dir, disk, home>> PROVE UNCHANGED <<seen, images>>
  BY <1>3, <1>4 DEF CrashImages
<1>5. ASSUME NEW t \in Threads, MakeDir(t) PROVE UNCHANGED <<seen, images>>
  <2>1. dir' = dir /\ disk' = disk
        /\ (home' = home \/ (home = "absent" /\ home' = "volatile"))
    BY <1>5 DEF MakeDir, Fail, fsVars
  <2>2. CrashImages' = CrashImages
    BY <2>1 DEF CrashImages, Rooted, EmptyDir
  <2> QED BY <1>3, <2>1, <2>2
<1>6. ASSUME NEW t \in Threads, CreateTemp(t) PROVE UNCHANGED <<seen, images>>
  <2>1. CASE UNCHANGED <<dir, disk, home>>
    BY <1>4, <2>1
  <2>2. CASE ~UNCHANGED <<dir, disk, home>>
    <3>1. PICK now \in ClockReadings :
            /\ \E j : dir' = [dir EXCEPT ![TempPath(arg[t].name, t, now)] = j]
            /\ disk' = disk \cup {dir'} /\ home' = home
      BY <1>6, <2>2 DEF CreateTemp, Fail, fsVars
    <3>2. TempPath(arg[t].name, t, now) \in TempNames
      BY <1>6, TempIsEntry DEF IInv, CreateTemp
    <3>3. \A n \in Names : dir'[n] = dir[n]
      BY <3>1, <3>2, NamesApart DEF IInv, Typed, TypeOK
    <3>4. Decode(dir)' = Decode(dir)
      BY <1>1, <1>2, <3>3 DEF Decode
    <3>5. CrashImages' = CrashImages \cup {dir'}
      BY <3>1 DEF CrashImages, EmptyDir
    <3>6. images' = {Decode(img)' : img \in CrashImages} \cup {Decode(dir)'}
      BY <3>5
    <3>7. images' = images
      BY <1>1, <1>2, <3>4, <3>6
    <3> QED BY <3>4, <3>7
  <2> QED BY <2>1, <2>2
\* The rename is the step that replaces a payload.
<1>7. ASSUME NEW t \in Threads, Rename(t), ~UNCHANGED <<dir, disk, home>>
      PROVE  \E n \in Names, d \in Payloads : File!Replace(n, d)
  <2> DEFINE n == arg[t].name
             whole == PayloadIn(inode[fd[t]].data)
  <2>1. /\ pc[t] = "rename" /\ dir[Own(t)] = fd[t] /\ fd[t] \in Inodes /\ n \in Names
        /\ Own(t) \in TempNames /\ Own(t) \in Entries /\ arg[t].data \in Payloads
        /\ inode[fd[t]].data = Whole(arg[t].data)
    <3>1. pc[t] = "rename"
      BY <1>7 DEF Rename
    <3> QED BY <3>1, NotFinal DEF IInv, Typed, TypeOK, Asked, Filling, Flushed, Whole
  <2>2. /\ dir' = [dir EXCEPT ![n] = fd[t], ![Own(t)] = None]
        /\ disk' = disk \cup {dir'} /\ UNCHANGED <<inode, home>>
    BY <1>7, <2>1 DEF Rename, Fail, fsVars, Own
  <2>3. Complete(fd[t]) /\ whole \in Payloads
    BY <2>1 DEF Complete, PayloadIn
  <2>4. /\ dir'[n] = fd[t]
        /\ \A m \in Names \ {n} : dir'[m] = dir[m]
    BY <2>1, <2>2, NamesApart DEF IInv, Typed, TypeOK
  <2>5. Complete(fd[t])' /\ whole' = whole
    <3>1. Complete(fd[t])'
      BY <1>7, <2>1, <2>2, <2>3 DEF Complete, Rename, Fail, callVars
    <3>2. fd'[t] = fd[t]
      BY <1>7 DEF Rename, Fail, callVars
    <3> QED BY <2>2, <3>1, <3>2
  <2>6. seen' = [seen EXCEPT ![n] = whole]
    <3> DEFINE held(i) == IF i = None THEN "absent"
                          ELSE IF Complete(i) THEN PayloadIn(inode[i].data) ELSE "torn"
    <3>1. seen = [m \in Names |-> held(dir[m])]
      BY DEF Decode
    <3>2. \A i : Complete(i)' <=> Complete(i)
      BY <2>2 DEF Complete
    <3>3. seen' = [m \in Names |-> held(dir'[m])]
      BY <2>2, <3>2 DEF Decode
    <3>4. held(dir'[n]) = whole
      BY <2>1, <2>3, <2>4 DEF Inodes, None
    <3>5. \A m \in Names \ {n} : held(dir'[m]) = held(dir[m])
      BY <2>4
    <3> HIDE DEF held, whole
    <3> QED BY <3>1, <3>3, <3>4, <3>5
  <2>7. CrashImages' = CrashImages \cup {dir'}
    BY <2>2 DEF CrashImages, EmptyDir
  <2>8. images' = {Decode(img)' : img \in CrashImages} \cup {seen'}
    BY <2>7
  <2>9. images' = images \cup {seen'}
    BY <1>1, <2>8
  <2> QED BY <2>1, <2>3, <2>6, <2>9 DEF File!Replace
<1>8. ASSUME NEW t \in Threads, SyncDir(t) PROVE File!Settle
  <2>1. dir' = dir /\ home' = home /\ dir \in disk' /\ disk' \subseteq disk
    BY <1>8, <1>2 DEF SyncDir
  <2>2. CrashImages' \subseteq CrashImages /\ dir \in CrashImages'
    BY <2>1 DEF CrashImages, EmptyDir
  <2>3. seen' = seen
    BY <1>1, <1>2, <2>1
  <2>4. images' = {Decode(img)' : img \in CrashImages'}
    OBVIOUS
  <2>5. images' \subseteq images /\ seen \in images'
    BY <1>1, <2>2, <2>3, <2>4
  <2> QED BY <2>3, <2>5 DEF File!Settle
<1>9. ASSUME PowerLoss PROVE File!PowerLoss
  <2>1. dir' \in CrashImages /\ CrashImages' = {dir'}
    BY <1>9 DEF PowerLoss, CrashImages, EmptyDir
  <2>2. seen' = Decode(dir)' /\ \E img \in CrashImages : dir' = img
    BY <2>1
  <2>3. seen' \in images
    <3> PICK img \in CrashImages : dir' = img
      BY <2>1
    <3>1. seen' = Decode(img)'
      BY DEF Decode
    <3> QED BY <1>1, <3>1
  <2>4. images' = {seen'}
    BY <2>1
  <2> QED BY <2>3, <2>4 DEF File!PowerLoss
<1>10. ASSUME NEW t \in Threads, Write(t) \/ SyncFile(t) PROVE UNCHANGED <<dir, disk, home>>
  BY <1>10 DEF Write, SyncFile, Fail, fsVars
<1>11. ASSUME NEW t \in Threads, NEW d \in Payloads, NEW n \in Targets[t], Call(t, n, d)
       PROVE  UNCHANGED <<dir, disk, home>>
  BY <1>11 DEF Call, fsVars
<1>12. ASSUME NEW p, Kill(p) PROVE UNCHANGED <<dir, disk, home>>
  BY <1>12 DEF Kill, fsVars
<1>13. CASE UNCHANGED vars
  BY <1>4, <1>13 DEF vars, fsVars, File!vars
<1>14. CASE Next
  <2>1. UNCHANGED <<seen, images>> => UNCHANGED File!vars
    BY DEF File!vars
  <2>2. ASSUME NEW t \in Threads, Step(t) PROVE [File!Next]_(File!vars)
    BY <1>4, <1>5, <1>6, <1>7, <1>8, <1>10, <2>1, <2>2 DEF Step, File!Next
  <2>3. ASSUME NEW t \in Threads, NEW d \in Payloads, NEW n \in Targets[t], Call(t, n, d)
        PROVE  [File!Next]_(File!vars)
    BY <1>4, <1>11, <2>1, <2>3
  <2>4. ASSUME NEW t \in Threads, Kill(ProcessOf[t]) PROVE [File!Next]_(File!vars)
    BY <1>4, <1>12, <2>1, <2>4
  <2>5. CASE PowerLoss
    BY <1>9, <2>5 DEF File!Next
  <2> QED BY <1>14, <2>2, <2>3, <2>4, <2>5 DEF Next
<1> QED BY <1>13, <1>14

\* Seen from outside write_atomic is AtomicFile: names change from one complete
\* payload to another in one step, and power cuts go back to one of them.
THEOREM RefinesAtomicFile == ASSUME NoClash PROVE Spec => Implements
<1>1. Init => Rooted
  BY DEF Init, Rooted
<1>2. IInv /\ Rooted /\ [Next]_vars => Rooted'
  BY RootedStep DEF IInv
<1>3. IInv /\ Rooted /\ [Next]_vars => [File!Next]_(File!vars)
  BY ImplementsStep
<1> QED BY <1>1, <1>2, <1>3, Invariance, ImplementsInit, PTL DEF Spec, Implements, File!Spec

--------------------------------------------------------------------------------
(* What is left behind                                                         *)

\* However the power goes and whatever the disk then has, complete files only.
THEOREM WholeAfterCrash == ASSUME NoClash PROVE Spec => []CrashWhole
<1>1. IInv => CrashWhole
  BY DEF IInv
<1> QED BY <1>1, Invariance, PTL

\* A call for a proper path fails by a mishap and by nothing else: its temp file
\* is there when it is renamed, and one that was there before is reused.
THEOREM FailureHasCause == ASSUME NoClash PROVE Spec => ErrHasCause
<1> DEFINE Caused(t) == pc[t] # "err" /\ pc'[t] = "err" /\ arg'[t].name \in Names =>
                          mishaps' = mishaps + 1
<1>1. ASSUME IInv, [Next]_vars, NEW t \in Threads
      PROVE  Caused(t)
  <2> SUFFICES ASSUME pc[t] # "err", pc'[t] = "err", arg'[t].name \in Names,
                      ~(mishaps' = mishaps + 1)
               PROVE  FALSE
    OBVIOUS
  <2> USE <1>1 DEF IInv, Typed, TypeOK, Goto, Fail, Mishap
  <2>1. ASSUME NEW u \in Threads, NEW d \in Payloads, NEW n \in Targets[u], Call(u, n, d)
        PROVE  FALSE
    BY <2>1, WriteAtomicAssumption DEF Call
  <2>2. ASSUME NEW u \in Threads, MakeDir(u) PROVE FALSE
    BY <2>2, WriteAtomicAssumption DEF MakeDir, callVars
  <2>3. ASSUME NEW u \in Threads, CreateTemp(u) \/ Write(u) \/ SyncFile(u) \/ SyncDir(u)
        PROVE  FALSE
    BY <2>3 DEF CreateTemp, Write, SyncFile, SyncDir
  <2>4. ASSUME NEW u \in Threads, Rename(u) PROVE FALSE
    <3>1. pc[u] = "rename" /\ dir[TempPath(arg[u].name, u, stamp[u])] = fd[u] /\ fd[u] # None
      BY <2>4 DEF Rename, Filling, Own, Numbered, Unpublished
    <3> QED BY <2>4, <3>1 DEF Rename
  <2>5. ASSUME NEW p, Kill(p) PROVE FALSE
    BY <2>5 DEF Kill
  <2>6. CASE PowerLoss
    BY <2>6 DEF PowerLoss
  <2>7. CASE UNCHANGED vars
    BY <2>7 DEF vars
  <2> QED BY <2>1, <2>2, <2>3, <2>4, <2>5, <2>6, <2>7 DEF Next, Step
<1>2. IInv /\ [Next]_vars => [\A t \in Threads : Caused(t)]_vars
  BY <1>1
<1> QED BY <1>2, Invariance, PTL DEF Spec, ErrHasCause

\* As long as nothing went wrong a temp file is one that a call is working on.
Attended ==
  mishaps = 0 =>
    \A e \in TempNames :
      dir[e] # None => \E t \in Threads : pc[t] \in {"write", "rename"} /\ e = Own(t)

\* Every step keeps it so.
LEMMA AttendedStep == Typed /\ Typed' /\ Attended /\ [Next]_vars => Attended'
<1> SUFFICES ASSUME Typed, Typed', Attended, [Next]_vars, mishaps' = 0,
                    NEW e \in TempNames, dir'[e] # None
             PROVE  \E t \in Threads : pc'[t] \in {"write", "rename"} /\ e = Own(t)'
  BY DEF Attended
<1> DEFINE Attends(t) == pc[t] \in {"write", "rename"} /\ e = Own(t)
<1>1. mishaps = 0 /\ ~(mishaps' = mishaps + 1)
  <2>1. ASSUME NEW t \in Threads, Step(t) PROVE mishaps' = mishaps \/ mishaps' = mishaps + 1
    <3>1. MakeDir(t) \/ CreateTemp(t) => mishaps' = mishaps \/ mishaps' = mishaps + 1
      BY DEF MakeDir, CreateTemp, Fail, Mishap
    <3>2. Write(t) \/ SyncFile(t) => mishaps' = mishaps \/ mishaps' = mishaps + 1
      BY DEF Write, SyncFile, Fail, Mishap
    <3>3. Rename(t) \/ SyncDir(t) => mishaps' = mishaps \/ mishaps' = mishaps + 1
      BY DEF Rename, SyncDir, Fail, Mishap
    <3> QED BY <2>1, <3>1, <3>2, <3>3 DEF Step
  <2>2. mishaps' = mishaps \/ mishaps' = mishaps + 1
    BY <2>1 DEF Next, Call, Kill, PowerLoss, Mishap, vars
  <2>3. mishaps \in Nat
    BY DEF Typed, TypeOK
  <2> QED BY <2>2, <2>3
<1> USE DEF Typed, TypeOK, Goto, callVars, fsVars
<1>2. ASSUME dir[e] # None, NEW u \in Threads,
             \A t \in Threads \ {u} : pc'[t] = pc[t] /\ arg'[t] = arg[t] /\ stamp'[t] = stamp[t],
             Attends(u) => pc'[u] \in {"write", "rename"} /\ Own(u)' = Own(u)
      PROVE  \E t \in Threads : pc'[t] \in {"write", "rename"} /\ e = Own(t)'
  <2>1. PICK t \in Threads : Attends(t)
    BY <1>1, <1>2 DEF Attended
  <2>2. CASE t = u
    BY <1>2, <2>1, <2>2
  <2>3. CASE t # u
    BY <1>2, <2>1, <2>3 DEF Own, TempPath
  <2> QED BY <2>2, <2>3
<1>3. ASSUME NEW t \in Threads, NEW d \in Payloads, NEW n \in Targets[t], Call(t, n, d)
      PROVE  \E u \in Threads : pc'[u] \in {"write", "rename"} /\ e = Own(u)'
  BY <1>2, <1>3 DEF Call, Idle
<1>4. ASSUME NEW t \in Threads, MakeDir(t) \/ SyncDir(t)
      PROVE  \E u \in Threads : pc'[u] \in {"write", "rename"} /\ e = Own(u)'
  BY <1>1, <1>2, <1>4 DEF MakeDir, SyncDir, Fail, Mishap
<1>5. ASSUME NEW t \in Threads, Write(t) \/ SyncFile(t)
      PROVE  \E u \in Threads : pc'[u] \in {"write", "rename"} /\ e = Own(u)'
  <2>1. Own(t)' = Own(t)
    BY <1>1, <1>5 DEF Write, SyncFile, Fail, Mishap, Own, TempPath
  <2> QED BY <1>1, <1>2, <1>5, <2>1 DEF Write, SyncFile, Fail, Mishap
<1>6. ASSUME NEW t \in Threads, CreateTemp(t)
      PROVE  \E u \in Threads : pc'[u] \in {"write", "rename"} /\ e = Own(u)'
  <2>1. PICK now \in ClockReadings :
          LET f == TempPath(arg[t].name, t, now)
          IN  /\ stamp' = [stamp EXCEPT ![t] = now]
              /\ \E i : dir' = [dir EXCEPT ![f] = i]
              /\ pc' = [pc EXCEPT ![t] = "write"]
              /\ arg' = arg
    BY <1>1, <1>6 DEF CreateTemp, Fail, Mishap
  <2>2. Own(t)' = TempPath(arg[t].name, t, now)
    BY <2>1 DEF Own, TempPath
  <2>3. CASE e = Own(t)'
    BY <2>1, <2>3
  <2>4. CASE e # Own(t)'
    <3>1. dir'[e] = dir[e]
      BY <2>1, <2>2, <2>4 DEF Entries
    <3> QED BY <1>2, <1>6, <2>1, <3>1 DEF CreateTemp
  <2> QED BY <2>3, <2>4
<1>7. ASSUME NEW t \in Threads, Rename(t)
      PROVE  \E u \in Threads : pc'[u] \in {"write", "rename"} /\ e = Own(u)'
  <2>1. arg[t].name \in Names /\ pc[t] = "rename"
    BY <1>7 DEF Rename, Asked
  <2>2. e # arg[t].name
    BY <2>1, NamesApart
  <2>3. e # Own(t) /\ dir[e] # None
    <3>1. CASE dir[Own(t)] = None
      BY <1>1, <1>7, <3>1 DEF Rename, Fail, Mishap, Own
    <3>2. CASE dir[Own(t)] # None
      <4>1. dir' = [dir EXCEPT ![arg[t].name] = dir[Own(t)], ![Own(t)] = None]
        BY <1>1, <1>7, <3>2 DEF Rename, Fail, Mishap, Own
      <4>2. e \in Entries /\ Own(t) \in Entries
        BY <2>1, TempIsEntry DEF Entries, Own, TempPath, TempNames
      <4> QED BY <2>2, <4>1, <4>2
    <3> QED BY <3>1, <3>2
  <2> QED BY <1>1, <1>2, <1>7, <2>3 DEF Rename, Fail, Mishap
<1>8. ASSUME NEW p, Kill(p) PROVE FALSE
  BY <1>1, <1>8 DEF Kill, Mishap
<1>9. CASE PowerLoss
  BY <1>1, <1>9 DEF PowerLoss, Mishap
<1>10. CASE UNCHANGED vars
  BY <1>1, <1>10 DEF vars, Attended, Own, TempPath
<1> QED BY <1>3, <1>4, <1>5, <1>6, <1>7, <1>8, <1>9, <1>10 DEF Next, Step

\* Calls that nothing disturbed leave no temp file, threads that share a file or
\* a process included.
THEOREM LeavesNoTemp == Spec => []Tidy
<1>1. Init => Attended
  BY DEF Init, Attended, EmptyDir, Entries
<1>2. Typed /\ Attended /\ [Next]_vars => Attended'
  BY AttendedStep, TypedStep
<1>3. Attended => Tidy
  BY DEF Attended, Tidy, Idle
<1> QED BY <1>1, <1>2, <1>3, TypedInit, TypedStep, PTL DEF Spec

--------------------------------------------------------------------------------
(* Durability                                                                  *)

\* The directory was there and on disk from the start, and its sync succeeds.
SyncsHome == Homes = {"durable"} /\ "syncdir" \notin Faults

\* From the rename on, what the path held before belongs to no call under way,
\* to no temp file and, as far as programs see, to the path; once the directory
\* is synced, in no image the disk may hold.
Seen(t) == IF pc[t] = "ok" THEN disk ELSE {dir}
Good(t, img) == /\ img[arg[t].name] \notin before[t]
                /\ \A e \in TempNames : img[e] # None => img[e] \notin before[t]
Gone(t) ==
  /\ arg[t].name \in Names
  /\ \A i \in before[t] : i <= calls
  /\ \A u \in Threads : Unpublished(u) => fd[u] \notin before[t]
  /\ \A img \in Seen(t) : Good(t, img)
Lasting == \A t \in Threads : pc[t] \in {"syncdir", "ok"} => Gone(t)

\* With a durable directory the images are those of the directory itself.
LEMMA HomeStep ==
  ASSUME home = "durable", [Next]_vars
  PROVE  home' = "durable"
<1>1. ASSUME NEW t \in Threads, Step(t) PROVE home' = "durable"
  <2>1. MakeDir(t) => home' = "durable" BY DEF MakeDir, Fail, fsVars
  <2>2. CreateTemp(t) => home' = "durable" BY DEF CreateTemp, Fail, fsVars
  <2>3. Write(t) \/ SyncFile(t) => home' = "durable" BY DEF Write, SyncFile, Fail, fsVars
  <2>4. Rename(t) \/ SyncDir(t) => home' = "durable" BY DEF Rename, SyncDir, Fail, fsVars
  <2> QED BY <1>1, <2>1, <2>2, <2>3, <2>4 DEF Step
<1> QED BY <1>1 DEF Next, Call, Kill, PowerLoss, fsVars, vars

\* What keeps the replaced files gone when a step is another thread's.
LEMMA GoneKept ==
  ASSUME NEW t \in Threads, Gone(t), calls \in Nat, calls' \in {calls, calls + 1},
         before'[t] = before[t], arg'[t] = arg[t],
         \A u \in Threads : Unpublished(u)' =>
           (Unpublished(u) /\ fd'[u] = fd[u]) \/ fd'[u] \notin before[t],
         \A i \in before[t] : i \in Nat,
         \A img \in Seen(t)' : img \in Seen(t) \/ Good(t, img)
  PROVE  Gone(t)'
<1>1. \A img : Good(t, img) => Good(t, img)'
  BY DEF Good
<1>2. \A img \in Seen(t)' : Good(t, img)'
  BY <1>1 DEF Gone
<1>3. \A i \in before'[t] : i <= calls'
  BY DEF Gone
<1> QED BY <1>2, <1>3 DEF Gone

\* The rename starts it: no temp file and no unpublished file was ever what an
\* image has under the path.
LEMMA GoneSinceRename ==
  ASSUME IInv, home = "durable", NEW t \in Threads, Rename(t), pc'[t] = "syncdir"
  PROVE  Gone(t)'
<1> DEFINE n == arg[t].name
<1> USE DEF Typed, TypeOK, Goto
<1>1. /\ pc[t] = "rename" /\ n \in Names /\ n \in Entries
      /\ dir[Own(t)] = fd[t] /\ fd[t] # None
      /\ Own(t) \in TempNames /\ Own(t) \in Entries
  <2>1. pc[t] = "rename"
    BY DEF Rename
  <2> QED BY <2>1, TempIsEntry, NamesApart DEF IInv, Asked, Filling, Numbered, Unpublished, Own
<1>2. /\ before' = [before EXCEPT ![t] = {img[n] : img \in disk} \cup {None}]
      /\ dir' = [dir EXCEPT ![n] = fd[t], ![Own(t)] = None]
      /\ UNCHANGED <<arg, fd, calls>> /\ pc' = [pc EXCEPT ![t] = "syncdir"]
  BY <1>1 DEF Rename, Fail, callVars, IInv, Own, CrashImages
<1>3. before'[t] = {img[n] : img \in disk} \cup {None}
  BY <1>2 DEF IInv
<1>4. ASSUME NEW u \in Threads, Unpublished(u) PROVE fd[u] \notin before'[t]
  <2>1. Own(u) \in Paths \X {ProcessOf[v] : v \in Threads} \X ClockReadings
    BY DEF IInv, Own, TempPath
  <2>2. Own(u) # n
    BY <1>1, <2>1, WriteAtomicAssumption
  <2>3. \A img \in disk : img[n] # fd[u]
    BY <1>1, <1>4, <2>2 DEF IInv, Private
  <2> QED BY <1>3, <1>4, <2>3 DEF IInv, Numbered
<1>5. \A i \in before'[t] : i <= calls'
  <2>1. \A img \in disk : img[n] <= calls
    BY <1>1 DEF IInv, Numbered
  <2> QED BY <1>2, <1>3, <2>1 DEF IInv, None
<1>6. Good(t, dir)'
  <2>1. dir'[n] = fd[t]
    BY <1>1, <1>2, NamesApart DEF IInv
  <2>2. fd[t] \notin before'[t]
    BY <1>1, <1>4 DEF Unpublished
  <2>3. ASSUME NEW e \in TempNames, dir'[e] # None PROVE dir'[e] \notin before'[t]
    <3>1. e \in Entries /\ e # n
      BY <1>1, NamesApart DEF Entries
    <3>2. dir'[e] = dir[e]
      BY <1>1, <1>2, <2>3, <3>1 DEF IInv
    <3>3. \A img \in disk : img[n] # dir[e]
      BY <1>1, <2>3, <3>1, <3>2 DEF IInv, Separate
    <3> QED BY <1>3, <2>3, <3>2, <3>3
  <2> QED BY <1>2, <2>1, <2>2, <2>3 DEF Good
<1>7. \A u \in Threads : Unpublished(u)' => Unpublished(u) /\ fd'[u] = fd[u]
  BY <1>2 DEF IInv, Unpublished
<1> QED BY <1>1, <1>2, <1>4, <1>5, <1>6, <1>7 DEF Gone, Seen, IInv

\* Every step keeps the replaced files gone.
LEMMA LastingStep ==
  ASSUME NoClash, SyncsHome, IInv, home = "durable", Lasting, [Next]_vars
  PROVE  Lasting'
<1> SUFFICES ASSUME NEW t \in Threads, pc'[t] \in {"syncdir", "ok"}
             PROVE  Gone(t)'
  BY DEF Lasting
<1> USE DEF Typed, TypeOK, Goto
<1>0. dir \in disk /\ calls \in Nat /\ \A i \in before[t] : i \in Nat
  <2>1. MaxCalls \in Nat
    BY WriteAtomicAssumption
  <2> QED BY <2>1 DEF IInv, None, Inodes
<1>1. ASSUME pc[t] \in {"syncdir", "ok"} PROVE Gone(t) /\ Good(t, dir)
  BY <1>0, <1>1 DEF Lasting, Gone, Seen
<1>2. ASSUME NEW u \in Threads, NEW d \in Payloads, NEW n \in Targets[u], Call(u, n, d)
      PROVE  Gone(t)'
  <2>1. u # t /\ pc'[t] = pc[t] /\ before'[t] = before[t] /\ arg'[t] = arg[t]
    BY <1>2 DEF Call, IInv
  <2>2. \A v \in Threads : Unpublished(v)' =>
          (Unpublished(v) /\ fd'[v] = fd[v]) \/ fd'[v] \notin before[t]
    BY <1>0, <1>1, <1>2, <2>1 DEF Call, IInv, Unpublished, Gone
  <2>3. Seen(t)' = Seen(t)
    BY <1>2, <2>1 DEF Call, Seen, fsVars
  <2> QED BY <1>0, <1>1, <1>2, <2>1, <2>2, <2>3, GoneKept DEF Call
<1>3. ASSUME NEW u \in Threads, MakeDir(u) \/ Write(u) \/ SyncFile(u) \/ SyncDir(u)
      PROVE  Gone(t)'
  <2>1. /\ pc[t] \in {"syncdir", "ok"} /\ UNCHANGED <<before, arg, fd, calls, dir>>
        /\ \A v \in Threads : Unpublished(v)' => Unpublished(v)
    BY <1>3 DEF MakeDir, Write, SyncFile, SyncDir, Fail, callVars, fsVars, IInv, Unpublished
  <2>2. ASSUME NEW img \in Seen(t)' PROVE img \in Seen(t) \/ Good(t, img)
    BY <1>0, <1>1, <1>3, <2>1
       DEF MakeDir, Write, SyncFile, SyncDir, Fail, callVars, fsVars, IInv, Seen, SyncsHome
  <2> QED BY <1>0, <1>1, <2>1, <2>2, GoneKept
<1>4. ASSUME NEW u \in Threads, CreateTemp(u) PROVE Gone(t)'
  <2>1. /\ u # t /\ pc[u] = "create" /\ pc'[t] = pc[t]
        /\ UNCHANGED <<before, arg, calls>> /\ Unpublished(u)
    BY <1>4 DEF CreateTemp, Fail, callVars, IInv, Unpublished
  <2>2. CASE UNCHANGED <<fd, dir, disk>>
    <3>1. \A v \in Threads : Unpublished(v)' => Unpublished(v)
      BY <1>4 DEF CreateTemp, Fail, IInv, Unpublished
    <3> QED BY <1>0, <1>1, <2>1, <2>2, <3>1, GoneKept DEF Seen
  <2>3. ASSUME NEW now \in ClockReadings, NEW e, NEW i,
               e = TempPath(arg[u].name, u, now), i = IF dir[e] = None THEN fd[u] ELSE dir[e],
               fd' = [fd EXCEPT ![u] = i], dir' = [dir EXCEPT ![e] = i],
               disk' = disk \cup {dir'}
        PROVE  Gone(t)'
    <3>1. e \in TempNames /\ e \in Entries
      BY <2>1, <2>3, TempIsEntry DEF IInv
    <3>2. i \notin before[t]
      BY <1>1, <2>1, <2>3, <3>1 DEF Gone, Good
    <3>3. \A v \in Threads : Unpublished(v)' =>
            (Unpublished(v) /\ fd'[v] = fd[v]) \/ fd'[v] \notin before[t]
      <4>1. \A v \in Threads : Unpublished(v)' => Unpublished(v)
        BY <1>4 DEF CreateTemp, Fail, IInv, Unpublished
      <4> QED BY <2>3, <3>2, <4>1 DEF IInv
    <3>4. arg[t].name # e /\ arg[t].name \in Entries
      BY <1>1, <2>1, <3>1, NamesApart DEF Gone
    <3>5. Good(t, dir')
      <4>1. dir'[arg[t].name] = dir[arg[t].name]
        BY <2>3, <3>4 DEF IInv
      <4>2. \A f \in TempNames : dir'[f] = IF f = e THEN i ELSE dir[f]
        BY <2>3, <3>1 DEF IInv, Entries
      <4> QED BY <1>1, <2>1, <3>2, <4>1, <4>2 DEF Good
    <3>6. \A img \in Seen(t)' : img \in Seen(t) \/ Good(t, img)
      BY <2>1, <2>3, <3>5 DEF Seen
    <3> QED BY <1>0, <1>1, <2>1, <3>3, <3>6, GoneKept
  <2> QED BY <1>4, <2>2, <2>3 DEF CreateTemp, Fail, callVars, fsVars
<1>5. ASSUME NEW u \in Threads, Rename(u) PROVE Gone(t)'
  <2>1. CASE u = t
    <3>1. pc'[t] = "syncdir"
      BY <1>5, <2>1 DEF Rename, Fail, IInv
    <3> QED BY <1>5, <2>1, <3>1, GoneSinceRename
  <2>2. CASE u # t
    <3>1. /\ pc[t] = pc'[t] /\ before'[t] = before[t] /\ UNCHANGED <<arg, fd, calls>>
          /\ \A v \in Threads : Unpublished(v)' => Unpublished(v)
      BY <1>5, <2>2 DEF Rename, Fail, callVars, IInv, Unpublished
    <3>2. CASE UNCHANGED <<dir, disk>>
      BY <1>0, <1>1, <3>1, <3>2, GoneKept DEF Seen
    <3>3. CASE /\ dir' = [dir EXCEPT ![arg[u].name] = dir[Own(u)], ![Own(u)] = None]
               /\ disk' = disk \cup {dir'}
      <4>1. pc[u] = "rename" /\ arg[u].name \in Names /\ Own(u) \in TempNames
        BY <1>5, TempIsEntry DEF Rename, IInv, Asked, Own
      <4>2. dir[Own(u)] \notin before[t]
        BY <1>1, <3>1, <4>1 DEF IInv, Filling, Gone, Unpublished
      <4>3. arg[t].name \in Names
        BY <1>1, <3>1 DEF Gone
      <4>4. Good(t, dir')
        <5>1. dir'[arg[t].name] \in {dir[arg[t].name], dir[Own(u)]}
          BY <3>3, <4>1, <4>3, NamesApart DEF IInv, Entries
        <5>2. \A e \in TempNames : dir'[e] \in {None, dir[e]}
          BY <3>3, <4>1, NamesApart DEF IInv, Entries
        <5> QED BY <1>1, <3>1, <4>2, <5>1, <5>2 DEF Good
      <4>5. \A img \in Seen(t)' : img \in Seen(t) \/ Good(t, img)
        BY <3>1, <3>3, <4>4 DEF Seen
      <4> QED BY <1>0, <1>1, <3>1, <4>5, GoneKept
    <3> QED BY <1>5, <3>2, <3>3 DEF Rename, Fail, fsVars, Own
  <2> QED BY <2>1, <2>2
<1>6. ASSUME NEW p, Kill(p) PROVE Gone(t)'
  <2>1. /\ pc[t] = pc'[t] /\ UNCHANGED <<before, arg, fd, calls, dir, disk>>
        /\ \A v \in Threads : Unpublished(v)' => Unpublished(v)
    BY <1>6 DEF Kill, callVars, fsVars, IInv, Unpublished
  <2> QED BY <1>0, <1>1, <2>1, GoneKept DEF Seen
<1>7. CASE PowerLoss
  <2>1. /\ pc[t] = "ok" /\ pc'[t] = "ok" /\ UNCHANGED <<before, arg, fd, calls>>
        /\ \A v \in Threads : Unpublished(v)' => Unpublished(v)
    BY <1>7 DEF PowerLoss, callVars, IInv, Unpublished, Idle
  <2>2. disk' = {dir'} /\ dir' \in disk
    BY <1>7 DEF PowerLoss
  <2> QED BY <1>0, <1>1, <2>1, <2>2, GoneKept DEF Seen
<1>8. CASE UNCHANGED vars
  BY <1>0, <1>1, <1>8, GoneKept DEF vars, callVars, fsVars, Seen, Unpublished
<1> QED BY <1>2, <1>3, <1>4, <1>5, <1>6, <1>7, <1>8 DEF Next, Step

\* Once write_atomic returned Ok, no power cut brings back what it replaced, if
\* the directory was there and its sync did not fail; the run new_directory
\* shows that the first of the two is needed.
THEOREM OkIsDurable == ASSUME NoClash, SyncsHome PROVE Spec => []AckedDurable
<1>1. Init => home = "durable" /\ Lasting
  BY DEF Init, Lasting, SyncsHome
<1>2. IInv /\ home = "durable" /\ Lasting /\ [Next]_vars => (home = "durable" /\ Lasting)'
  BY HomeStep, LastingStep
<1>3. home = "durable" /\ Lasting => AckedDurable
  BY DEF Lasting, Gone, Good, Seen, AckedDurable, CrashImages
<1> QED BY <1>1, <1>2, <1>3, Invariance, PTL DEF Spec

--------------------------------------------------------------------------------
(* Calls run down                                                              *)

\* How far a call is from its end: the system calls still to come and, while it
\* writes, the blocks.
Rank(t) == CASE pc[t] = "mkdir" -> 5 [] pc[t] = "create" -> 4 [] pc[t] = "write" -> 3
             [] pc[t] = "rename" -> 2 [] pc[t] = "syncdir" -> 1 [] OTHER -> 0
Rest(t) == Size[arg[t].data] - off[t]
Nearer(t) == \/ Rank(t)' < Rank(t)
             \/ Rank(t)' = Rank(t) /\ 0 <= Rest(t)' /\ Rest(t)' < Rest(t)
Stays(t) == UNCHANGED <<pc[t], arg[t], off[t]>>

\* Each system call of a call brings it nearer its end, and nothing anybody
\* else does takes it back, whoever shares its temp name (atomic.rs:15-51).
\* CallReturns needs no more than this and that a call can always go on.
THEOREM CallsRunDown ==
  Spec => [][\A t \in Threads : /\ Step(t) => Nearer(t)
                                /\ ~Idle(t) => Nearer(t) \/ Stays(t)]_vars
<1>1. ASSUME TypeOK, NEW t \in Threads, Step(t) PROVE Nearer(t)
  <2>1. Size[arg[t].data] \in Nat /\ off[t] \in Nat
    <3>1. arg[t].data \in Payloads /\ off[t] \in Nat BY <1>1 DEF TypeOK
    <3> QED BY <3>1, WriteAtomicAssumption
  <2> USE <1>1, <2>1 DEF TypeOK, Goto, Fail, callVars, fsVars
  <2>2. CASE MakeDir(t)
    BY <2>2 DEF MakeDir, Nearer, Rank
  <2>3. CASE CreateTemp(t)
    BY <2>3 DEF CreateTemp, Nearer, Rank
  <2>4. CASE Write(t)
    <3>1. CASE Fail(t, "write")
      BY <2>4, <3>1 DEF Write, Nearer, Rank
    <3>2. CASE ~Fail(t, "write")
      <4>1. /\ UNCHANGED <<pc, arg>> /\ off[t] < Size[arg[t].data] /\ off'[t] = off[t] + 1
        BY <2>4, <3>2 DEF Write
      <4>2. Rank(t)' = Rank(t)
        BY <4>1 DEF Rank
      <4>3. 0 <= Rest(t)' /\ Rest(t)' < Rest(t)
        BY <4>1 DEF Rest
      <4> QED BY <4>2, <4>3 DEF Nearer
    <3> QED BY <3>1, <3>2
  <2>5. CASE SyncFile(t)
    BY <2>5 DEF SyncFile, Nearer, Rank
  <2>6. CASE Rename(t)
    BY <2>6 DEF Rename, Nearer, Rank
  <2>7. CASE SyncDir(t)
    BY <2>7 DEF SyncDir, Nearer, Rank
  <2> QED BY <2>2, <2>3, <2>4, <2>5, <2>6, <2>7 DEF Step
<1>2. ASSUME TypeOK, NEW t \in Threads, ~Idle(t), Next, ~Step(t) PROVE Nearer(t) \/ Stays(t)
  <2> USE <1>2 DEF TypeOK, Goto, Fail, callVars, fsVars
  <2>1. ASSUME NEW u \in Threads, Step(u) PROVE Stays(t)
    <3>1. u # t
      BY <1>2, <2>1
    <3>2. arg' = arg
      <4>1. MakeDir(u) => arg' = arg BY DEF MakeDir
      <4>2. CreateTemp(u) => arg' = arg BY DEF CreateTemp
      <4>3. Write(u) => arg' = arg BY DEF Write
      <4>4. SyncFile(u) \/ Rename(u) \/ SyncDir(u) => arg' = arg BY DEF SyncFile, Rename, SyncDir
      <4> QED BY <2>1, <4>1, <4>2, <4>3, <4>4 DEF Step
    <3>3. pc'[t] = pc[t]
      <4>1. MakeDir(u) => pc'[t] = pc[t] BY <3>1 DEF MakeDir
      <4>2. CreateTemp(u) => pc'[t] = pc[t] BY <3>1 DEF CreateTemp
      <4>3. Write(u) \/ SyncFile(u) => pc'[t] = pc[t] BY <3>1 DEF Write, SyncFile
      <4>4. Rename(u) \/ SyncDir(u) => pc'[t] = pc[t] BY <3>1 DEF Rename, SyncDir
      <4> QED BY <2>1, <4>1, <4>2, <4>3, <4>4 DEF Step
    <3>4. off'[t] = off[t]
      <4>1. MakeDir(u) => off'[t] = off[t] BY <3>1 DEF MakeDir
      <4>2. CreateTemp(u) => off'[t] = off[t] BY <3>1 DEF CreateTemp
      <4>3. Write(u) \/ SyncFile(u) => off'[t] = off[t] BY <3>1 DEF Write, SyncFile
      <4>4. Rename(u) \/ SyncDir(u) => off'[t] = off[t] BY <3>1 DEF Rename, SyncDir
      <4> QED BY <2>1, <4>1, <4>2, <4>3, <4>4 DEF Step
    <3> QED BY <3>2, <3>3, <3>4 DEF Stays
  <2>2. ASSUME NEW u \in Threads, NEW d \in Payloads, NEW n \in Targets[u], Call(u, n, d)
        PROVE  Stays(t)
    BY <2>2 DEF Call, Stays, Idle
  <2>3. ASSUME NEW u \in Threads, Kill(ProcessOf[u]) PROVE Nearer(t) \/ Stays(t)
    <3>1. pc'[t] \in {"killed", pc[t]} /\ UNCHANGED <<arg, off>>
      BY <2>3 DEF Kill
    <3> QED BY <3>1 DEF Nearer, Stays, Rank, Idle
  <2>4. CASE PowerLoss
    <3>1. pc'[t] = "killed"
      BY <2>4 DEF PowerLoss
    <3> QED BY <3>1 DEF Nearer, Rank, Idle
  <2> QED BY <1>2, <2>1, <2>2, <2>3, <2>4 DEF Next
<1>3. TypeOK /\ [Next]_vars =>
        [\A t \in Threads : /\ Step(t) => Nearer(t)
                            /\ ~Idle(t) => Nearer(t) \/ Stays(t)]_vars
  <2> SUFFICES ASSUME TypeOK, Next, NEW t \in Threads
               PROVE  (Step(t) => Nearer(t)) /\ (~Idle(t) => Nearer(t) \/ Stays(t))
    OBVIOUS
  <2> QED BY <1>1, <1>2
<1> QED BY <1>3, TypeCorrect, PTL DEF Spec
================================================================================
