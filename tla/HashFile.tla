------------------------------- MODULE HashFile -------------------------------
(***************************************************************************)
(* nyx_core::hash::hash_file (crates/nyx-core/src/hash.rs) reading a file  *)
(* that other processes keep replacing through write_atomic.  The writers  *)
(* are AtomicFile, which WriteAtomic implements; that an opened file never *)
(* changes is WriteAtomic's PublishedFrozen.  BLAKE3 is external and taken *)
(* to tell the versions apart.                                             *)
(***************************************************************************)
EXTENDS Naturals, Sequences

CONSTANTS
  Readers,    \* threads that hash files
  Names,      \* files
  Versions,   \* complete contents write_atomic is given
  Absent,     \* no file
  Size,       \* blocks of each version
  Buffer,     \* blocks the read buffer holds
  HashLen,    \* bytes of a hash (32)
  Blake3(_),  \* the hash of a sequence of blocks
  MaxCalls,   \* bound: calls of hash_file
  MaxFaults   \* bound: reads that fail

Blocks(v) == [b \in 1 .. Size[v] |-> <<v, b>>]
Hash == [1 .. HashLen -> 0 .. 255]

ASSUME HashFileAssumption ==
  /\ Absent \notin Versions /\ Names # {}
  /\ Size \in [Versions -> Nat]
  /\ Buffer \in Nat \ {0} /\ HashLen \in Nat \ {0, 1}
  /\ \A v \in Versions : Blake3(Blocks(v)) \in Hash
  /\ \A v, w \in Versions : Blake3(Blocks(v)) = Blake3(Blocks(w)) => v = w
  /\ MaxCalls \in Nat /\ MaxFaults \in Nat

VARIABLES
  visible, possible,  \* the files, as AtomicFile has them
  pc,                 \* where each reader is
  path,               \* the file it was asked for
  file,               \* content of the inode it has open
  pos,                \* file offset
  buf,                \* the buffer, stale blocks included
  hasher,             \* blocks fed to the hasher
  during,             \* history: versions the path had during the call
  calls, faults

fileVars   == <<visible, possible>>
readerVars == <<pc, path, file, pos, buf, hasher>>
vars       == <<fileVars, readerVars, during, calls, faults>>

Files == INSTANCE AtomicFile WITH Payloads <- Versions

Unwritten == <<"zeroed", 0>>
Slots == 1 .. Buffer

\* Seeded bug: bytes below 16 get one digit.
ToHexUnpadded(h) ==
  LET digits[k \in 0 .. Len(h)] ==
        IF k = 0 THEN <<>>
        ELSE digits[k - 1] \o (IF h[k] < 16 THEN <<h[k]>> ELSE <<h[k] \div 16, h[k] % 16>>)
  IN  digits[Len(h)]

\* Two digits a byte.
to_hex(h) == [i \in 1 .. 2 * Len(h) |-> IF i % 2 = 1 THEN h[(i + 1) \div 2] \div 16 ELSE h[i \div 2] % 16]

\* Where a cache keeps what belongs to a content.
shard_path(h) == <<SubSeq(to_hex(h), 1, 2), SubSeq(to_hex(h), 3, 4), to_hex(h)>>

hash_bytes(data) == Blake3(data)

Idle(r) == pc[r] \in {"ready", "ok", "err"}
Left(r) == Len(file[r]) - pos[r]

Init ==
  /\ Files!Init
  /\ pc = [r \in Readers |-> "ready"]
  /\ path = [r \in Readers |-> CHOOSE n \in Names : TRUE]
  /\ file = [r \in Readers |-> <<>>]
  /\ pos = [r \in Readers |-> 0]
  /\ buf = [r \in Readers |-> [s \in Slots |-> Unwritten]]
  /\ hasher = [r \in Readers |-> <<>>]
  /\ during = [r \in Readers |-> {}]
  /\ calls = 0 /\ faults = 0

\* write_atomic, in another process.
Replace(n, v) ==
  /\ Files!Replace(n, v)
  /\ during' = [r \in Readers |-> IF ~Idle(r) /\ path[r] = n THEN during[r] \cup {v} ELSE during[r]]
  /\ UNCHANGED <<readerVars, calls, faults>>

Call(r, n) ==
  /\ Idle(r) /\ calls < MaxCalls
  /\ pc' = [pc EXCEPT ![r] = "open"]
  /\ path' = [path EXCEPT ![r] = n]
  /\ during' = [during EXCEPT ![r] = {visible[n]} \ {Absent}]
  /\ calls' = calls + 1
  /\ UNCHANGED <<fileVars, file, pos, buf, hasher, faults>>

\* File::open fails where there is no file.  The buffer is a new one.
Open(r) ==
  /\ pc[r] = "open"
  /\ IF visible[path[r]] = Absent
     THEN pc' = [pc EXCEPT ![r] = "err"] /\ UNCHANGED <<file, pos, buf, hasher>>
     ELSE /\ pc' = [pc EXCEPT ![r] = "read"]
          /\ file' = [file EXCEPT ![r] = Blocks(visible[path[r]])]
          /\ pos' = [pos EXCEPT ![r] = 0]
          /\ buf' = [buf EXCEPT ![r] = [s \in Slots |-> Unwritten]]
          /\ hasher' = [hasher EXCEPT ![r] = <<>>]
  /\ UNCHANGED <<fileVars, path, during, calls, faults>>

\* read(2) puts n blocks at the front of the buffer; the rest keeps what it had.
Filled(r, n) == [s \in Slots |-> IF s <= n THEN file[r][pos[r] + s] ELSE buf[r][s]]

\* A read returned n blocks, `fed' of them go to the hasher, and the loop is
\* left when `done'.
Got(r, n, fed, done) ==
  /\ pc[r] = "read"
  /\ buf' = [buf EXCEPT ![r] = Filled(r, n)]
  /\ pos' = [pos EXCEPT ![r] = @ + n]
  /\ hasher' = [hasher EXCEPT ![r] = @ \o SubSeq(buf'[r], 1, fed)]
  /\ pc' = [pc EXCEPT ![r] = IF done THEN "ok" ELSE "read"]
  /\ UNCHANGED <<fileVars, path, file, during, calls, faults>>

\* A short read is as good as a long one; zero is the end of the file only.
ReadSizes(r) == IF Left(r) = 0 THEN {0} ELSE {n \in Slots : n <= Left(r)}

\* Seeded bugs: the whole buffer is hashed; a short read ends the loop;
\* nothing does.
ReadWholeBuffer(r) == \E n \in ReadSizes(r) : Got(r, n, IF n = 0 THEN 0 ELSE Buffer, n = 0)
ReadUntilShort(r) == \E n \in ReadSizes(r) : Got(r, n, n, n < Buffer)
ReadForever(r) == \E n \in ReadSizes(r) : Got(r, n, n, FALSE)

\* One turn of the loop.
Read(r) == \E n \in ReadSizes(r) : Got(r, n, n, n = 0)

\* `?': any error of a read ends the call, an interrupted one included.
ReadFails(r) ==
  /\ pc[r] = "read" /\ faults < MaxFaults
  /\ faults' = faults + 1
  /\ pc' = [pc EXCEPT ![r] = "err"]
  /\ UNCHANGED <<fileVars, path, file, pos, buf, hasher, during, calls>>

\* What a call that returned Ok returned.
FileHash(r) == Blake3(hasher[r])

Step(r) == Open(r) \/ Read(r) \/ ReadFails(r)

Next == \/ \E n \in Names, v \in Versions : Replace(n, v)
        \/ \E r \in Readers : Step(r) \/ \E n \in Names : Call(r, n)

\* A reader inside a call is scheduled; writers are free to go on for ever.
Spec == Init /\ [][Next]_vars /\ \A r \in Readers : WF_vars(Step(r))

--------------------------------------------------------------------------------
(* Properties                                                                  *)

AllBlocks == UNION {{<<v, b>> : b \in 1 .. Size[v]} : v \in Versions}

TypeOK ==
  /\ visible \in Files!Contents /\ possible \subseteq Files!Contents
  /\ pc \in [Readers -> {"ready", "open", "read", "ok", "err"}]
  /\ path \in [Readers -> Names]
  /\ file \in [Readers -> {<<>>} \cup {Blocks(v) : v \in Versions}]
  /\ pos \in [Readers -> Nat] /\ buf \in [Readers -> [Slots -> AllBlocks \cup {Unwritten}]]
  /\ hasher \in [Readers -> Seq(AllBlocks)]
  /\ \A r \in Readers : Len(hasher[r]) = pos[r] /\ pos[r] <= Len(file[r])
  /\ during \in [Readers -> SUBSET Versions]
  /\ calls \in 0 .. MaxCalls /\ faults \in 0 .. MaxFaults

\* However the reads are cut and whoever replaces the file meanwhile, the hash
\* is hash_bytes of one complete version, and of one the path had during the
\* call (hash.rs:36-50; the test file_hash_matches_bytes_hash says it of a file
\* nobody touches).
HashOfOneVersion ==
  \A r \in Readers :
    pc[r] = "ok" => \E v \in during[r] : FileHash(r) = hash_bytes(Blocks(v))

\* Two calls name the same place in a cache if and only if they hashed the same
\* content, whenever and in whatever pieces they read it (hash.rs:3-4, 24-25).
ShardIsIdentity ==
  \A r, s \in Readers :
    pc[r] = "ok" /\ pc[s] = "ok" =>
      (shard_path(FileHash(r)) = shard_path(FileHash(s)) <=> hasher[r] = hasher[s])

\* hash_file returns, although its file may be replaced again and again.
HashReturns == \A r \in Readers : ~Idle(r) ~> Idle(r)
================================================================================
