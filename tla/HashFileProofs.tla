---------------------------- MODULE HashFileProofs ----------------------------
(***************************************************************************)
(* What a hash says, for any number of readers and files, any sizes and    *)
(* buffer, however files are replaced and reads cut: theorems about        *)
(* HashFile.                                                               *)
(***************************************************************************)
EXTENDS HashFile, TLAPS, SequenceTheorems

\* The hasher has been fed what of the file is read, and at the end all of it.
Fed == \A r \in Readers :
         /\ hasher[r] = SubSeq(file[r], 1, pos[r])
         /\ pc[r] = "ok" => pos[r] = Len(file[r])

\* What is open is a version the path had during the call; before the open the
\* path's version is one of them, and if there is none there was none.
Opened == \A r \in Readers :
            /\ pc[r] \in {"read", "ok"} => \E v \in during[r] : file[r] = Blocks(v)
            /\ pc[r] = "open" => during[r] = {} \/ visible[path[r]] \in during[r] \ {Absent}
            /\ pc[r] = "open" /\ during[r] = {} => visible[path[r]] = Absent

IInv == TypeOK /\ Fed /\ Opened

--------------------------------------------------------------------------------
(* Sequences of blocks                                                         *)

\* The blocks of a version are a sequence.
LEMMA BlocksSeq ==
  ASSUME NEW v \in Versions
  PROVE  /\ Blocks(v) \in Seq(AllBlocks) /\ Len(Blocks(v)) = Size[v]
         /\ Size[v] \in Nat
<1>1. Size[v] \in Nat
  BY HashFileAssumption
<1>2. Blocks(v) \in [1 .. Size[v] -> AllBlocks]
  BY DEF Blocks, AllBlocks
<1> QED BY <1>1, <1>2

\* So is an open file.
LEMMA FileSeq ==
  ASSUME TypeOK, NEW r \in Readers
  PROVE  file[r] \in Seq(AllBlocks) /\ Len(file[r]) \in Nat
<1>1. CASE file[r] = <<>>
  BY <1>1, EmptySeq
<1>2. CASE \E v \in Versions : file[r] = Blocks(v)
  BY <1>2, BlocksSeq
<1> QED BY <1>1, <1>2 DEF TypeOK

\* A part of a sequence has the elements of that part.
LEMMA Part ==
  ASSUME NEW S, NEW data \in Seq(S), NEW p \in Nat, NEW n \in Nat, p + n <= Len(data)
  PROVE  /\ SubSeq(data, p + 1, p + n) \in Seq(S)
         /\ Len(SubSeq(data, p + 1, p + n)) = n
         /\ \A i \in 1 .. n : SubSeq(data, p + 1, p + n)[i] = data[p + i]
<1>1. \A i \in p + 1 .. p + n : data[i] \in S
  BY ElementOfSeq, LenProperties
<1>2. /\ p + 1 \in Int /\ p + n \in Int
      /\ (IF p + 1 <= p + n THEN (p + n) - (p + 1) + 1 ELSE 0) = n
      /\ 1 .. (p + n) - (p + 1) + 1 = 1 .. n
      /\ \A i \in 1 .. n : p + 1 + i - 1 = p + i
  OBVIOUS
<1> DEFINE a == p + 1
           b == p + n
<1> HIDE DEF a, b
<1>3. /\ SubSeq(data, a, b) \in Seq(S)
      /\ Len(SubSeq(data, a, b)) = IF a <= b THEN b - a + 1 ELSE 0
      /\ \A i \in 1 .. b - a + 1 : SubSeq(data, a, b)[i] = data[a + i - 1]
  <2>1. a \in Int /\ b \in Int /\ \A i \in a .. b : data[i] \in S
    BY <1>1, <1>2 DEF a, b
  <2> QED BY <2>1, SubSeqProperties
<1> QED BY <1>2, <1>3 DEF a, b

\* A read puts the next n blocks of the file at the front of the buffer.
LEMMA FilledFront ==
  ASSUME TypeOK, NEW r \in Readers, NEW n \in 0 .. Buffer, pos[r] + n <= Len(file[r])
  PROVE  /\ Filled(r, n) \in [Slots -> AllBlocks \cup {Unwritten}]
         /\ SubSeq(Filled(r, n), 1, n) = SubSeq(file[r], pos[r] + 1, pos[r] + n)
<1> DEFINE S == AllBlocks \cup {Unwritten}
<1>1. /\ Buffer \in Nat /\ pos[r] \in Nat /\ n \in Nat
      /\ buf[r] \in [Slots -> S]
  BY FileSeq, HashFileAssumption DEF TypeOK
<1>2. \A s \in 1 .. n : s \in Slots /\ Filled(r, n)[s] = file[r][pos[r] + s] /\ file[r][pos[r] + s] \in S
  <2>1. \A i \in 1 .. Len(file[r]) : file[r][i] \in S
    BY FileSeq, ElementOfSeq
  <2> QED BY <1>1, <2>1, FileSeq DEF Slots, Filled
<1>3. Filled(r, n) \in [Slots -> S]
  <2>1. \A s \in Slots : (IF s <= n THEN file[r][pos[r] + s] ELSE buf[r][s]) \in S
    BY <1>1, <1>2 DEF Slots
  <2> QED BY <2>1 DEF Filled
<1> DEFINE a == SubSeq(Filled(r, n), 1, n)
           b == SubSeq(file[r], pos[r] + 1, pos[r] + n)
<1>4. a \in Seq(S) /\ Len(a) = n /\ \A i \in 1 .. n : a[i] = Filled(r, n)[i]
  <2>1. \A i \in 1 .. n : Filled(r, n)[i] \in S
    BY <1>2
  <2> HIDE DEF S
  <2> QED BY <1>1, <2>1, SubSeqProperties
<1>5. b \in Seq(S) /\ Len(b) = n /\ \A i \in 1 .. n : b[i] = file[r][pos[r] + i]
  <2>1. file[r] \in Seq(S)
    BY FileSeq, SeqMonotonic
  <2>2. pos[r] \in Nat /\ n \in Nat /\ pos[r] + n <= Len(file[r])
    BY <1>1
  <2> HIDE DEF S
  <2>3. \A data \in Seq(S), p, m \in Nat :
          p + m <= Len(data) =>
            /\ SubSeq(data, p + 1, p + m) \in Seq(S)
            /\ Len(SubSeq(data, p + 1, p + m)) = m
            /\ \A k \in 1 .. m : SubSeq(data, p + 1, p + m)[k] = data[p + k]
    BY Part
  <2> QED BY <2>1, <2>2, <2>3
<1> HIDE DEF a, b, S
<1>6. a = b
  BY <1>2, <1>4, <1>5, SeqEqual
<1> QED BY <1>3, <1>6 DEF a, b, S

--------------------------------------------------------------------------------
(* The invariant                                                               *)

\* Readers start with nothing.
LEMMA InitInv == Init => IInv
<1> SUFFICES ASSUME Init PROVE IInv
  OBVIOUS
<1>1. TypeOK
  BY HashFileAssumption DEF Init, TypeOK, Files!Init, Files!Contents, Idle
<1>2. Fed
  <2>1. SubSeq(<<>>, 1, 0) = <<>>
    BY SubSeqEmpty
  <2> QED BY <2>1 DEF Init, Fed
<1>3. Opened
  BY DEF Init, Opened
<1> QED BY <1>1, <1>2, <1>3 DEF IInv

\* A file gets another version; what is open stays as it is.
LEMMA ReplaceInv ==
  ASSUME IInv, NEW n \in Names, NEW v \in Versions, Replace(n, v)
  PROVE  IInv'
<1> USE DEF IInv
<1>1. /\ visible' = [visible EXCEPT ![n] = v] /\ possible' = possible \cup {visible'}
      /\ during' = [r \in Readers |-> IF ~Idle(r) /\ path[r] = n THEN during[r] \cup {v} ELSE during[r]]
      /\ UNCHANGED <<pc, path, file, pos, buf, hasher, calls, faults>>
  BY DEF Replace, Files!Replace, readerVars
<1>2. visible' \in Files!Contents
  BY <1>1 DEF TypeOK, Files!Contents
<1>3. during' \in [Readers -> SUBSET Versions]
  BY <1>1 DEF TypeOK
<1>4. TypeOK'
  BY <1>1, <1>2, <1>3 DEF TypeOK
<1>5. Fed'
  BY <1>1 DEF Fed
<1>6. Opened'
  <2> SUFFICES ASSUME NEW r \in Readers
               PROVE  /\ pc'[r] \in {"read", "ok"} => \E w \in during'[r] : file'[r] = Blocks(w)
                      /\ pc'[r] = "open" => during'[r] = {} \/ visible'[path'[r]] \in during'[r] \ {Absent}
                      /\ pc'[r] = "open" /\ during'[r] = {} => visible'[path'[r]] = Absent
    BY DEF Opened
  <2>1. during[r] \subseteq during'[r]
    BY <1>1
  <2>2. CASE pc[r] = "open" /\ path[r] = n
    <3>1. during'[r] = during[r] \cup {v} /\ visible'[path[r]] = v
      BY <1>1, <2>2 DEF Idle, TypeOK, Files!Contents
    <3> QED BY <1>1, <2>2, <3>1, HashFileAssumption
  <2>3. CASE pc[r] = "open" /\ path[r] # n
    <3>1. during'[r] = during[r] /\ visible'[path[r]] = visible[path[r]]
      BY <1>1, <2>3 DEF TypeOK, Files!Contents
    <3> QED BY <1>1, <2>3, <3>1 DEF Opened
  <2>4. CASE pc[r] # "open"
    BY <1>1, <2>1, <2>4 DEF Opened
  <2> QED BY <2>2, <2>3, <2>4
<1> QED BY <1>4, <1>5, <1>6

\* A call notes the version there is.
LEMMA CallInv ==
  ASSUME IInv, NEW r \in Readers, NEW n \in Names, Call(r, n)
  PROVE  IInv'
<1> USE DEF IInv, Call, fileVars
<1>1. visible[n] \in Versions \cup {Absent}
  BY DEF TypeOK, Files!Contents
<1>2. TypeOK'
  BY <1>1, HashFileAssumption DEF TypeOK
<1>3. Fed'
  BY DEF Fed, TypeOK
<1>4. Opened'
  BY <1>1 DEF Opened, TypeOK
<1> QED BY <1>2, <1>3, <1>4

\* The open takes the version of that moment, which was noted.
LEMMA OpenInv ==
  ASSUME IInv, NEW r \in Readers, Open(r)
  PROVE  IInv'
<1> USE DEF IInv, Open, fileVars
<1>1. CASE visible[path[r]] = Absent
  <2>1. TypeOK'
    BY <1>1 DEF TypeOK
  <2>2. pc' = [pc EXCEPT ![r] = "err"]
        /\ UNCHANGED <<visible, path, file, pos, hasher, during>>
    BY <1>1
  <2> HIDE DEF Open
  <2>3. Fed'
    BY <2>2 DEF Fed, TypeOK
  <2>4. Opened'
    BY <2>2 DEF Opened, TypeOK
  <2> QED BY <2>1, <2>3, <2>4
<1>2. CASE visible[path[r]] # Absent
  <2> DEFINE v == visible[path[r]]
  <2>1. v \in during[r] /\ v \in Versions
    BY <1>2 DEF Opened, TypeOK
  <2>2. /\ file' = [file EXCEPT ![r] = Blocks(v)] /\ pos' = [pos EXCEPT ![r] = 0]
        /\ buf' = [buf EXCEPT ![r] = [s \in Slots |-> Unwritten]]
        /\ hasher' = [hasher EXCEPT ![r] = <<>>] /\ pc' = [pc EXCEPT ![r] = "read"]
        /\ UNCHANGED <<visible, possible, path, during, calls, faults>>
    BY <1>2
  <2>3. SubSeq(Blocks(v), 1, 0) = <<>> /\ Len(<<>>) = 0 /\ Len(Blocks(v)) \in Nat
    BY <2>1, SubSeqEmpty, BlocksSeq
  <2> HIDE DEF v, Open
  <2>4. TypeOK'
    <3>1. /\ file' \in [Readers -> {<<>>} \cup {Blocks(w) : w \in Versions}]
          /\ pos' \in [Readers -> Nat] /\ pc' \in [Readers -> {"ready", "open", "read", "ok", "err"}]
      BY <2>1, <2>2 DEF TypeOK
    <3>2. buf' \in [Readers -> [Slots -> AllBlocks \cup {Unwritten}]]
      BY <2>2 DEF TypeOK
    <3>3. hasher' \in [Readers -> Seq(AllBlocks)]
      BY <2>2, EmptySeq DEF TypeOK
    <3>4. \A s \in Readers : Len(hasher'[s]) = pos'[s] /\ pos'[s] <= Len(file'[s])
      <4> TAKE s \in Readers
      <4>1. CASE s = r
        BY <2>2, <2>3, <4>1 DEF TypeOK
      <4>2. CASE s # r
        BY <2>2, <4>2 DEF TypeOK
      <4> QED BY <4>1, <4>2
    <3> QED BY <2>2, <3>1, <3>2, <3>3, <3>4 DEF TypeOK
  <2>5. Fed'
    BY <2>2, <2>3 DEF Fed, TypeOK
  <2>6. Opened'
    BY <2>1, <2>2 DEF Opened, TypeOK
  <2> QED BY <2>4, <2>5, <2>6
<1> QED BY <1>1, <1>2

\* A read of any length feeds the hasher the blocks that come next.
LEMMA ReadInv ==
  ASSUME IInv, NEW r \in Readers, Read(r)
  PROVE  IInv'
<1> USE DEF IInv
<1>1. PICK n \in ReadSizes(r) : Got(r, n, n, n = 0)
  BY DEF Read
<1>2. /\ Len(file[r]) \in Nat /\ pos[r] \in 0 .. Len(file[r]) /\ Buffer \in Nat
      /\ file[r] \in Seq(AllBlocks)
  BY FileSeq, HashFileAssumption DEF TypeOK
<1>3. n \in 0 .. Buffer /\ pos[r] + n <= Len(file[r]) /\ (n = 0 => pos[r] = Len(file[r]))
  BY <1>2 DEF ReadSizes, Left, Slots
<1>4. /\ Filled(r, n) \in [Slots -> AllBlocks \cup {Unwritten}]
      /\ SubSeq(Filled(r, n), 1, n) = SubSeq(file[r], pos[r] + 1, pos[r] + n)
  BY <1>3, FilledFront
<1>5. /\ buf' = [buf EXCEPT ![r] = Filled(r, n)] /\ pos' = [pos EXCEPT ![r] = @ + n]
      /\ hasher' = [hasher EXCEPT ![r] = @ \o SubSeq(buf'[r], 1, n)]
      /\ pc' = [pc EXCEPT ![r] = IF n = 0 THEN "ok" ELSE "read"]
      /\ UNCHANGED <<visible, possible, path, file, during, calls, faults>>
      /\ pc[r] = "read"
  BY <1>1 DEF Got, fileVars
<1>6. buf'[r] = Filled(r, n) /\ pos'[r] = pos[r] + n
  BY <1>5 DEF TypeOK
<1>7. hasher'[r] = SubSeq(file[r], 1, pos[r] + n)
  <2>1. SubSeq(file[r], 1, pos[r]) \o SubSeq(file[r], pos[r] + 1, pos[r] + n)
          = SubSeq(file[r], 1, pos[r] + n)
    <3>1. 1 \in 1 .. Len(file[r]) + 1 /\ pos[r] \in 1 - 1 .. Len(file[r])
          /\ pos[r] + n \in pos[r] .. Len(file[r])
      BY <1>2, <1>3
    <3> QED BY <1>2, <3>1, ConcatAdjacentSubSeq
  <2>2. hasher'[r] = SubSeq(file[r], 1, pos[r]) \o SubSeq(buf'[r], 1, n)
    BY <1>5 DEF Fed, TypeOK
  <2> QED BY <1>4, <1>6, <2>1, <2>2
<1>8. /\ Len(SubSeq(file[r], 1, pos[r] + n)) = pos[r] + n
      /\ SubSeq(file[r], 1, pos[r] + n) \in Seq(AllBlocks)
  <2>1. SubSeq(file[r], 0 + 1, 0 + (pos[r] + n)) = SubSeq(file[r], 1, pos[r] + n)
    BY <1>2, <1>3
  <2>2. pos[r] + n \in Nat /\ 0 + (pos[r] + n) <= Len(file[r]) /\ 0 \in Nat
    BY <1>2, <1>3
  <2> QED BY <1>2, <2>1, <2>2, Part
<1>9. TypeOK'
  <2>1. /\ file' = file /\ pos' \in [Readers -> Nat]
        /\ pc' \in [Readers -> {"ready", "open", "read", "ok", "err"}]
    BY <1>2, <1>3, <1>5, <1>6 DEF TypeOK
  <2>2. buf' \in [Readers -> [Slots -> AllBlocks \cup {Unwritten}]]
    BY <1>4, <1>5 DEF TypeOK
  <2>3. hasher'[r] \in Seq(AllBlocks) /\ Len(hasher'[r]) = pos'[r] /\ pos'[r] <= Len(file'[r])
    BY <1>3, <1>5, <1>6, <1>7, <1>8
  <2>4. \A s \in Readers \ {r} : hasher'[s] = hasher[s] /\ pos'[s] = pos[s]
    BY <1>5 DEF TypeOK
  <2>5. hasher' \in [Readers -> Seq(AllBlocks)]
    BY <1>5, <2>3, <2>4 DEF TypeOK
  <2>6. \A s \in Readers : Len(hasher'[s]) = pos'[s] /\ pos'[s] <= Len(file'[s])
    BY <2>1, <2>3, <2>4 DEF TypeOK
  <2> QED BY <1>5, <2>1, <2>2, <2>5, <2>6 DEF TypeOK
<1>10. Fed'
  <2> SUFFICES ASSUME NEW s \in Readers
               PROVE  /\ hasher'[s] = SubSeq(file'[s], 1, pos'[s])
                      /\ pc'[s] = "ok" => pos'[s] = Len(file'[s])
    BY DEF Fed
  <2>1. CASE s = r
    <3>1. pc'[r] = "ok" => n = 0
      BY <1>5 DEF TypeOK
    <3> QED BY <1>2, <1>3, <1>5, <1>6, <1>7, <2>1, <3>1
  <2>2. CASE s # r
    BY <1>5, <2>2 DEF Fed
  <2> QED BY <2>1, <2>2
<1>11. Opened'
  BY <1>5 DEF Opened, TypeOK
<1> QED BY <1>9, <1>10, <1>11

\* IInv is inductive.
LEMMA Inductive == IInv /\ [Next]_vars => IInv'
<1> SUFFICES ASSUME IInv, [Next]_vars PROVE IInv'
  OBVIOUS
<1>1. ASSUME NEW r \in Readers, ReadFails(r) PROVE IInv'
  <2>1. TypeOK'
    BY <1>1, HashFileAssumption DEF IInv, ReadFails, TypeOK, fileVars
  <2>2. Fed' /\ Opened'
    BY <1>1 DEF IInv, ReadFails, TypeOK, Fed, Opened, fileVars
  <2> QED BY <2>1, <2>2 DEF IInv
<1>2. CASE UNCHANGED vars
  BY <1>2 DEF vars, fileVars, readerVars, IInv, TypeOK, Fed, Opened
<1> QED BY <1>1, <1>2, ReplaceInv, CallInv, OpenInv, ReadInv DEF Next, Step

\* IInv holds throughout.
LEMMA Invariance == Spec => []IInv
BY InitInv, Inductive, PTL DEF Spec

--------------------------------------------------------------------------------
(* Theorems                                                                    *)

\* Every reachable state has the declared shape.
THEOREM TypeCorrect == Spec => []TypeOK
<1>1. IInv => TypeOK
  BY DEF IInv
<1> QED BY <1>1, Invariance, PTL

\* A finished hasher has been fed exactly one version the path had meanwhile.
LEMMA WholeVersion ==
  ASSUME IInv, NEW r \in Readers, pc[r] = "ok"
  PROVE  \E v \in during[r] : v \in Versions /\ hasher[r] = Blocks(v)
<1>1. PICK v \in during[r] : file[r] = Blocks(v)
  BY DEF IInv, Opened
<1>2. v \in Versions
  BY DEF IInv, TypeOK
<1>3. hasher[r] = SubSeq(Blocks(v), 1, Len(Blocks(v)))
  BY <1>1 DEF IInv, Fed
<1>4. hasher[r] = Blocks(v)
  BY <1>2, <1>3, BlocksSeq, SubSeqFull
<1> QED BY <1>2, <1>4

\* However reads are cut and files replaced, a hash is of one version.
THEOREM OneVersion == Spec => []HashOfOneVersion
<1>1. IInv => HashOfOneVersion
  BY WholeVersion DEF HashOfOneVersion, FileHash, hash_bytes
<1> QED BY <1>1, Invariance, PTL

\* Hex digits determine the bytes (hash.rs:14-22).
LEMMA HexInjective ==
  ASSUME NEW g \in Hash, NEW h \in Hash, to_hex(g) = to_hex(h)
  PROVE  g = h
<1>1. HashLen \in Nat
  BY HashFileAssumption
<1>2. Len(g) = HashLen /\ Len(h) = HashLen
  BY <1>1 DEF Hash
<1>3. ASSUME NEW x \in Int, NEW y \in Int, x \div 16 = y \div 16, x % 16 = y % 16
      PROVE  x = y
  BY <1>3
<1>4. ASSUME NEW i \in 1 .. HashLen PROVE g[i] = h[i]
  <2> DEFINE a == 2 * i - 1
             b == 2 * i
  <2>1. /\ a \in 1 .. 2 * HashLen /\ b \in 1 .. 2 * HashLen
        /\ a % 2 = 1 /\ b % 2 = 0 /\ (a + 1) \div 2 = i /\ b \div 2 = i
    BY <1>1
  <2> HIDE DEF a, b
  <2>2. to_hex(g)[a] = g[i] \div 16 /\ to_hex(h)[a] = h[i] \div 16
    BY <1>2, <2>1 DEF to_hex
  <2>3. to_hex(g)[b] = g[i] % 16 /\ to_hex(h)[b] = h[i] % 16
    BY <1>2, <2>1 DEF to_hex
  <2>4. g[i] \in 0 .. 255 /\ h[i] \in 0 .. 255
    BY DEF Hash
  <2>5. g[i] \div 16 = h[i] \div 16 /\ g[i] % 16 = h[i] % 16
    BY <2>2, <2>3
  <2>6. g[i] \in Int /\ h[i] \in Int
    BY <2>4
  <2> QED BY <1>3, <2>5, <2>6
<1>5. g = [i \in 1 .. HashLen |-> g[i]] /\ h = [i \in 1 .. HashLen |-> h[i]]
  BY DEF Hash
<1>6. [i \in 1 .. HashLen |-> g[i]] = [i \in 1 .. HashLen |-> h[i]]
  BY <1>4
<1> QED BY <1>5, <1>6

\* Two calls name the same place in a cache exactly if they hashed the same
\* content.
THEOREM SameShardSameContent == Spec => []ShardIsIdentity
<1>1. ASSUME IInv, NEW r \in Readers, NEW s \in Readers, pc[r] = "ok", pc[s] = "ok",
             shard_path(FileHash(r)) = shard_path(FileHash(s))
      PROVE  hasher[r] = hasher[s]
  <2>1. PICK v \in Versions : hasher[r] = Blocks(v)
    BY <1>1, WholeVersion
  <2>2. PICK w \in Versions : hasher[s] = Blocks(w)
    BY <1>1, WholeVersion
  <2>3. to_hex(FileHash(r)) = to_hex(FileHash(s))
    BY <1>1 DEF shard_path
  <2>4. FileHash(r) = FileHash(s)
    BY <2>1, <2>2, <2>3, HexInjective, HashFileAssumption DEF FileHash
  <2> QED BY <2>1, <2>2, <2>4, HashFileAssumption DEF FileHash
<1>2. IInv => ShardIsIdentity
  BY <1>1 DEF ShardIsIdentity, FileHash
<1> QED BY <1>2, Invariance, PTL

--------------------------------------------------------------------------------
(* Calls run down                                                              *)

\* How far a call is from its end: what of the file it has open is not read yet.
Rank(r) == CASE pc[r] = "open" -> 2 [] pc[r] = "read" -> 1 [] OTHER -> 0
Nearer(r) == \/ Rank(r)' < Rank(r)
             \/ Rank(r)' = Rank(r) /\ 0 <= Left(r)' /\ Left(r)' < Left(r)
Stays(r) == UNCHANGED <<pc[r], file[r], pos[r]>>

\* Each read brings a call nearer its end, however short, and replacing the
\* file takes nothing back: the reader does not start again (hash.rs:36-50).
THEOREM CallsRunDown ==
  Spec => [][\A r \in Readers : /\ Step(r) => Nearer(r)
                                /\ ~Idle(r) => Nearer(r) \/ Stays(r)]_vars
<1>1. ASSUME TypeOK, NEW r \in Readers, Step(r) PROVE Nearer(r)
  <2>1. CASE Open(r)
    BY <1>1, <2>1 DEF Open, Nearer, Rank, TypeOK
  <2>2. CASE Read(r)
    <3>1. PICK n \in ReadSizes(r) : Got(r, n, n, n = 0)
      BY <2>2 DEF Read
    <3>2. pc[r] = "read" /\ pc'[r] = (IF n = 0 THEN "ok" ELSE "read")
      BY <1>1, <3>1 DEF Got, TypeOK
    <3>3. CASE n = 0
      BY <3>2, <3>3 DEF Nearer, Rank
    <3>4. CASE n # 0
      <4>1. n \in Nat /\ n > 0 /\ n <= Left(r)
        BY <3>1, <3>4, HashFileAssumption DEF ReadSizes, Slots
      <4>2. pos[r] \in Nat /\ Len(file[r]) \in Nat
        BY <1>1, FileSeq DEF TypeOK
      <4>3. file'[r] = file[r] /\ pos'[r] = pos[r] + n
        BY <1>1, <3>1 DEF Got, TypeOK
      <4>4. 0 <= Left(r)' /\ Left(r)' < Left(r)
        BY <4>1, <4>2, <4>3 DEF Left
      <4> QED BY <3>2, <3>4, <4>4 DEF Nearer, Rank
    <3> QED BY <3>3, <3>4
  <2>3. CASE ReadFails(r)
    BY <1>1, <2>3 DEF ReadFails, Nearer, Rank, TypeOK
  <2> QED BY <1>1, <2>1, <2>2, <2>3 DEF Step
<1>2. ASSUME TypeOK, NEW r \in Readers, ~Idle(r), Next, ~Step(r) PROVE Stays(r)
  <2> USE <1>2 DEF TypeOK
  <2>1. ASSUME NEW q \in Readers, Step(q) PROVE Stays(r)
    <3>1. q # r
      BY <2>1
    <3>2. CASE Open(q)
      BY <3>1, <3>2 DEF Open, Stays
    <3>3. CASE Read(q)
      BY <3>1, <3>3 DEF Read, Got, Stays
    <3>4. CASE ReadFails(q)
      BY <3>1, <3>4 DEF ReadFails, Stays
    <3> QED BY <2>1, <3>2, <3>3, <3>4 DEF Step
  <2>2. ASSUME NEW q \in Readers, NEW n \in Names, Call(q, n) PROVE Stays(r)
    BY <2>2 DEF Call, Stays, Idle
  <2>3. ASSUME NEW n \in Names, NEW v \in Versions, Replace(n, v) PROVE Stays(r)
    BY <2>3 DEF Replace, readerVars, Stays
  <2> QED BY <1>2, <2>1, <2>2, <2>3 DEF Next
<1>3. TypeOK /\ [Next]_vars =>
        [\A r \in Readers : /\ Step(r) => Nearer(r)
                            /\ ~Idle(r) => Nearer(r) \/ Stays(r)]_vars
  <2> SUFFICES ASSUME TypeOK, Next, NEW r \in Readers
               PROVE  (Step(r) => Nearer(r)) /\ (~Idle(r) => Nearer(r) \/ Stays(r))
    OBVIOUS
  <2> QED BY <1>1, <1>2
<1> QED BY <1>3, TypeCorrect, PTL DEF Spec
================================================================================
