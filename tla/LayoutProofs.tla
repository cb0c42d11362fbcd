----------------------------- MODULE LayoutProofs -----------------------------
(***************************************************************************)
(* ensure_layout for any number of processes, any root, any umasks and     *)
(* whatever is in the way: theorems about Layout.                          *)
(***************************************************************************)
EXTENDS Layout, TLAPS, SequenceTheorems

Complete == NyxDirs \subseteq DOMAIN mode

\* With a directory come those above it.
Closed == /\ <<>> \in DOMAIN mode
          /\ \A d \in DOMAIN mode : \A k \in 0 .. Len(d) : Prefix(d, k) \in DOMAIN mode

\* A call has made the directories before the one it is at.
Behind == \A p \in Processes :
            ~Idle(p) => \A i \in DOMAIN Dirs : i < next[p] => Dirs[i] \in DOMAIN mode

\* Once a call returned Ok everything is there.
Settled == (settled # Nothing \/ \E p \in Processes : pc[p] = "ok") => Complete

IInv == TypeOK /\ Closed /\ Behind /\ Settled /\ RaceIsNoError

--------------------------------------------------------------------------------
(* Paths                                                                       *)

\* Every component of a path of the layout.
Names == {"etc", "nyx", "var", "lib", "cache", "conf.d", "repos.d", "policies.d",
          "profiles", "packages.d", "alpm", "transactions", "baselines", "snapshots",
          "locks", "pkg", "scan", "mirrors", "indexes"}
         \cup {Above[i] : i \in 1 .. Len(Above)}

\* The directories above the root make a path.
LEMMA AboveSeq == Above \in Seq(Names)
<1> DEFINE A == {Above[i] : i \in 1 .. Len(Above)}
<1>1. Range(Above) = A /\ Above \in Seq(Range(Above))
  BY LayoutAssumption, RangeEquality, SeqOfRange
<1>2. A \subseteq Names
  BY DEF Names
<1> HIDE DEF A
<1>3. Above \in Seq(A)
  BY <1>1
<1> QED BY <1>2, <1>3, SeqMonotonic

\* A path below a path is one.
LEMMA JoinSeq ==
  ASSUME NEW path \in Seq(Names), NEW p \in Seq(Names)
  PROVE  Join(path, p) \in Seq(Names)
BY ConcatProperties DEF Join

\* Every directory of the layout is a path.
LEMMA DirsSeq == /\ Dirs \in Seq(Seq(Names)) /\ Len(Dirs) = 17 /\ DOMAIN Dirs = 1 .. 17
                 /\ \A i \in DOMAIN Dirs : Dirs[i] \in Seq(Names) /\ Len(Dirs[i]) \in Nat
<1>0. \A a, b, c \in Names : <<a>> \in Seq(Names) /\ <<a, b>> \in Seq(Names) /\ <<a, b, c>> \in Seq(Names)
  OBVIOUS
<1>5. /\ <<"etc", "nyx">> \in Seq(Names)
      /\ <<"var", "lib", "nyx">> \in Seq(Names)
      /\ <<"var", "cache", "nyx">> \in Seq(Names)
  <2>1. /\ "etc" \in Names /\ "nyx" \in Names /\ "var" \in Names
        /\ "lib" \in Names /\ "cache" \in Names
    BY DEF Names
  <2> QED BY <1>0, <2>1
<1>1. EtcDir \in Seq(Names)
  BY <1>5, JoinSeq, AboveSeq DEF EtcDir
<1>2. LibDir \in Seq(Names)
  BY <1>5, JoinSeq, AboveSeq DEF LibDir
<1>3. CacheDir \in Seq(Names)
  BY <1>5, JoinSeq, AboveSeq DEF CacheDir
<1>4. \A name \in Names : /\ Join(EtcDir, <<name>>) \in Seq(Names)
                           /\ Join(LibDir, <<name>>) \in Seq(Names)
                           /\ Join(CacheDir, <<name>>) \in Seq(Names)
  <2> HIDE DEF Names
  <2> QED BY <1>0, <1>1, <1>2, <1>3, JoinSeq
<1>6. /\ "conf.d" \in Names /\ "repos.d" \in Names /\ "policies.d" \in Names
      /\ "profiles" \in Names /\ "packages.d" \in Names /\ "alpm" \in Names
      /\ "transactions" \in Names /\ "baselines" \in Names /\ "snapshots" \in Names
      /\ "locks" \in Names /\ "pkg" \in Names /\ "scan" \in Names
      /\ "mirrors" \in Names /\ "indexes" \in Names
  BY DEF Names
<1>7. Dirs \in Seq(Seq(Names)) /\ Len(Dirs) = 17
  <2> HIDE DEF Names
  <2> QED BY <1>1, <1>2, <1>3, <1>4, <1>6 DEF Dirs
<1> QED BY <1>7, LenProperties, ElementOfSeq

\* The layout has seventeen directories (paths.rs:126-144).
LEMMA DirsCount == DOMAIN Dirs = 1 .. 17 /\ Len(Dirs) = 17
BY DirsSeq

\* The first components of a path: none, all, and those of a first part.
LEMMA PrefixFacts ==
  ASSUME NEW d \in Seq(Names)
  PROVE  /\ Prefix(d, 0) = <<>>
         /\ Prefix(d, Len(d)) = d
         /\ \A k \in 0 .. Len(d) : Prefix(d, k) \in Seq(Names) /\ Len(Prefix(d, k)) = k
         /\ \A k \in 0 .. Len(d) : \A j \in 0 .. k : Prefix(Prefix(d, k), j) = Prefix(d, j)
<1>1. Prefix(d, 0) = <<>> /\ Prefix(d, Len(d)) = d
  BY SubSeqEmpty, SubSeqFull DEF Prefix
<1>2. Len(d) \in Nat /\ \A i \in 1 .. Len(d) : d[i] \in Names
  BY LenProperties, ElementOfSeq
<1>3. ASSUME NEW k \in 0 .. Len(d)
      PROVE  /\ Prefix(d, k) \in Seq(Names) /\ Len(Prefix(d, k)) = k
             /\ \A i \in 1 .. k : Prefix(d, k)[i] = d[i]
  <2>1. \A i \in 1 .. k : d[i] \in Names
    BY <1>2
  <2>2. 1 \in Int /\ k \in Int /\ (IF 1 <= k THEN k - 1 + 1 ELSE 0) = k
        /\ 1 .. k - 1 + 1 = 1 .. k /\ \A i \in 1 .. k : 1 + i - 1 = i
    BY <1>2
  <2>3. /\ SubSeq(d, 1, k) \in Seq(Names)
        /\ Len(SubSeq(d, 1, k)) = IF 1 <= k THEN k - 1 + 1 ELSE 0
        /\ \A i \in 1 .. k - 1 + 1 : SubSeq(d, 1, k)[i] = d[1 + i - 1]
    BY <2>1, <2>2, SubSeqProperties
  <2> QED BY <2>2, <2>3 DEF Prefix
<1>4. ASSUME NEW k \in 0 .. Len(d), NEW j \in 0 .. k
      PROVE  Prefix(Prefix(d, k), j) = Prefix(d, j)
  <2>1. j \in 0 .. Len(d) /\ Prefix(d, k) \in Seq(Names) /\ Len(Prefix(d, k)) = k
    BY <1>2, <1>3
  <2> DEFINE c == Prefix(d, k)
  <2>2. /\ Prefix(c, j) \in Seq(Names) /\ Len(Prefix(c, j)) = j
        /\ \A i \in 1 .. j : Prefix(c, j)[i] = c[i]
    <3>1. \A i \in 1 .. j : c[i] \in Names
      BY <2>1, ElementOfSeq
    <3>2. 1 \in Int /\ j \in Int /\ (IF 1 <= j THEN j - 1 + 1 ELSE 0) = j
          /\ 1 .. j - 1 + 1 = 1 .. j /\ \A i \in 1 .. j : 1 + i - 1 = i
      BY <1>2
    <3> HIDE DEF c
    <3>3. /\ SubSeq(c, 1, j) \in Seq(Names)
          /\ Len(SubSeq(c, 1, j)) = IF 1 <= j THEN j - 1 + 1 ELSE 0
          /\ \A i \in 1 .. j - 1 + 1 : SubSeq(c, 1, j)[i] = c[1 + i - 1]
      BY <3>1, <3>2, SubSeqProperties
    <3> QED BY <3>2, <3>3 DEF Prefix
  <2>3. \A i \in 1 .. j : Prefix(c, j)[i] = Prefix(d, j)[i]
    BY <1>3, <2>1, <2>2
  <2>4. Prefix(d, j) \in Seq(Names) /\ Len(Prefix(d, j)) = j
    BY <1>3, <2>1
  <2> HIDE DEF c
  <2>5. Prefix(c, j) = Prefix(d, j)
    BY <2>2, <2>3, <2>4, SeqEqual
  <2> QED BY <2>5 DEF c
<1> QED BY <1>1, <1>3, <1>4

--------------------------------------------------------------------------------
(* What a mkdir is for                                                         *)

\* A mkdir is for one of the directories or for one above it.
LEMMA TargetFacts ==
  ASSUME TypeOK, NEW p \in Processes
  PROVE  LET dir == Dirs[next[p]] IN
         /\ next[p] \in 1 .. 17 /\ dir \in NyxDirs /\ dir \in Seq(Names)
         /\ depth[p] \in 0 .. Len(dir) /\ Len(dir) \in Nat
         /\ Target(p) \in Tree /\ Target(p) \in Seq(Names) /\ Len(Target(p)) = depth[p]
         /\ \A k \in 0 .. depth[p] : Prefix(Target(p), k) = Prefix(dir, k)
         /\ depth[p] = Len(dir) => Target(p) = dir
<1> DEFINE dir == Dirs[next[p]]
<1>1. next[p] \in DOMAIN Dirs /\ depth[p] \in Nat /\ depth[p] <= Len(dir)
  BY DEF TypeOK
<1>2. next[p] \in 1 .. 17 /\ dir \in NyxDirs /\ dir \in Seq(Names) /\ Len(dir) \in Nat
  BY <1>1, DirsSeq DEF NyxDirs
<1>3. depth[p] \in 0 .. Len(dir)
  BY <1>1, <1>2
<1> HIDE DEF dir
<1>4. /\ Prefix(dir, depth[p]) \in Seq(Names) /\ Len(Prefix(dir, depth[p])) = depth[p]
      /\ \A k \in 0 .. depth[p] : Prefix(Prefix(dir, depth[p]), k) = Prefix(dir, k)
      /\ Prefix(dir, Len(dir)) = dir
  BY <1>2, <1>3, PrefixFacts
<1>5. Target(p) = Prefix(dir, depth[p])
  BY DEF Target, dir
<1>6. Target(p) \in Tree
  BY <1>2, <1>3, <1>5 DEF Tree
<1> QED BY <1>2, <1>3, <1>4, <1>5, <1>6 DEF dir

\* Only the root needs no mkdir, and it is there.
LEMMA RootIsThere ==
  ASSUME Closed, TypeOK, NEW p \in Processes, Target(p) \notin DOMAIN mode
  PROVE  depth[p] > 0
<1>1. SUFFICES ASSUME depth[p] = 0 PROVE FALSE
  BY TargetFacts
<1>2. Target(p) = <<>>
  BY <1>1, TargetFacts, PrefixFacts DEF Target
<1> QED BY <1>2 DEF Closed

--------------------------------------------------------------------------------
(* The invariant                                                               *)

\* A call goes on from a directory that is there.
LEMMA ThereKeeps ==
  ASSUME IInv, NEW p \in Processes, ~Idle(p), There(p),
         DOMAIN mode \subseteq DOMAIN mode', Target(p) \in DOMAIN mode',
         DOMAIN mode' \subseteq Tree, \A d \in DOMAIN mode' : mode'[d] \subseteq Bits,
         Closed', UNCHANGED <<blocked, calls, faults>>
  PROVE  IInv'
<1>1. TypeOK /\ Behind /\ Settled /\ RaceIsNoError
  BY DEF IInv
<1>2. CASE depth[p] < Len(Dirs[next[p]])
  <2>1. /\ depth' = [depth EXCEPT ![p] = @ + 1] /\ pc' = [pc EXCEPT ![p] = "up"]
        /\ UNCHANGED <<next, settled>>
    BY <1>2 DEF There
  <2>2. TypeOK'
    BY <1>1, <1>2, <2>1, TargetFacts DEF TypeOK
  <2>3. Behind'
    BY <1>1, <2>1 DEF Behind, Idle, TypeOK
  <2>4. Settled'
    BY <1>1, <2>1 DEF Settled, Complete, TypeOK
  <2>5. RaceIsNoError'
    BY <1>1, <2>1 DEF RaceIsNoError, TypeOK
  <2> QED BY <2>2, <2>3, <2>4, <2>5 DEF IInv
<1>3. ASSUME ~(depth[p] < Len(Dirs[next[p]]))
      PROVE  Dirs[next[p]] \in DOMAIN mode'
  <2>1. depth[p] = Len(Dirs[next[p]])
    BY <1>1, <1>3, TargetFacts
  <2> QED BY <1>1, <2>1, TargetFacts
<1>4. CASE ~(depth[p] < Len(Dirs[next[p]])) /\ next[p] < Len(Dirs)
  <2>1. /\ next' = [next EXCEPT ![p] = @ + 1]
        /\ depth' = [depth EXCEPT ![p] = Len(Dirs[next'[p]])]
        /\ pc' = [pc EXCEPT ![p] = "down"] /\ UNCHANGED settled
    BY <1>4 DEF There
  <2>2. TypeOK'
    <3>0. next[p] \in 1 .. 17 /\ next[p] < 17 /\ next'[p] = next[p] + 1
      <4>1. next \in [Processes -> DOMAIN Dirs]
        BY <1>1 DEF TypeOK
      <4> QED BY <1>4, <2>1, <4>1, DirsCount
    <3>1. next[p] + 1 \in DOMAIN Dirs /\ next'[p] = next[p] + 1
      <4>1. next[p] + 1 \in 1 .. 17
        BY <3>0
      <4> QED BY <3>0, <4>1, DirsCount
    <3>2. Len(Dirs[next'[p]]) \in Nat
      BY <3>1, DirsSeq
    <3>3. next' \in [Processes -> DOMAIN Dirs] /\ depth' \in [Processes -> Nat]
      BY <1>1, <2>1, <3>1, <3>2 DEF TypeOK
    <3>4. \A q \in Processes : depth'[q] <= Len(Dirs[next'[q]])
      BY <1>1, <2>1, <3>1, <3>2 DEF TypeOK
    <3> QED BY <1>1, <2>1, <3>3, <3>4 DEF TypeOK
  <2>3. Behind'
    <3> SUFFICES ASSUME NEW q \in Processes, ~Idle(q)', NEW i \in DOMAIN Dirs, i < next'[q]
                 PROVE  Dirs[i] \in DOMAIN mode'
      BY DEF Behind
    <3>1. CASE q = p
      <4>0. next'[p] = next[p] + 1 /\ next[p] \in 1 .. 17 /\ i \in 1 .. 17
        BY <1>1, <2>1, DirsCount DEF TypeOK
      <4>1. i < next[p] \/ i = next[p]
        BY <3>1, <4>0
      <4> QED BY <1>1, <1>3, <1>4, <4>1 DEF Behind
    <3>2. CASE q # p
      BY <1>1, <2>1, <3>2 DEF Behind, Idle, TypeOK
    <3> QED BY <3>1, <3>2
  <2>4. Settled'
    BY <1>1, <2>1 DEF Settled, Complete, TypeOK
  <2>5. RaceIsNoError'
    BY <1>1, <2>1 DEF RaceIsNoError, TypeOK
  <2> QED BY <2>2, <2>3, <2>4, <2>5 DEF IInv
<1>5. CASE ~(depth[p] < Len(Dirs[next[p]])) /\ ~(next[p] < Len(Dirs))
  <2>1. pc' = [pc EXCEPT ![p] = "ok"] /\ settled' = mode' /\ UNCHANGED <<next, depth>>
    BY <1>5 DEF There
  <2>2. TypeOK'
    BY <1>1, <2>1 DEF TypeOK
  <2>3. Behind'
    BY <1>1, <2>1 DEF Behind, Idle, TypeOK
  <2>4. Complete'
    <3> SUFFICES ASSUME NEW i \in DOMAIN Dirs PROVE Dirs[i] \in DOMAIN mode'
      BY DEF Complete, NyxDirs
    <3>1. i < next[p] \/ i = next[p]
      <4>1. next[p] \in DOMAIN Dirs
        BY <1>1 DEF TypeOK
      <4>2. next[p] \in 1 .. 17 /\ i \in 1 .. 17 /\ ~(next[p] < 17)
        BY <1>5, <4>1, DirsCount
      <4> QED BY <4>2
    <3> QED BY <1>1, <1>3, <1>5, <3>1 DEF Behind
  <2>5. RaceIsNoError'
    BY <1>1, <2>1 DEF RaceIsNoError, TypeOK
  <2> QED BY <2>2, <2>3, <2>4, <2>5 DEF IInv, Settled
<1> QED BY <1>2, <1>4, <1>5

\* A call gives up for a reason.
LEMMA GiveUpKeeps ==
  ASSUME IInv, NEW p \in Processes, GiveUp(p), faults' \in 0 .. MaxFaults,
         faults' # 0 \/ blocked # {}
  PROVE  IInv'
<1>1. pc' = [pc EXCEPT ![p] = "err"] /\ UNCHANGED <<next, depth, mode, blocked, settled, calls>>
  BY DEF GiveUp
<1>2. TypeOK'
  BY <1>1 DEF IInv, TypeOK
<1>3. Closed'
  BY <1>1 DEF IInv, Closed
<1>4. Behind'
  BY <1>1 DEF IInv, Behind, Idle, TypeOK
<1>5. Settled'
  BY <1>1 DEF IInv, Settled, Complete, TypeOK
<1>6. RaceIsNoError'
  BY <1>1 DEF RaceIsNoError
<1> QED BY <1>2, <1>3, <1>4, <1>5, <1>6 DEF IInv

\* The invariant holds at first.
LEMMA InitInv == Init => IInv
<1> SUFFICES ASSUME Init PROVE IInv
  OBVIOUS
<1>1. <<>> \in Tree
  <2>1. Dirs[1] \in NyxDirs /\ Dirs[1] \in Seq(Names) /\ Len(Dirs[1]) \in Nat
    BY DirsSeq DEF NyxDirs
  <2>2. Prefix(Dirs[1], 0) = <<>>
    BY <2>1, PrefixFacts
  <2> QED BY <2>1, <2>2 DEF Tree
<1>2. DOMAIN mode = {<<>>} /\ mode[<<>>] \subseteq Bits
  BY DEF Init, Mode0755
<1>3. TypeOK
  <2>1. next \in [Processes -> DOMAIN Dirs] /\ depth \in [Processes -> Nat]
        /\ \A p \in Processes : depth[p] <= Len(Dirs[next[p]])
    BY DirsSeq DEF Init
  <2>2. DOMAIN settled \subseteq Tree
    BY DEF Init, Nothing
  <2> QED BY <1>1, <1>2, <2>1, <2>2, LayoutAssumption DEF TypeOK, Init
<1>4. Closed
  <2>1. \A k \in 0 .. Len(<<>>) : Prefix(<<>>, k) = <<>>
    BY SubSeqEmpty DEF Prefix
  <2> QED BY <1>2, <2>1 DEF Closed
<1> QED BY <1>3, <1>4 DEF Init, IInv, Behind, Settled, RaceIsNoError, Idle

\* A mkdir that works keeps it: the directory above is there.
LEMMA MakeKeeps == ASSUME IInv, NEW p \in Processes, ~Idle(p), Make(p) PROVE IInv'
<1> DEFINE t == Target(p)
<1>1. /\ t \notin DOMAIN mode /\ Parent(t) \in DOMAIN mode
      /\ mode' = [d \in DOMAIN mode \cup {t} |->
                    IF d = t THEN Bits \ UmaskOf[p] ELSE mode[d]]
      /\ There(p) /\ UNCHANGED <<blocked, calls, faults>>
  BY DEF Make, IsDir
<1>2. TypeOK /\ Closed
  BY DEF IInv
<1>3. t \in Tree /\ t \in Seq(Names) /\ Len(t) = depth[p] /\ depth[p] \in Nat /\ depth[p] > 0
  BY <1>1, <1>2, TargetFacts, RootIsThere DEF TypeOK
<1> HIDE DEF t
<1>4. DOMAIN mode' = DOMAIN mode \cup {t}
  BY <1>1
<1>5. \A d \in DOMAIN mode' : mode'[d] \subseteq Bits
  BY <1>1, <1>2, <1>4 DEF TypeOK
<1>6. \A k \in 0 .. Len(t) : Prefix(t, k) \in DOMAIN mode'
  <2> SUFFICES ASSUME NEW k \in 0 .. Len(t) PROVE Prefix(t, k) \in DOMAIN mode'
    OBVIOUS
  <2>1. CASE k = Len(t)
    BY <1>3, <1>4, <2>1, PrefixFacts
  <2>2. CASE k # Len(t)
    <3>1. k \in 0 .. Len(t) - 1 /\ Len(t) - 1 \in 0 .. Len(t)
      BY <1>3, <2>2
    <3>2. Prefix(Parent(t), k) = Prefix(t, k) /\ Len(Parent(t)) = Len(t) - 1
      BY <1>3, <3>1, PrefixFacts DEF Parent
    <3>3. Prefix(Parent(t), k) \in DOMAIN mode
      BY <1>1, <1>2, <3>1, <3>2 DEF Closed
    <3> QED BY <1>4, <3>2, <3>3
  <2> QED BY <2>1, <2>2
<1>7. Closed'
  BY <1>2, <1>4, <1>6 DEF Closed
<1>8. DOMAIN mode' \subseteq Tree
  BY <1>2, <1>3, <1>4 DEF TypeOK
<1> QED BY <1>1, <1>4, <1>5, <1>7, <1>8, ThereKeeps DEF t

\* Every step keeps it.
LEMMA NextInv == IInv /\ [Next]_vars => IInv'
<1> SUFFICES ASSUME IInv, [Next]_vars PROVE IInv'
  OBVIOUS
<1>1. ASSUME NEW p \in Processes, Call(p) PROVE IInv'
  <2>1. TypeOK'
    <3>1. 1 \in DOMAIN Dirs /\ Len(Dirs[1]) \in Nat
      BY DirsSeq
    <3>2. calls + 1 \in 0 .. MaxCalls
      BY <1>1, LayoutAssumption DEF IInv, TypeOK, Call
    <3>3. \A q \in Processes : depth'[q] <= Len(Dirs[next'[q]])
      BY <1>1, <3>1 DEF IInv, TypeOK, Call
    <3> QED BY <1>1, <3>1, <3>2, <3>3 DEF IInv, TypeOK, Call
  <2>2. Closed'
    BY <1>1 DEF IInv, Closed, Call
  <2>3. Behind'
    <3>1. \A i \in DOMAIN Dirs : ~(i < 1)
      BY DirsCount
    <3>2. next'[p] = 1 /\ \A q \in Processes : q # p => next'[q] = next[q] /\ pc'[q] = pc[q]
      BY <1>1 DEF IInv, TypeOK, Call
    <3> QED BY <1>1, <3>1, <3>2 DEF IInv, Behind, Idle, Call
  <2>4. Settled'
    BY <1>1 DEF IInv, Settled, Complete, TypeOK, Call
  <2>5. RaceIsNoError'
    BY <1>1 DEF IInv, RaceIsNoError, TypeOK, Call
  <2> QED BY <2>1, <2>2, <2>3, <2>4, <2>5 DEF IInv
<1>2. ASSUME NEW p \in Processes, Step(p) PROVE IInv'
  <2>1. ~Idle(p)
    BY <1>2 DEF Step
  <2>2. CASE Make(p)
    BY <2>1, <2>2, MakeKeeps
  <2>3. CASE Exists(p)
    BY <2>1, <2>3, ThereKeeps DEF Exists, IsDir, IInv, TypeOK, Closed
  <2>4. CASE NoParent(p)
    <3>1. /\ depth' = [depth EXCEPT ![p] = @ - 1]
          /\ UNCHANGED <<pc, next, mode, blocked, settled, calls, faults>>
      BY <2>4 DEF NoParent
    <3>2. depth[p] > 0
      BY <2>4, RootIsThere DEF NoParent, IInv
    <3>3. TypeOK'
      <4>1. depth[p] \in Nat /\ depth[p] - 1 \in Nat /\ depth[p] <= Len(Dirs[next[p]])
            /\ Len(Dirs[next[p]]) \in Nat
        BY <3>2, TargetFacts DEF IInv, TypeOK
      <4>2. depth' \in [Processes -> Nat]
        BY <3>1, <4>1 DEF IInv, TypeOK
      <4>3. \A q \in Processes : depth'[q] <= Len(Dirs[next'[q]])
        BY <3>1, <4>1 DEF IInv, TypeOK
      <4> QED BY <3>1, <4>2, <4>3 DEF IInv, TypeOK
    <3> QED BY <3>1, <3>3 DEF IInv, Closed, Behind, Settled, Complete, RaceIsNoError, Idle
  <2>5. CASE InTheWay(p)
    BY <2>5, GiveUpKeeps DEF InTheWay, IInv, TypeOK
  <2>6. CASE MkdirFails(p)
    <3>1. faults' \in 0 .. MaxFaults /\ faults' # 0
      BY <2>6, LayoutAssumption DEF MkdirFails, IInv, TypeOK
    <3> QED BY <2>6, <3>1, GiveUpKeeps DEF MkdirFails
  <2> QED BY <1>2, <2>2, <2>3, <2>4, <2>5, <2>6 DEF Step
<1>3. CASE UNCHANGED vars
  BY <1>3 DEF vars, IInv, TypeOK, Closed, Behind, Settled, Complete, RaceIsNoError, Idle
<1> QED BY <1>1, <1>2, <1>3 DEF Next

--------------------------------------------------------------------------------
(* Theorems                                                                    *)

\* It holds in every reachable state.
LEMMA AlwaysInv == Spec => []IInv
BY InitInv, NextInv, PTL DEF Spec

\* Every reachable state has its type.
THEOREM TypeCorrect == Spec => []TypeOK
<1>1. IInv => TypeOK
  BY DEF IInv
<1> QED BY AlwaysInv, <1>1, PTL

\* After an Ok every directory of the layout is there, whoever made it
\* (paths.rs:125-148).
THEOREM OkMeansComplete == Spec => []OkIsComplete
<1>1. IInv => OkIsComplete
  BY DEF IInv, Settled, Complete, OkIsComplete
<1> QED BY AlwaysInv, <1>1, PTL

\* Without something in the way or a fault no call fails, however many run at
\* once.
THEOREM RacesAreHarmless == Spec => []RaceIsNoError
<1>1. IInv => RaceIsNoError
  BY DEF IInv
<1> QED BY AlwaysInv, <1>1, PTL

\* After the first Ok nothing is created any more, by no call (paths.rs:122-124).
THEOREM SecondCallChangesNothing == Spec => Idempotent
<1>1. IInv /\ [Next]_vars => [settled # Nothing => mode' = mode]_vars
  <2> SUFFICES ASSUME IInv, Next, settled # Nothing PROVE mode' = mode
    BY DEF vars
  <2>1. ASSUME NEW p \in Processes, Call(p) PROVE mode' = mode
    BY <2>1 DEF Call
  <2>2. ASSUME NEW p \in Processes, Step(p) PROVE mode' = mode
    <3>1. Target(p) \in DOMAIN mode
      <4> DEFINE dir == Dirs[next[p]]
      <4>1. dir \in DOMAIN mode /\ depth[p] \in 0 .. Len(dir)
        BY TargetFacts DEF IInv, Settled, Complete
      <4> QED BY <4>1 DEF IInv, Closed, Target
    <3> QED BY <2>2, <3>1 DEF Step, Make, Exists, NoParent, InTheWay, MkdirFails, GiveUp
  <2> QED BY <2>1, <2>2 DEF Next
<1> QED BY AlwaysInv, <1>1, PTL DEF Spec, Idempotent

--------------------------------------------------------------------------------
(* Calls run down                                                              *)

\* How far a call is from its end: the directories to come, whether it still
\* looks for one that is there, and how far up or down the one it is at.
Rank(p) == IF Idle(p) THEN 0
           ELSE 2 * (Len(Dirs) - next[p]) + (IF pc[p] = "down" THEN 2 ELSE 1)
Rest(p) == IF pc[p] = "down" THEN depth[p] ELSE Len(Dirs[next[p]]) - depth[p]
Nearer(p) == \/ Rank(p)' < Rank(p)
             \/ Rank(p)' = Rank(p) /\ 0 <= Rest(p)' /\ Rest(p)' < Rest(p)
Stays(p) == UNCHANGED <<pc[p], next[p], depth[p]>>

\* create_dir_all goes up once and comes back down: each mkdir brings a call
\* nearer its end, and what other processes make meanwhile takes nothing back
\* (paths.rs:145).
THEOREM CallsRunDown ==
  Spec => [][\A p \in Processes : /\ Step(p) => Nearer(p)
                                  /\ ~Idle(p) => Nearer(p) \/ Stays(p)]_vars
<1>1. ASSUME IInv, NEW p \in Processes, Step(p) PROVE Nearer(p)
  <2> DEFINE here == Len(Dirs[next[p]])
  <2>1. /\ pc \in [Processes -> {"ready", "down", "up", "ok", "err"}] /\ pc[p] \in {"down", "up"}
        /\ next \in [Processes -> DOMAIN Dirs] /\ depth \in [Processes -> Nat]
    BY <1>1 DEF IInv, TypeOK, Step, Idle
  <2>2. next[p] \in 1 .. 17 /\ here \in Nat /\ depth[p] \in 0 .. here /\ Len(Dirs) = 17
    BY <1>1, TargetFacts, DirsCount DEF IInv
  <2>3. Rank(p) = 2 * (17 - next[p]) + (IF pc[p] = "down" THEN 2 ELSE 1)
    BY <2>1, <2>2 DEF Rank, Idle
  <2> HIDE DEF here
  <2>4. CASE There(p)
    <3>1. CASE depth[p] < here
      <4>1. pc'[p] = "up" /\ next' = next /\ depth'[p] = depth[p] + 1
        BY <2>1, <2>4, <3>1 DEF There, here
      <4>2. Rank(p)' = 2 * (17 - next[p]) + 1
        BY <2>2, <4>1 DEF Rank, Idle
      <4>3. Rest(p)' = here - (depth[p] + 1)
        BY <4>1 DEF Rest, here
      <4>4. CASE pc[p] = "down"
        BY <2>2, <2>3, <4>2, <4>4 DEF Nearer
      <4>5. CASE pc[p] = "up"
        <5>1. Rest(p) = here - depth[p] BY <4>5 DEF Rest, here
        <5>2. Rank(p)' = Rank(p) BY <2>3, <4>2, <4>5
        <5>3. 0 <= Rest(p)' /\ Rest(p)' < Rest(p) BY <2>2, <3>1, <4>3, <5>1
        <5> QED BY <5>2, <5>3 DEF Nearer
      <4> QED BY <2>1, <4>4, <4>5
    <3>2. CASE ~(depth[p] < here) /\ next[p] < Len(Dirs)
      <4>1. next'[p] = next[p] + 1 /\ pc'[p] = "down"
        BY <2>1, <2>4, <3>2 DEF There, here
      <4>2. Rank(p)' = 2 * (17 - (next[p] + 1)) + 2
        BY <2>2, <4>1 DEF Rank, Idle
      <4>3. Rank(p)' < Rank(p)
        BY <2>2, <2>3, <4>2
      <4> QED BY <4>3 DEF Nearer
    <3>3. CASE ~(depth[p] < here) /\ ~(next[p] < Len(Dirs))
      <4>1. Rank(p)' = 0
        BY <2>1, <2>4, <3>3 DEF There, here, Rank, Idle
      <4>2. Rank(p) > 0
        BY <2>2, <2>3
      <4> QED BY <4>1, <4>2 DEF Nearer
    <3> QED BY <3>1, <3>2, <3>3
  <2>5. CASE NoParent(p)
    <3>1. depth[p] > 0 /\ pc[p] = "down" /\ depth'[p] = depth[p] - 1 /\ UNCHANGED <<pc, next>>
      BY <1>1, <2>1, <2>5, RootIsThere DEF NoParent, IInv
    <3>2. Rank(p)' = Rank(p)
      BY <3>1 DEF Rank, Idle
    <3>3. 0 <= Rest(p)' /\ Rest(p)' < Rest(p)
      BY <2>2, <3>1 DEF Rest
    <3> QED BY <3>2, <3>3 DEF Nearer
  <2>6. CASE GiveUp(p)
    <3>1. Rank(p)' = 0
      BY <2>1, <2>6 DEF GiveUp, Rank, Idle
    <3>2. Rank(p) > 0
      BY <2>2, <2>3
    <3> QED BY <3>1, <3>2 DEF Nearer
  <2> QED BY <1>1, <2>4, <2>5, <2>6 DEF Step, Make, Exists, InTheWay, MkdirFails
<1>2. ASSUME IInv, NEW p \in Processes, ~Idle(p), Next, ~Step(p) PROVE Stays(p)
  <2> USE <1>2 DEF IInv, TypeOK
  <2>1. ASSUME NEW q \in Processes, Step(q) PROVE Stays(p)
    <3>1. q # p
      BY <2>1
    <3>2. CASE There(q)
      BY <3>1, <3>2 DEF There, Stays
    <3>3. CASE NoParent(q)
      BY <3>1, <3>3 DEF NoParent, Stays
    <3>4. CASE GiveUp(q)
      BY <3>1, <3>4 DEF GiveUp, Stays
    <3> QED BY <2>1, <3>2, <3>3, <3>4 DEF Step, Make, Exists, InTheWay, MkdirFails
  <2>2. ASSUME NEW q \in Processes, Call(q) PROVE Stays(p)
    BY <2>2 DEF Call, Stays, Idle
  <2> QED BY <1>2, <2>1, <2>2 DEF Next
<1>3. IInv /\ [Next]_vars =>
        [\A p \in Processes : /\ Step(p) => Nearer(p)
                              /\ ~Idle(p) => Nearer(p) \/ Stays(p)]_vars
  <2> SUFFICES ASSUME IInv, Next, NEW p \in Processes
               PROVE  (Step(p) => Nearer(p)) /\ (~Idle(p) => Nearer(p) \/ Stays(p))
    OBVIOUS
  <2> QED BY <1>1, <1>2
<1> QED BY <1>3, AlwaysInv, PTL DEF Spec
===============================================================================
