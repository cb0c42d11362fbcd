-------------------------------- MODULE Layout --------------------------------
(***************************************************************************)
(* nyx_core::paths::ensure_layout (crates/nyx-core/src/paths.rs): several  *)
(* processes create the tree of Nyx-owned directories at the same time, a  *)
(* mkdir by a mkdir, some of which fail.  A path is the sequence of its    *)
(* components below NyxPaths::root, a mode the set of its permission bits. *)
(***************************************************************************)
EXTENDS Naturals, Sequences

CONSTANTS
  Processes,
  UmaskOf,      \* the permission bits each process's umask takes away
  Above,        \* components of the root that are missing at first
  Obstructions, \* sets of paths at which there may be something else than a
                \* directory
  MaxCalls,     \* bound: calls of ensure_layout
  MaxFaults     \* bound: mkdirs that fail for a reason of their own

--------------------------------------------------------------------------------
(* NyxPaths                                                                    *)

Join(path, p) == path \o p

EtcDir == Join(Above, <<"etc", "nyx">>)
LibDir == Join(Above, <<"var", "lib", "nyx">>)
CacheDir == Join(Above, <<"var", "cache", "nyx">>)

\* The directories ensure_layout goes through, in its order.
Dirs ==
  << EtcDir,
     Join(EtcDir, <<"conf.d">>), Join(EtcDir, <<"repos.d">>), Join(EtcDir, <<"policies.d">>),
     Join(EtcDir, <<"profiles">>), Join(EtcDir, <<"packages.d">>),
     LibDir,
     Join(LibDir, <<"alpm">>), Join(LibDir, <<"transactions">>), Join(LibDir, <<"baselines">>),
     Join(LibDir, <<"snapshots">>), Join(LibDir, <<"locks">>),
     CacheDir,
     Join(CacheDir, <<"pkg">>), Join(CacheDir, <<"scan">>),
     Join(CacheDir, <<"mirrors">>), Join(CacheDir, <<"indexes">>) >>

Prefix(path, k) == SubSeq(path, 1, k)
NyxDirs == {Dirs[i] : i \in DOMAIN Dirs}
Tree == UNION {{Prefix(d, k) : k \in 0 .. Len(d)} : d \in NyxDirs}

Bits == {"u", "g", "o"} \X {"r", "w", "x"}
Mode0755 == Bits \ {<<"g", "w">>, <<"o", "w">>}

ASSUME LayoutAssumption ==
  /\ Above \in Seq(STRING)
  /\ UmaskOf \in [Processes -> SUBSET Bits]
  /\ Obstructions \subseteq SUBSET (Tree \ {<<>>})
  /\ MaxCalls \in Nat /\ MaxFaults \in Nat

VARIABLES
  pc,      \* "ready", "ok", "err", or in create_dir_all: "down" or "up"
  next,    \* which of Dirs it is at
  depth,   \* how many components of it the next mkdir is for
  mode,    \* the directories there are, with their modes
  blocked, \* the paths that cannot become directories
  settled, \* history: mode when a call last returned Ok, if one has
  calls, faults

vars == <<pc, next, depth, mode, blocked, settled, calls, faults>>

Idle(p) == pc[p] \in {"ready", "ok", "err"}
IsDir(path) == path \in DOMAIN mode
Target(p) == Prefix(Dirs[next[p]], depth[p])
Nothing == [d \in {} |-> {}]

Init ==
  /\ pc = [p \in Processes |-> "ready"]
  /\ next = [p \in Processes |-> 1]
  /\ depth = [p \in Processes |-> 0]
  /\ mode = [d \in {<<>>} |-> Mode0755]
  /\ blocked \in Obstructions
  /\ settled = Nothing
  /\ calls = 0 /\ faults = 0

Call(p) ==
  /\ Idle(p) /\ calls < MaxCalls
  /\ pc' = [pc EXCEPT ![p] = "down"]
  /\ next' = [next EXCEPT ![p] = 1]
  /\ depth' = [depth EXCEPT ![p] = Len(Dirs[1])]
  /\ calls' = calls + 1
  /\ UNCHANGED <<mode, blocked, settled, faults>>

\* Seeded bug: one component too many.
ThereAndBelow(p) ==
  /\ depth' = [depth EXCEPT ![p] = @ + 1]
  /\ pc' = [pc EXCEPT ![p] = "up"]
  /\ UNCHANGED <<next, settled>>

\* A directory is there: create_dir_all goes on below it, ensure_layout to the
\* next one, and after the last it returns Ok.
There(p) ==
  IF depth[p] < Len(Dirs[next[p]])
  THEN /\ depth' = [depth EXCEPT ![p] = @ + 1]
       /\ pc' = [pc EXCEPT ![p] = "up"]
       /\ UNCHANGED <<next, settled>>
  ELSE IF next[p] < Len(Dirs)
  THEN /\ next' = [next EXCEPT ![p] = @ + 1]
       /\ depth' = [depth EXCEPT ![p] = Len(Dirs[next'[p]])]
       /\ pc' = [pc EXCEPT ![p] = "down"]
       /\ UNCHANGED settled
  ELSE /\ pc' = [pc EXCEPT ![p] = "ok"]
       /\ settled' = mode'
       /\ UNCHANGED <<next, depth>>

\* Seeded bug: the error is dropped.
GiveUpQuietly(p) == pc' = [pc EXCEPT ![p] = "ok"] /\ settled' = mode
                    /\ UNCHANGED <<next, depth, mode, blocked, calls>>

GiveUp(p) == pc' = [pc EXCEPT ![p] = "err"] /\ UNCHANGED <<next, depth, mode, blocked, settled, calls>>

Parent(path) == Prefix(path, Len(path) - 1)

\* mkdir makes the directory, with what the umask leaves of 0777.
Make(p) ==
  /\ Target(p) \notin DOMAIN mode \cup blocked /\ IsDir(Parent(Target(p)))
  /\ mode' = [d \in DOMAIN mode \cup {Target(p)} |->
                IF d = Target(p) THEN Bits \ UmaskOf[p] ELSE mode[d]]
  /\ There(p)
  /\ UNCHANGED <<blocked, calls, faults>>

\* EEXIST, and it is a directory: another process was first, or an earlier call.
Exists(p) == IsDir(Target(p)) /\ UNCHANGED <<mode, blocked, calls, faults>> /\ There(p)

\* ENOENT: the parent first, and back.
NoParent(p) ==
  /\ pc[p] = "down" /\ Target(p) \notin DOMAIN mode
  /\ ~IsDir(Parent(Target(p))) /\ Parent(Target(p)) \notin blocked
  /\ depth' = [depth EXCEPT ![p] = @ - 1]
  /\ UNCHANGED <<pc, next, mode, blocked, settled, calls, faults>>

\* EEXIST or ENOTDIR because of something that is no directory.
InTheWay(p) ==
  /\ Target(p) \in blocked \/ Parent(Target(p)) \in blocked
  /\ GiveUp(p)
  /\ UNCHANGED faults

\* Any other error: what was made so far stays.
MkdirFails(p) ==
  /\ ~IsDir(Target(p)) /\ faults < MaxFaults
  /\ faults' = faults + 1
  /\ GiveUp(p)

\* Seeded bugs: create_dir for create_dir_all, parents made by hand; the path
\* is looked up first and anything found there will do.
StepCreateDir(p) ==
  ~Idle(p) /\ \/ Make(p) \/ NoParent(p) \/ InTheWay(p) \/ MkdirFails(p)
              \/ pc[p] = "up" /\ Exists(p)
              \/ pc[p] = "down" /\ IsDir(Target(p)) /\ GiveUp(p) /\ UNCHANGED faults
StepIfAbsent(p) ==
  ~Idle(p) /\ \/ Make(p) \/ NoParent(p) \/ MkdirFails(p)
              \/ /\ Target(p) \in DOMAIN mode \cup blocked
                 /\ UNCHANGED <<mode, blocked, calls, faults>>
                 /\ There(p)

\* create_dir_all, system call by system call, for each of Dirs.
Step(p) == ~Idle(p) /\ (Make(p) \/ Exists(p) \/ NoParent(p) \/ InTheWay(p) \/ MkdirFails(p))

Next == \E p \in Processes : Call(p) \/ Step(p)

\* A process that was called is scheduled until it returns.
Spec == Init /\ [][Next]_vars /\ \A p \in Processes : WF_vars(Step(p))

--------------------------------------------------------------------------------
(* Properties                                                                  *)

TypeOK ==
  /\ pc \in [Processes -> {"ready", "down", "up", "ok", "err"}]
  /\ next \in [Processes -> DOMAIN Dirs] /\ depth \in [Processes -> Nat]
  /\ \A p \in Processes : depth[p] <= Len(Dirs[next[p]])
  /\ DOMAIN mode \subseteq Tree /\ \A d \in DOMAIN mode : mode[d] \subseteq Bits
  /\ DOMAIN settled \subseteq Tree /\ blocked \in Obstructions
  /\ calls \in 0 .. MaxCalls /\ faults \in 0 .. MaxFaults

\* Ok means the whole layout is there, made by whichever calls, failed ones
\* included (the test ensure_layout_creates_directories, for any interleaving).
OkIsComplete == \A p \in Processes : pc[p] = "ok" => NyxDirs \subseteq DOMAIN mode

\* Racing another process is no reason to fail: with nothing in the way and
\* no other fault, every call that returns returns Ok.
RaceIsNoError ==
  faults = 0 /\ blocked = {} => \A p \in Processes : pc[p] # "err"

\* Once a call returned Ok, later and slower calls change nothing
\* (paths.rs:122-124, "Idempotent").
Idempotent == [][settled # Nothing => mode' = mode]_vars

Called(p) == pc[p] = "down" /\ next[p] = 1 /\ depth[p] = Len(Dirs[1])

\* After a failure it is enough to call again: a call made when no mkdir fails
\* any more and nothing is in the way ends with Ok and the whole layout,
\* whatever failed calls left there and another process makes meanwhile
\* (paths.rs:122-124; the `?' of 145 leaves what was made).
RetryFinishes ==
  \A p \in Processes :
    Called(p) /\ faults = MaxFaults /\ blocked = {} ~> pc[p] = "ok" /\ NyxDirs \subseteq DOMAIN mode
===============================================================================
