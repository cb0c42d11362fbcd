---------------------------- MODULE MCWriteAtomic ----------------------------
(* Instances of WriteAtomic for TLC.                                          *)
EXTENDS WriteAtomic

\* A payload of one block and one of two: the smallest that can be cut in half.
MCSize == [d \in Payloads |-> IF d = "first" THEN 2 ELSE 1]

\* Two nyx processes of one thread each (docs/adr D6), two threads of one, or
\* one of two threads beside one of one.
MCOwnProcess == [t \in Threads |-> t]
MCOneProcess == [t \in Threads |-> "nyx"]
MCTwoAndOne == [t \in Threads |-> IF t = "c" THEN "other" ELSE "nyx"]

\* Every thread writes every path; or threads of one process write a file of
\* their own and paths that are refused, and the third writes what one of them
\* writes.
MCAnyTarget == [t \in Threads |-> Paths]
MCFile == CHOOSE f \in [{"a", "b"} -> Names] : f["a"] # f["b"]
MCOwnTarget == [t \in Threads |-> IF t = "b" THEN {MCFile["b"]} \cup NoFileName \cup NoParent
                                             ELSE {MCFile["a"]}]
==============================================================================
