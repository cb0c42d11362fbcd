-------------------------------- MODULE MCLayout --------------------------------
(* Instances of Layout for TLC.                                                *)
EXTENDS Layout

MCUmask == [p \in Processes |-> {<<"g", "w">>, <<"o", "w">>}]

\* A disposable root that is not there yet.
MCRoot == <<"chroot">>

\* Nothing in the way, or a file where a directory should be.
MCObstructions == {{}, {<<"chroot", "var", "lib", "nyx", "locks">>}}
=================================================================================
