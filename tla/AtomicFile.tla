------------------------------ MODULE AtomicFile ------------------------------
(***************************************************************************)
(* What nyx_core::atomic promises to the code that will keep manifests     *)
(* with it: a directory of named files, each of which always holds one     *)
(* complete payload or nothing, through replacements and power cuts.       *)
(* A power cut may bring back any directory content seen since the last    *)
(* time the directory settled, never a mixture and never a torn file.      *)
(***************************************************************************)
CONSTANTS Names,     \* file names written through write_atomic
          Payloads,  \* complete contents
          Absent     \* no file under the name

VARIABLES visible,   \* what a reader finds under each name
          possible   \* the contents a power cut may bring back

vars == <<visible, possible>>

Contents == [Names -> Payloads \cup {Absent}]

Init == /\ visible = [n \in Names |-> Absent]
        /\ possible = {visible}

\* One complete payload takes the place of another in a single step.
Replace(n, d) == /\ visible' = [visible EXCEPT ![n] = d]
                 /\ possible' = possible \cup {visible'}

\* Earlier contents become unreachable; the visible one never does.
Settle == /\ visible' = visible
          /\ possible' \in SUBSET possible
          /\ visible \in possible'

PowerLoss == /\ visible' \in possible
             /\ possible' = {visible'}

Next == \/ \E n \in Names, d \in Payloads : Replace(n, d)
        \/ Settle
        \/ PowerLoss

Spec == Init /\ [][Next]_vars
===============================================================================
