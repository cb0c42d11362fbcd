-------------------------------- MODULE Output --------------------------------
(***************************************************************************)
(* nyx_core::output (crates/nyx-core/src/output.rs): one Output is made    *)
(* when the program starts and decides for the whole run what is printed,  *)
(* where, and whether it is coloured.                                      *)
(***************************************************************************)
VARIABLES
  tty,         \* the standard streams that are terminals
  mode,        \* --color: "auto", "always", "never"
  noColorEnv,  \* NO_COLOR is set
  out,         \* the Output
  written      \* the lines printed so far: on which stream, coloured or not

vars == <<tty, mode, noColorEnv, out, written>>

Streams == {"stdout", "stderr"}
Verbosity == {"quiet", "normal", "verbose"}
Kinds == {"line", "header", "warn", "error", "debug"}
NoOutput == [color |-> FALSE, verbosity |-> "none"]

Init ==
  /\ tty \in SUBSET Streams
  /\ mode \in {"auto", "always", "never"}
  /\ noColorEnv \in BOOLEAN
  /\ out = NoOutput
  /\ written = {}

\* Output::new: stdout speaks for both streams.
Color == mode = "always" \/ (mode = "auto" /\ "stdout" \in tty /\ ~noColorEnv)

New(verbosity) ==
  /\ out = NoOutput
  /\ out' = [color |-> Color, verbosity |-> verbosity]
  /\ UNCHANGED <<tty, mode, noColorEnv, written>>

Stream(kind) == IF kind \in {"line", "header"} THEN "stdout" ELSE "stderr"

Shown(kind) == CASE kind \in {"line", "header"} -> out.verbosity # "quiet"
                 [] kind \in {"warn", "error"} -> TRUE
                 [] kind = "debug" -> out.verbosity = "verbose"

Styled(kind) == out.color /\ kind \in {"header", "warn", "error"}

\* line, header, warn, error and debug.
Say(kind) ==
  /\ out # NoOutput
  /\ written' = IF Shown(kind)
                THEN written \cup {[stream |-> Stream(kind), styled |-> Styled(kind)]}
                ELSE written
  /\ UNCHANGED <<tty, mode, noColorEnv, out>>

Next == (\E v \in Verbosity : New(v)) \/ (\E kind \in Kinds : Say(kind))

Spec == Init /\ [][Next]_vars

--------------------------------------------------------------------------------
(* Properties                                                                  *)

\* What output.rs:6-8 says: colour "is disabled automatically when not writing
\* to a TTY".
ColourOnlyOnTty ==
  mode = "auto" => \A l \in written : l.styled => l.stream \in tty
===============================================================================
