----------------------------- MODULE OutputProofs -----------------------------
(***************************************************************************)
(* Where colour goes: a theorem about Output.                              *)
(***************************************************************************)
EXTENDS Output, TLAPS

\* stderr is a terminal if stdout is one.
Alike == "stdout" \in tty => "stderr" \in tty

\* Nothing is printed before Output::new, nor styled without its colour, which
\* stdout has decided.
IInv ==
  /\ out # NoOutput => out.color = Color
  /\ out = NoOutput => written = {}
  /\ \A l \in written : l.stream \in Streams /\ (l.styled => out.color)
  /\ Color \in BOOLEAN

\* The invariant holds at first.
LEMMA InitInv == Init => IInv
BY DEF Init, IInv, Color

\* Output::new decides before the first line.
LEMMA NewKeeps == ASSUME IInv, NEW v \in Verbosity, New(v) PROVE IInv'
<1>1. /\ out = NoOutput /\ written = {} /\ written' = {}
      /\ out' = [color |-> Color, verbosity |-> v] /\ Color' = Color
  BY DEF New, IInv, Color
<1>2. out' # NoOutput /\ out'.color = Color
  BY <1>1 DEF NoOutput, Verbosity
<1> QED BY <1>1, <1>2 DEF IInv

\* A line is styled only as the Output has it.
LEMMA SayKeeps == ASSUME IInv, NEW kind \in Kinds, Say(kind) PROVE IInv'
<1>1. out # NoOutput /\ out' = out /\ Color' = Color
  BY DEF Say, Color
<1>2. written' \subseteq written \cup {[stream |-> Stream(kind), styled |-> Styled(kind)]}
  BY DEF Say
<1>3. \A l \in written' : l.stream \in Streams /\ (l.styled => out.color)
  <2> DEFINE new == [stream |-> Stream(kind), styled |-> Styled(kind)]
  <2>1. new.stream \in Streams
    BY DEF Stream, Streams
  <2>2. new.styled => out.color
    BY DEF Styled
  <2> HIDE DEF new
  <2>3. \A l \in written' : l \in written \/ l = new
    BY <1>2 DEF new
  <2> QED BY <2>1, <2>2, <2>3 DEF IInv
<1> QED BY <1>1, <1>3 DEF IInv

\* With --color=auto colour goes to terminals only, unless stdout is a terminal
\* and stderr is not, whatever is printed in whatever order: run
\* output_redirected is the one way to get it wrong (output.rs:6-8, 49-56).
THEOREM ColourIsForTerminals == Spec /\ Alike => []ColourOnlyOnTty
<1>1. IInv /\ [Next]_vars => IInv'
  <2> SUFFICES ASSUME IInv, [Next]_vars PROVE IInv'
    OBVIOUS
  <2>1. CASE Next
    BY <2>1, NewKeeps, SayKeeps DEF Next
  <2>2. CASE UNCHANGED vars
    BY <2>2 DEF vars, IInv, Color
  <2> QED BY <2>1, <2>2
<1>2. Alike /\ [Next]_vars => Alike'
  BY DEF Next, New, Say, vars, Alike
<1>3. IInv /\ Alike => ColourOnlyOnTty
  <2> SUFFICES ASSUME IInv, Alike, mode = "auto", NEW l \in written, l.styled PROVE l.stream \in tty
    BY DEF ColourOnlyOnTty
  <2>1. out # NoOutput /\ out.color
    BY DEF IInv
  <2>2. "stdout" \in tty
    BY <2>1 DEF IInv, Color
  <2> QED BY <2>2 DEF IInv, Alike, Streams
<1> QED BY InitInv, <1>1, <1>2, <1>3, PTL DEF Spec
===============================================================================
