------------------------------ MODULE MCHashFile ------------------------------
(* Instances of HashFile for TLC.                                             *)
EXTENDS HashFile

\* An empty file, one that fits the buffer and one that does not.
MCSize == [v \in Versions |-> CASE v = "none" -> 0 [] v = "short" -> 2 [] OTHER -> 3]

\* Hashes whose digits would run into each other if a small byte had one only;
\* anything but a version hashes to something else.
MCBlake3(data) ==
  CASE data = Blocks("none") -> <<32, 0, 17>>
    [] data = Blocks("short") -> <<1, 16, 5>>
    [] data = Blocks("long") -> <<17, 0, 5>>
    [] OTHER -> <<255, 255, Len(data)>>
================================================================================
