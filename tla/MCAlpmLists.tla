------------------------------ MODULE MCAlpmLists ------------------------------
(* The instance of AlpmLists that TLC checks.                                  *)
EXTENDS AlpmLists

Dep(name, modifier, version, desc) ==
  [name |-> name, modifier |-> modifier, version |-> version, desc |-> desc]

\* A package with everything, one without a description.
MCPackages == {[name |-> "acl", version |-> "2-1", desc |-> "acl", size |-> 7, reason |-> "Depend"],
               [name |-> "nyx", version |-> "1-1", desc |-> None, size |-> 0, reason |-> "Unknown"]}

\* Every modifier; without a description, with an empty one and with one.
MCDepends == {Dep("foo", m, "1", None) : m \in {"Eq", "Ge", "Le", "Gt", "Lt"}}
             \cup {Dep("foo", "Any", None, ""), Dep("foo", "Ge", "1", "why")}

\* Every comparison, none, one without a version, one within another's version.
MCDepstrings ==
  {<<"f">>, <<"f", "=">>, <<"f", "=", "1">>, <<"f", "<", "1">>, <<"f", ">", "1">>,
   <<"f", "<", "=", "1">>, <<"f", ">", "=", "1">>, <<"f", ">", "=", "1", "<", "2">>}

MCValues ==
  [check_deps |-> {[target |-> "nyx", depend |-> Dep("foo", "Lt", "1", None), causing_pkg |-> "acl"],
                   [target |-> "nyx", depend |-> Dep("foo", "Any", None, None), causing_pkg |-> None]},
   check_conflicts |-> [package1 : {"nyx"}, package2 : {"acl"},
                        reason : {Dep("foo", "Ge", "1", None), Dep("foo", "Any", None, None)}],
   search |-> MCPackages,
   packages |-> MCPackages,
   depends |-> MCDepends,
   licenses |-> {"GPL", "MIT"},
   backup |-> {[name |-> "etc/nyx", hash |-> "d41d"], [name |-> "etc/acl", hash |-> ""]},
   files |-> {[name |-> "usr", size |-> 0, mode |-> 2], [name |-> "nyx", size |-> 3, mode |-> 1]},
   find_dbs_satisfier |-> MCDepstrings]
================================================================================
