------------------------------- MODULE MCOutput -------------------------------
(* The instance of Output that TLC checks; it has no constants.                *)
EXTENDS Output
===============================================================================
