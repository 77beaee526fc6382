---------------------------- MODULE MCListedTwice ----------------------------
(* TaskCache on a script that lists the same task twice.                   *)
EXTENDS TaskCache

Calls == {"root", "one", "two"}
AllOfRoot == [s \in Calls |-> "root"]
AllFirst == [s \in Calls |-> 1]
SameTask == [s \in Calls |-> IF s = "root" THEN "Script" ELSE "Task"]
=============================================================================
