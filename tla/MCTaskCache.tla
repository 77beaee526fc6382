---------------------------- MODULE MCTaskCache ----------------------------
(* TaskCache on a script that lists two tasks, one of them uncached, and   *)
(* calls the first again.                                                  *)
EXTENDS TaskCache, TLC

Script ==
  [root  |-> [of |-> "root",  in |-> 1, key |-> "Script"],
   pair  |-> [of |-> "root",  in |-> 1, key |-> "Pair"],
   first |-> [of |-> "pair",  in |-> 1, key |-> "First"],
   other |-> [of |-> "pair",  in |-> 2, key |-> "Other"],
   beside |-> [of |-> "root", in |-> 1, key |-> "Beside"],
   again |-> [of |-> "root",  in |-> 2, key |-> "Pair"],
   first2 |-> [of |-> "again", in |-> 1, key |-> "First"],
   other2 |-> [of |-> "again", in |-> 2, key |-> "Other"]]

Calls == DOMAIN Script
Of == [s \in Calls |-> Script[s].of]
In == [s \in Calls |-> Script[s].in]
Named == [s \in Calls |-> Script[s].key]

\* What is proved of scripts like this one is not proved of none.
ASSUME NeverListedTwice
=============================================================================
