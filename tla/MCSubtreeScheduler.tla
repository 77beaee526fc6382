------------------------- MODULE MCSubtreeScheduler -------------------------
(* SubtreeScheduler on small instances. *)
EXTENDS SubtreeScheduler

\* Thread 1 is the one that lives through everything, thread 2 comes after it and
\* competes with it for the slots.
LowFirst == [t \in Threads |-> 10 - t]
Begun == [t \in Threads |-> IF t = 1 THEN {"llm", "tool"} ELSE {"llm"}]
Eventful == [t \in Threads |-> IF t = 1 THEN 1 ELSE 0]
Faultless == [t \in Threads |-> 0]
Faulty == [t \in Threads |-> IF t = 1 THEN 2 ELSE 0]
=============================================================================
