---------------------------- MODULE MCToolCalls ----------------------------
(* ToolCalls on small instances. *)
EXTENDS ToolCalls, TLC

\* Invocations are only compared for equality.
InvocationSymmetry == Permutations(Invocations)

\* One message declares all the calls.
OneMessage == [c \in Calls |-> 1]

\* A user's command is a message of its own.
OwnMessages == [c \in Calls |-> c]

\* The plan of an invocation that is not at its work is dead: no step looks at
\* it before Discover makes another.  States that differ in it alone are one.
HasPlan(i) == phase[i] \in {"planned", "working"}

LiveView ==
  <<calls, lease, phase, cancel, record, budget,
    [i \in {j \in Invocations : HasPlan(j)} |-> <<plan[i], todo[i], at[i]>>]>>
=============================================================================
