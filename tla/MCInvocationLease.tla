------------------------- MODULE MCInvocationLease -------------------------
(* InvocationLease on small instances. *)
EXTENDS InvocationLease, TLC

\* Invocations are only compared for equality.
InvocationSymmetry == Permutations(Invocations)
=============================================================================
