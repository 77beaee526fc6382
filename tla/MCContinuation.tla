----------------------------- MODULE MCContinuation -----------------------------
(* Continuation on small instances. *)
EXTENDS Continuation, TLC

EveryClass == {"transient", "cut", "overflow", "truncated", "permanent", "limit"}

TwoClasses == {"transient", "truncated"}

Transient == {"transient"}

Asking == {"user"}

Symmetric == Permutations(Runners)

=============================================================================
