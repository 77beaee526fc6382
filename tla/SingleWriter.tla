---------------------------- MODULE SingleWriter ----------------------------
(***************************************************************************)
(* What the open_streams lease promises to the event log of one thread:    *)
(* at any time at most one invocation may append under its own name, an    *)
(* invocation that lost that right never gets it back, and the entries an  *)
(* invocation did append are therefore one uninterrupted tenure.           *)
(*                                                                         *)
(* eggthreads/README.md: "at most one active invocation lease", "Leases    *)
(* make interrupted or competing writers fail closed".                     *)
(***************************************************************************)
EXTENDS Sequences, Naturals

CONSTANTS Invocations,  \* fresh identifiers, one per run_once attempt
          NoInvocation  \* "nobody"

VARIABLES owner,  \* the invocation that may write, or NoInvocation
          spent,  \* the invocations that can never write any more
          log     \* the author of each entry, NoInvocation if nobody owns it

vars == <<owner, spent, log>>

Init == /\ owner = NoInvocation
        /\ spent = {}
        /\ log = <<>>

\* An entry that belongs to no invocation may accompany a change of owner.
MaybeNote == log' \in {log, Append(log, NoInvocation)}

\* A fresh invocation becomes the owner; nobody owned the thread before.
Acquire(i) == /\ owner = NoInvocation
              /\ i \notin spent
              /\ owner' = i
              /\ MaybeNote
              /\ UNCHANGED spent

\* A fresh invocation is turned away, or is late before it starts.
Forgo(i) == /\ i \notin spent \cup {owner}
            /\ spent' = spent \cup {i}
            /\ MaybeNote
            /\ UNCHANGED owner

\* The owner appends.
Write == /\ owner # NoInvocation
         /\ log' = Append(log, owner)
         /\ UNCHANGED <<owner, spent>>

\* Somebody appends an entry that no invocation owns.
Note == /\ log' = Append(log, NoInvocation)
        /\ UNCHANGED <<owner, spent>>

\* Release, expiry or interruption: for good.
Lose == /\ owner # NoInvocation
        /\ owner' = NoInvocation
        /\ spent' = spent \cup {owner}
        /\ MaybeNote

Next == \/ \E i \in Invocations : Acquire(i) \/ Forgo(i)
        \/ Write
        \/ Note
        \/ Lose

Spec == Init /\ [][Next]_vars
=============================================================================
