--------------------------- MODULE MCEventReducer ---------------------------
(***************************************************************************)
(* Instances of EventReducer for TLC, with threads to start from: one at   *)
(* rest after an answer, one whose runner died before the answer, under a  *)
(* global approval, one whose runner died after the answer, one that waits *)
(* for the approval of a call of the model, one whose runner died while a  *)
(* user command ran, and one whose user command was run and published.     *)
(* Where a runner died its expired lease has been swept.  None of them is  *)
(* reached from another.                                                   *)
(***************************************************************************)
EXTENDS EventReducer

CONSTANTS c1, c2, i1, i2, i3

Trusted == <<Ev("user", None, None, "", 0), Ev("approval", None, None, "global", 0),
             Ev("open", None, i1, "llm", 1)>>

Unclosed == <<Ev("user", None, None, "", 0), Ev("open", None, i1, "llm", 1),
              Ev("assistant", None, i1, "", 0)>>

Answered == Append(Unclosed, Ev("close", None, i1, "", 0))

Asked == <<Ev("user", None, None, "", 0), Ev("open", None, i1, "llm", 1),
           Ev("assistant", c1, i1, "", 0), Ev("close", None, i1, "", 0)>>

Ran == <<Ev("user", c1, None, "", 0), Ev("open", None, i1, "tool", 1),
         Ev("started", c1, i1, "", 0), Ev("finished", c1, i1, "success", 0),
         Ev("decided", c1, i1, "auto", 0), Ev("result", c1, None, "user", 0),
         Ev("close", None, i1, "", 0)>>

Orphaned == <<Ev("user", c1, None, "", 0), Ev("open", None, i1, "tool", 1),
              Ev("started", c1, i1, "", 0)>>

Untrusted == {Answered, Unclosed, Asked, Orphaned, Ran}

Threads == Untrusted \cup {Trusted}

Symmetric == Permutations({i2, i3})

=============================================================================
